-------------------------- MODULE SupervisorProofs --------------------------
(***************************************************************************)
(* Theorems about Supervisor, for any requests, versions and limits: every *)
(* process stays registered, residency limits and a stop hold, and what    *)
(* an eviction, an idle kill and a newer host may do.                      *)
(***************************************************************************)
EXTENDS Supervisor, FiniteSetTheorems, TLAPS

(* A dying process runs no call.                                           *)
ProcShape ==
  \A g \in Gens :
    /\ proc[g].calls # {} => proc[g].state = "ready"
    /\ Unreaped(g) => proc[g].version \in Versions
    /\ g > generation => proc[g].state = "none"

(* What each kind of request may be doing, and what it names.              *)
Shape(r) ==
  /\ r.pc = "evicting" => r.kind \in {"bind", "invoke"}
  /\ r.pc = "evicting" /\ r.kind = "bind" => r.version \in Versions
  /\ r.pc = "stopping" => r.kind = "stop"
  /\ InProcess(r) => r.kind = "invoke"
  /\ r.kind = "invoke" => r.gen # 0

OpShape == \A o \in Ops : Shape(op[o])

(* What is registered for a version is a process of it, not yet gone.      *)
Registration ==
  \A v \in Versions : residents[v] # 0 =>
    /\ residents[v] <= generation
    /\ proc[residents[v]].version = v /\ Unreaped(residents[v])

(* Whoever is about to start a version's process awaits the one before it, *)
(* or that one is gone.                                                    *)
RoomMade ==
  \A o \in Ops :
    op[o].kind = "bind" /\ op[o].pc = "evicting" =>
      residents[op[o].version] \in {0, permit.awaits}

Budgeted == generation + Pending <= MaxGen

ResidentsBounded == Cardinality(Registered) <= MaxProcesses

(* A stop is never taken back, and a task that has ended holds nothing.    *)
StopHolds ==
  /\ stopped => ~standby
  /\ \A o \in Ops : op[o].pc = "stopping" => stopped
  /\ ended => stopped /\ Registered = {}

(* The parts of the type invariant: plain flags, tables, and how requests, *)
(* processes and the permit name one another.                              *)
Flags ==
  /\ epoch \in 0..MaxEpoch /\ limit \in 1..MaxProcesses
  /\ stopped \in BOOLEAN /\ ended \in BOOLEAN
  /\ standby \in BOOLEAN /\ watching \in BOOLEAN

Permits == [by : Ops \cup {None, Watchdog}, awaits : 0..MaxGen]

Tables ==
  /\ permit \in Permits
  /\ generation \in 0..MaxGen
  /\ proc \in [Gens -> Proc]
  /\ residents \in [Versions -> 0..MaxGen]
  /\ op \in [Ops -> Op]

CallsTied ==
  \A g \in Gens, o \in Ops :
    o \in proc[g].calls <=> InProcess(op[o]) /\ op[o].gen = g

(* A guest that may run a call whose answer was lost holds such a call.    *)
AstrayTied ==
  \A g \in Gens : proc[g].astray => \E o \in Ops : op[o].pc = "lost" /\ op[o].gen = g

PermitTied == \A o \in Ops : permit.by = o <=> op[o].pc \in {"evicting", "stopping"}

AwaitsDying == permit.awaits # 0 => proc[permit.awaits].state = "dying"

Processes == ProcShape /\ Registration /\ EveryProcessRegistered
Requests == OpShape /\ CallsTied /\ AstrayTied /\ PermitTied /\ AwaitsDying /\ RoomMade
Limits == Budgeted /\ ResidentsBounded

Core == Tables /\ Processes /\ Requests /\ Limits

SupervisorInvariant == Flags /\ Core /\ StopHolds

-----------------------------------------------------------------------------
(* Records and sets a step makes. *)

LEMMA TypeParts == TypeOK <=> Flags /\ Tables /\ CallsTied /\ PermitTied /\ AwaitsDying
  BY DEF TypeOK, Flags, Tables, CallsTied, PermitTied, AwaitsDying, Permits

LEMMA Made ==
  /\ Idle \in Op /\ Blank \in Proc /\ Free \in Permits
  /\ Idle.pc = "idle" /\ Idle.kind = "none" /\ Idle.callback = "none" /\ Shape(Idle)
  /\ Free.by = None /\ Free.awaits = 0
  BY SupervisorAssumption DEF Idle, Op, Blank, Proc, Free, Permits, Shape, InProcess

(* What CallEnds leaves of a request: a callback that was asked for.       *)
Over(c) == [Idle EXCEPT !.callback = c]

LEMMA OverMade ==
  ASSUME NEW c \in {"none", "reading", "forwarded", "answered"}
  PROVE  /\ Over(c) \in Op /\ Over(c).pc = "idle" /\ Over(c).kind = "none"
         /\ Over(c).callback = c /\ Shape(Over(c))
<1>1. /\ Over(c) \in Op /\ Over(c).pc = "idle" /\ Over(c).kind = "none"
      /\ Over(c).callback = c
  BY Made DEF Over, Op
<1> QED BY <1>1 DEF Shape, InProcess

LEMMA AstrayKept ==
  ASSUME AstrayTied, \A h \in Gens : proc'[h].astray => proc[h].astray,
         \A i \in Ops : op[i].pc = "lost" => op'[i].pc = "lost" /\ op'[i].gen = op[i].gen
  PROVE  AstrayTied'
  BY DEF AstrayTied

LEMMA Awaiting ==
  ASSUME permit \in Permits, NEW g \in 0..MaxGen
  PROVE  /\ [permit EXCEPT !.awaits = g] \in Permits
         /\ [permit EXCEPT !.awaits = g].by = permit.by
         /\ [permit EXCEPT !.awaits = g].awaits = g
  BY DEF Permits

(* The set of binds that may still start a process, and its size.          *)
Binding(r) == r.kind = "bind" /\ r.pc \in {"queued", "evicting"}
Binds == {o \in Ops : Binding(op[o])}

LEMMA PendingCounts == Pending = Cardinality(Binds) /\ Pending \in Nat /\ IsFiniteSet(Binds)
<1>1. Binds \in SUBSET Ops
  BY DEF Binds
<1>2. IsFiniteSet(Binds)
  BY <1>1, FS_Subset, SupervisorAssumption
<1>3. Pending = Cardinality(Binds)
  BY DEF Pending, Binds, Binding
<1> QED
  BY <1>2, <1>3, FS_CardinalityType

(* Fewer binds in flight, and no process started, stays within the bound.  *)
LEMMA BudgetKept ==
  ASSUME Tables, Budgeted, generation' = generation,
         \A o \in Ops : Binding(op'[o]) => Binding(op[o])
  PROVE  Budgeted'
<1>1. Binds' \in SUBSET Binds
  BY DEF Binds, Binding
<1>2. Cardinality(Binds') <= Cardinality(Binds)
  BY <1>1, PendingCounts, FS_Subset
<1>3. Pending' = Cardinality(Binds') /\ Pending' \in Nat
  <2>1. IsFiniteSet(Binds')
    BY <1>1, PendingCounts, FS_Subset
  <2>2. Pending' = Cardinality(Binds')
    BY DEF Pending, Binds, Binding
  <2> QED BY <2>1, <2>2, FS_CardinalityType
<1> QED BY <1>2, <1>3, PendingCounts, SupervisorAssumption DEF Budgeted, Tables

LEMMA RegisteredFinite ==
  ASSUME Tables
  PROVE  /\ IsFiniteSet(Registered) /\ Cardinality(Registered) \in Nat
         /\ Registered \subseteq Gens
<1>1. Registered \subseteq Gens
  BY SupervisorAssumption DEF Tables, Registered, Gens
<1>2. IsFiniteSet(Gens)
  BY FS_Interval, SupervisorAssumption DEF Gens
<1> QED BY <1>1, <1>2, FS_Subset, FS_CardinalityType

LEMMA RegisteredKept ==
  ASSUME Tables, ResidentsBounded, Registered' \subseteq Registered
  PROVE  ResidentsBounded'
<1>1. Cardinality(Registered') <= Cardinality(Registered) /\ Cardinality(Registered') \in Nat
  BY RegisteredFinite, FS_Subset, FS_CardinalityType
<1> QED BY <1>1, RegisteredFinite, SupervisorAssumption DEF ResidentsBounded

-----------------------------------------------------------------------------
(* The kinds of step: what one does to processes, requests and the permit. *)

Settled == UNCHANGED <<generation, proc, residents>>

(* A request comes; a bind only while it may still start a process.        *)
Asks(o) ==
  /\ op[o] = Idle /\ UNCHANGED permit /\ Settled
  /\ \E r \in Op : /\ r.pc = "queued" /\ r.callback = "none"
                   /\ r.kind = "bind" => generation + Pending < MaxGen
                   /\ r.kind = "invoke" => r.gen # 0
                   /\ op' = [op EXCEPT ![o] = r]

(* A request that was not dispatched is answered, and lets the permit go.  *)
Drops(o) ==
  /\ ~InProcess(op[o]) /\ op' = [op EXCEPT ![o] = Idle] /\ Settled
  /\ permit' = IF permit.by = o THEN Free ELSE permit

(* A request is granted the permit, to evict, start or stop processes.     *)
Takes(o, pc, g) ==
  /\ op[o].pc = "queued" /\ permit = Free /\ permit' = [by |-> o, awaits |-> g]
  /\ op' = [op EXCEPT ![o].pc = pc] /\ Settled
  /\ pc \in {"evicting", "stopping"} /\ g \in 0..MaxGen
  /\ g # 0 => proc[g].state = "dying"
  /\ pc = "stopping" => op[o].kind = "stop" /\ op[o].epoch = epoch /\ stopped'
  /\ pc = "evicting" => op[o].kind \in {"bind", "invoke"}
  /\ pc = "evicting" /\ op[o].kind = "bind" =>
       op[o].version \in Versions /\ g = residents[op[o].version]

(* A live process is ended, awaited by the permit's holder or by nobody.   *)
Ends(g) ==
  /\ Alive(g) /\ Fenced(g) /\ UNCHANGED <<generation, residents>>
  /\ \/ UNCHANGED permit
     \/ permit.awaits = 0 /\ permit' = [permit EXCEPT !.awaits = g]

(* The permit's holder awaits a process that was ended before.             *)
Joins(g) ==
  /\ proc[g].state = "dying" /\ UNCHANGED op /\ Settled
  /\ permit.awaits = 0 /\ permit' = [permit EXCEPT !.awaits = g]

(* A bind joins the process of its version.                                *)
Holds(o) ==
  /\ op[o].pc = "queued" /\ op[o].kind = "bind" /\ Held(op[o].version)
  /\ op[o].version \in Versions /\ UNCHANGED <<generation, residents, permit>>
  /\ \E s \in BOOLEAN :
       proc' = [proc EXCEPT ![residents[op[o].version]].speculative = s]
  /\ op' = [op EXCEPT ![o] =
              IF proc[residents[op[o].version]].state = "ready" THEN Idle
              ELSE [op[o] EXCEPT !.pc = "loading", !.gen = residents[op[o].version]]]

(* A call that ran is answered, and a callback of it may be left.          *)
Returns(o) ==
  /\ op[o].pc = "running" /\ UNCHANGED <<generation, residents, permit>>
  /\ proc' = [proc EXCEPT ![op[o].gen].calls = @ \ {o}]
  /\ \E c \in {"none", "reading", "forwarded"} :
       /\ c = "none" \/ c = op[o].callback
       /\ op' = [op EXCEPT ![o] = Over(c)]

(* A call's answer is lost, and the call is kept.                          *)
Loses(o) ==
  /\ op[o].pc = "running" /\ UNCHANGED <<generation, residents, permit>>
  /\ proc' = [proc EXCEPT ![op[o].gen].astray = TRUE]
  /\ op' = [op EXCEPT ![o].pc = "lost"]

(* A callback of a call moves.                                             *)
CallsBack(o) ==
  /\ UNCHANGED permit /\ Settled
  /\ \E c \in {"none", "reading", "forwarded", "answered"} :
       /\ c \in {"forwarded", "answered"} => op[o].epoch = epoch
       /\ op' = [op EXCEPT ![o].callback = c]

(* No process and no request changes; the watchdog may take its turn.      *)
Rests ==
  /\ UNCHANGED op /\ Settled
  /\ \/ UNCHANGED permit
     \/ permit = Free /\ permit' = [by |-> Watchdog, awaits |-> 0]
     \/ permit = [by |-> Watchdog, awaits |-> 0] /\ permit' = Free

Kinds ==
  \/ \E o \in Ops : Asks(o) \/ Drops(o) \/ Holds(o) \/ Returns(o) \/ Loses(o) \/ CallsBack(o)
  \/ \E o \in Ops, pc \in {"evicting", "stopping"}, g \in 0..MaxGen : Takes(o, pc, g)
  \/ \E g \in Gens : Ends(g) \/ Joins(g) \/ Reap(g) \/ Loads(g)
  \/ \E o \in Ops : BindStarts(o) \/ Dispatch(o)
  \/ Rests

-----------------------------------------------------------------------------
(* Processes. *)

LEMMA ProcessesKept ==
  ASSUME Processes, ResidentsBounded, Settled
  PROVE  Processes' /\ ResidentsBounded'
  BY DEF Settled, Processes, ProcShape, Registration, EveryProcessRegistered, Unreaped,
     Alive, ResidentsBounded, Registered

(* A process that is not gone may change, but for its version.             *)
LEMMA ProcessChanges ==
  ASSUME Tables, Processes, ResidentsBounded, NEW g \in Gens, NEW p \in Proc, Unreaped(g),
         proc' = [proc EXCEPT ![g] = p], UNCHANGED <<generation, residents>>,
         p.version = proc[g].version, p.state \in {"loading", "ready", "dying"},
         p.calls # {} => p.state = "ready"
  PROVE  Processes' /\ ResidentsBounded' /\ proc' \in [Gens -> Proc]
<1>1. proc' \in [Gens -> Proc] /\ proc'[g] = p /\ \A h \in Gens \ {g} : proc'[h] = proc[h]
  BY DEF Tables
<1>2. ProcShape'
  BY <1>1 DEF Processes, ProcShape, Unreaped, Alive
<1>3. EveryProcessRegistered'
  BY <1>1 DEF Processes, EveryProcessRegistered, Unreaped
<1>4. Registration'
  <2> SUFFICES ASSUME NEW v \in Versions, residents[v] # 0
               PROVE  /\ residents[v] <= generation
                      /\ proc'[residents[v]].version = v /\ Unreaped(residents[v])'
    BY DEF Registration
  <2>1. residents[v] \in Gens
    BY SupervisorAssumption DEF Tables, Gens
  <2>2. /\ residents[v] <= generation
        /\ proc[residents[v]].version = v /\ Unreaped(residents[v])
    BY DEF Processes, Registration
  <2> QED BY <1>1, <2>1, <2>2 DEF Unreaped
<1>5. ResidentsBounded'
  BY DEF ResidentsBounded, Registered
<1> QED BY <1>1, <1>2, <1>3, <1>4, <1>5 DEF Processes

LEMMA Reaped ==
  ASSUME Tables, Processes, ResidentsBounded, AwaitsDying, NEW g \in Gens, Reap(g)
  PROVE  /\ Processes' /\ ResidentsBounded' /\ AwaitsDying'
         /\ proc' \in [Gens -> Proc] /\ residents' \in [Versions -> 0..MaxGen]
         /\ \A h \in Gens : proc'[h].astray => proc[h].astray
<1> DEFINE w == proc[g].version
<1>1. proc[g].state = "dying" /\ w \in Versions /\ residents[w] = g
  BY DEF Reap, Processes, ProcShape, EveryProcessRegistered, Unreaped
<1>2. [Blank EXCEPT !.state = "reaped"] \in Proc
      /\ [Blank EXCEPT !.state = "reaped"].state = "reaped"
      /\ [Blank EXCEPT !.state = "reaped"].calls = {}
      /\ ~[Blank EXCEPT !.state = "reaped"].astray
  BY DEF Blank, Proc
<1>3. /\ proc' \in [Gens -> Proc] /\ proc'[g].state = "reaped" /\ proc'[g].calls = {}
      /\ ~proc'[g].astray /\ \A h \in Gens \ {g} : proc'[h] = proc[h]
  BY <1>2 DEF Tables, Reap
<1>4. /\ residents' \in [Versions -> 0..MaxGen] /\ residents'[w] = 0
      /\ \A v \in Versions \ {w} : residents'[v] = residents[v]
  BY <1>1, SupervisorAssumption DEF Tables, Reap
<1>5. ProcShape'
  BY <1>1, <1>3 DEF Processes, ProcShape, Unreaped, Alive, Reap
<1>6. EveryProcessRegistered'
  <2> SUFFICES ASSUME NEW h \in Gens, Unreaped(h)'
               PROVE  residents'[proc'[h].version] = h
    BY DEF EveryProcessRegistered
  <2>1. h # g /\ proc'[h] = proc[h]
    BY <1>3 DEF Unreaped
  <2>2. proc[h].version \in Versions /\ residents[proc[h].version] = h
    BY <2>1 DEF Processes, ProcShape, EveryProcessRegistered, Unreaped
  <2> QED BY <1>1, <1>4, <2>1, <2>2
<1>7. Registration'
  <2> SUFFICES ASSUME NEW v \in Versions, residents'[v] # 0
               PROVE  /\ residents'[v] <= generation'
                      /\ proc'[residents'[v]].version = v
                      /\ proc'[residents'[v]].state \in {"loading", "ready", "dying"}
    BY DEF Registration, Unreaped
  <2>1. v # w /\ residents'[v] = residents[v] /\ generation' = generation
    BY <1>4 DEF Reap
  <2>2. residents[v] <= generation /\ proc[residents[v]].version = v /\ Unreaped(residents[v])
    BY <2>1 DEF Processes, Registration
  <2>3. residents[v] \in Gens \ {g}
    BY <2>1, <2>2, SupervisorAssumption DEF Tables, Gens
  <2> QED BY <1>3, <2>1, <2>2, <2>3 DEF Unreaped
<1>8. ResidentsBounded'
  <2>1. Registered' \subseteq Registered
    BY <1>4 DEF Registered
  <2> QED BY <2>1, RegisteredKept
<1>9. AwaitsDying'
  <2>1. permit'.awaits # 0 => permit'.awaits = permit.awaits /\ permit.awaits # g
    BY DEF Reap, Tables, Permits
  <2>2. permit.awaits \in 0..MaxGen
    BY DEF Tables, Permits
  <2> QED BY <1>3, <2>1, <2>2, SupervisorAssumption DEF AwaitsDying, Gens
<1> QED BY <1>3, <1>4, <1>5, <1>6, <1>7, <1>8, <1>9 DEF Processes

(* Who starts a process has the permit, room for it, and nobody before it. *)
LEMMA StarterAlone ==
  ASSUME Tables, OpShape, RoomMade, Budgeted, NEW o \in Ops, BindStarts(o)
  PROVE  /\ op[o].version \in Versions /\ residents[op[o].version] = 0
         /\ permit.by = o /\ op[o].pc = "evicting" /\ op[o].kind = "bind"
         /\ generation + 1 \in Gens /\ generation' = generation + 1
         /\ Pending' = Pending - 1
<1>1. op[o].pc = "evicting" /\ op[o].kind = "bind" /\ permit = [by |-> o, awaits |-> 0]
  BY DEF BindStarts, Evicting, Ready
<1>2. op[o].version \in Versions /\ residents[op[o].version] = 0
  BY <1>1 DEF OpShape, Shape, RoomMade
<1>3. o \in Binds
  BY <1>1 DEF Binds, Binding
<1>4. Pending # 0
  BY <1>3, PendingCounts, FS_EmptySet
<1>5. generation + 1 \in Gens /\ generation' = generation + 1
  BY <1>4, PendingCounts, SupervisorAssumption DEF BindStarts, Budgeted, Tables, Gens
<1>6. Pending' = Pending - 1
  <2>1. op'[o].pc = "loading" /\ \A i \in Ops \ {o} : op'[i] = op[i]
    <3>1. op[o] \in Op
      BY DEF Tables
    <3>2. op'[o] = [op[o] EXCEPT !.pc = "loading", !.gen = generation']
      BY DEF BindStarts, Tables
    <3> QED BY <3>1, <3>2 DEF BindStarts, Tables, Op
  <2>2. Binds' = Binds \ {o}
    BY <2>1 DEF Binds, Binding
  <2>3. Pending' = Cardinality(Binds')
    BY DEF Pending, Binds, Binding
  <2> QED BY <1>3, <2>2, <2>3, PendingCounts, FS_RemoveElement
<1> QED BY <1>1, <1>2, <1>5, <1>6

Begun(o) == [Blank EXCEPT !.state = "loading", !.version = op[o].version,
                          !.speculative = op[o].speculative]

LEMMA Started ==
  ASSUME Tables, Processes, OpShape, RoomMade, Limits, limit \in 1..MaxProcesses,
         NEW o \in Ops, BindStarts(o)
  PROVE  /\ Processes' /\ Limits' /\ generation' \in 0..MaxGen
         /\ proc' \in [Gens -> Proc] /\ residents' \in [Versions -> 0..MaxGen]
         /\ proc'[generation'].calls = {} /\ ~proc'[generation'].astray
         /\ \A h \in Gens \ {generation'} : proc'[h] = proc[h]
<1> DEFINE n == generation + 1
           w == op[o].version
<1>0. /\ w \in Versions /\ residents[w] = 0 /\ n \in Gens /\ generation' = n
      /\ Pending' = Pending - 1
  BY StarterAlone DEF Limits
<1>1. /\ Begun(o) \in Proc /\ Begun(o).state = "loading" /\ Begun(o).version = w
      /\ Begun(o).calls = {} /\ ~Begun(o).astray
  <2>1. op[o] \in Op
    BY DEF Tables
  <2> QED BY <1>0, <2>1 DEF Begun, Blank, Proc, Op
<1>2. /\ proc' \in [Gens -> Proc] /\ proc'[n] = Begun(o)
      /\ \A h \in Gens \ {n} : proc'[h] = proc[h]
  BY <1>0, <1>1 DEF BindStarts, Begun, Tables
<1>3. /\ residents' \in [Versions -> 0..MaxGen] /\ residents'[w] = n
      /\ \A v \in Versions \ {w} : residents'[v] = residents[v]
  BY <1>0, SupervisorAssumption DEF BindStarts, Tables, Gens
<1>4. ProcShape'
  <2>1. \A h \in Gens : h > n => h > generation /\ h # n
    BY SupervisorAssumption DEF Tables, Gens
  <2> QED BY <1>0, <1>1, <1>2, <2>1 DEF Processes, ProcShape, Unreaped, Alive
<1>5. EveryProcessRegistered'
  <2> SUFFICES ASSUME NEW h \in Gens, Unreaped(h)'
               PROVE  residents'[proc'[h].version] = h
    BY DEF EveryProcessRegistered
  <2>1. CASE h = n
    BY <1>1, <1>2, <1>3, <2>1
  <2>2. CASE h # n
    <3>1. proc'[h] = proc[h] /\ Unreaped(h)
      BY <1>2, <2>2 DEF Unreaped
    <3>2. proc[h].version \in Versions /\ residents[proc[h].version] = h
      BY <3>1 DEF Processes, ProcShape, EveryProcessRegistered
    <3>3. h # 0
      BY DEF Gens
    <3> QED BY <1>0, <1>3, <3>1, <3>2, <3>3
  <2> QED BY <2>1, <2>2
<1>6. Registration'
  <2> SUFFICES ASSUME NEW v \in Versions, residents'[v] # 0
               PROVE  /\ residents'[v] <= generation'
                      /\ proc'[residents'[v]].version = v
                      /\ proc'[residents'[v]].state \in {"loading", "ready", "dying"}
    BY DEF Registration, Unreaped
  <2>1. CASE v = w
    BY <1>0, <1>1, <1>2, <1>3, <2>1, SupervisorAssumption DEF Unreaped, Gens
  <2>2. CASE v # w
    <3>1. /\ residents'[v] = residents[v] /\ residents[v] <= generation
          /\ proc[residents[v]].version = v /\ Unreaped(residents[v])
      BY <1>3, <2>2 DEF Processes, Registration
    <3>2. residents[v] \in Gens \ {n} /\ residents[v] <= n
      BY <2>2, <3>1, SupervisorAssumption DEF Tables, Gens
    <3> QED BY <1>0, <1>2, <3>1, <3>2 DEF Unreaped
  <2> QED BY <2>1, <2>2
<1>7. ResidentsBounded'
  <2>1. Registered' \subseteq Registered \cup {n}
    BY <1>3 DEF Registered
  <2>2. /\ IsFiniteSet(Registered \cup {n})
        /\ Cardinality(Registered \cup {n}) <= Cardinality(Registered) + 1
    BY RegisteredFinite, FS_AddElement
  <2>3. Cardinality(Registered') <= Cardinality(Registered \cup {n})
        /\ Cardinality(Registered') \in Nat
    BY <2>1, <2>2, FS_Subset, FS_CardinalityType
  <2>4. Cardinality(Registered) + 1 <= MaxProcesses
    BY RegisteredFinite, SupervisorAssumption DEF BindStarts, TooMany, Reserve
  <2>5. Cardinality(Registered \cup {n}) \in Nat
    BY <2>2, FS_CardinalityType
  <2> QED BY <2>2, <2>3, <2>4, <2>5, RegisteredFinite, SupervisorAssumption DEF ResidentsBounded
<1>8. Budgeted'
  BY <1>0, PendingCounts, SupervisorAssumption DEF Limits, Budgeted, Tables
<1> QED
  BY <1>0, <1>1, <1>2, <1>3, <1>4, <1>5, <1>6, <1>7, <1>8 DEF Processes, Limits, Gens

-----------------------------------------------------------------------------
(* Each kind of step preserves the core. *)

(* One request changes, outside of any call, and no process does.          *)
LEMMA RequestChanges ==
  ASSUME Core, Settled, NEW o \in Ops, NEW r \in Op, op' = [op EXCEPT ![o] = r],
         ~InProcess(op[o]), ~InProcess(r)
  PROVE  /\ Processes' /\ ResidentsBounded' /\ CallsTied' /\ AstrayTied'
         /\ op' \in [Ops -> Op] /\ op'[o] = r /\ \A i \in Ops \ {o} : op'[i] = op[i]
<1>1. op' \in [Ops -> Op] /\ op'[o] = r /\ \A i \in Ops \ {o} : op'[i] = op[i]
  BY DEF Core, Tables
<1>2. CallsTied'
  BY <1>1 DEF Core, Requests, CallsTied, Settled
<1>3. AstrayTied'
  <2>1. \A i \in Ops : op[i].pc = "lost" => op'[i] = op[i]
    BY <1>1 DEF InProcess
  <2> QED BY <2>1, AstrayKept DEF Core, Requests, Settled
<1> QED BY <1>1, <1>2, <1>3, ProcessesKept DEF Core, Limits

LEMMA AsksCore ==
  ASSUME Core, NEW o \in Ops, Asks(o)
  PROVE  Core'
<1>1. PICK r \in Op : /\ r.pc = "queued" /\ r.callback = "none"
                      /\ r.kind = "bind" => generation + Pending < MaxGen
                      /\ r.kind = "invoke" => r.gen # 0
                      /\ op' = [op EXCEPT ![o] = r]
  BY DEF Asks
<1>2. op[o].pc = "idle" /\ op[o].kind = "none" /\ Settled /\ UNCHANGED permit
  BY Made DEF Asks
<1>3. /\ Processes' /\ ResidentsBounded' /\ CallsTied' /\ AstrayTied'
      /\ op' \in [Ops -> Op] /\ op'[o] = r /\ \A i \in Ops \ {o} : op'[i] = op[i]
  <2>1. ~InProcess(op[o]) /\ ~InProcess(r)
    BY <1>1, <1>2 DEF InProcess
  <2> QED BY <1>1, <1>2, <2>1, RequestChanges
<1>4. Tables' /\ OpShape' /\ PermitTied' /\ AwaitsDying' /\ RoomMade'
  BY <1>1, <1>2, <1>3 DEF Core, Tables, Requests, OpShape, Shape, InProcess, PermitTied,
     AwaitsDying, RoomMade, Settled
<1>5. Budgeted'
  <2>1. CASE r.kind = "bind"
    <3>1. Binds' = Binds \cup {o} /\ o \notin Binds
      BY <1>1, <1>2, <1>3, <2>1 DEF Binds, Binding
    <3>2. Pending' = Cardinality(Binds')
      BY DEF Pending, Binds, Binding
    <3>3. Pending' = Pending + 1
      BY <3>1, <3>2, PendingCounts, FS_AddElement
    <3> QED BY <1>1, <1>2, <2>1, <3>3, PendingCounts, SupervisorAssumption
            DEF Budgeted, Core, Tables, Settled
  <2>2. CASE r.kind # "bind"
    <3>1. \A i \in Ops : Binding(op'[i]) => Binding(op[i])
      BY <1>3, <2>2 DEF Binding
    <3> QED BY <1>2, <3>1, BudgetKept DEF Core, Limits, Settled
  <2> QED BY <2>1, <2>2
<1> QED BY <1>3, <1>4, <1>5 DEF Core, Requests, Limits

LEMMA DropsCore ==
  ASSUME Core, NEW o \in Ops, Drops(o)
  PROVE  Core'
<1>1. /\ Processes' /\ ResidentsBounded' /\ CallsTied' /\ AstrayTied'
      /\ op' \in [Ops -> Op] /\ op'[o] = Idle /\ \A i \in Ops \ {o} : op'[i] = op[i]
  <2>1. Idle \in Op /\ ~InProcess(Idle)
    BY Made DEF InProcess
  <2> QED BY <2>1, RequestChanges DEF Drops
<1>2. permit' \in Permits /\ (permit' = permit \/ permit'.awaits = 0)
  BY Made DEF Drops, Core, Tables
<1>3. PermitTied'
  <2> SUFFICES ASSUME NEW i \in Ops
               PROVE  permit'.by = i <=> op'[i].pc \in {"evicting", "stopping"}
    BY DEF PermitTied
  <2>1. None \notin Ops
    BY SupervisorAssumption
  <2>2. CASE i = o
    <3>1. permit'.by # o
      BY Made, <2>1 DEF Drops
    <3> QED BY Made, <1>1, <2>2, <3>1
  <2>3. CASE i # o
    <3>1. permit'.by = i <=> permit.by = i
      BY Made, <2>1, <2>3 DEF Drops
    <3> QED BY <1>1, <2>3, <3>1 DEF Core, Requests, PermitTied
  <2> QED BY <2>2, <2>3
<1>4. OpShape' /\ AwaitsDying' /\ Tables'
  BY Made, <1>1, <1>2 DEF Drops, Core, Tables, Requests, OpShape, AwaitsDying, Settled
<1>5. RoomMade'
  <2> SUFFICES ASSUME NEW i \in Ops, op'[i].kind = "bind", op'[i].pc = "evicting"
               PROVE  residents'[op'[i].version] \in {0, permit'.awaits}
    BY DEF RoomMade
  <2>1. i # o /\ op'[i] = op[i]
    BY Made, <1>1
  <2>2. permit.by = i
    BY <2>1 DEF Core, Requests, PermitTied
  <2> QED BY <2>1, <2>2 DEF Drops, Settled, Core, Requests, RoomMade
<1>6. Budgeted'
  <2>1. \A i \in Ops : Binding(op'[i]) => Binding(op[i])
    BY Made, <1>1 DEF Binding
  <2> QED BY <2>1, BudgetKept DEF Core, Limits, Drops, Settled
<1> QED BY <1>1, <1>3, <1>4, <1>5, <1>6 DEF Core, Requests, Limits

LEMMA TakesCore ==
  ASSUME Core, NEW o \in Ops, NEW pc \in {"evicting", "stopping"}, NEW g \in 0..MaxGen,
         Takes(o, pc, g)
  PROVE  Core'
<1> DEFINE r == [op[o] EXCEPT !.pc = pc]
<1>1. /\ r \in Op /\ r.pc = pc /\ r.kind = op[o].kind /\ r.version = op[o].version
      /\ r.gen = op[o].gen
      /\ op' = [op EXCEPT ![o] = r]
  BY DEF Takes, Core, Tables, Op
<1>2. /\ Processes' /\ ResidentsBounded' /\ CallsTied' /\ AstrayTied'
      /\ op' \in [Ops -> Op] /\ op'[o] = r /\ \A i \in Ops \ {o} : op'[i] = op[i]
  <2> HIDE DEF r
  <2>1. ~InProcess(op[o]) /\ ~InProcess(r)
    BY <1>1 DEF Takes, InProcess
  <2> QED BY <1>1, <2>1, RequestChanges DEF Takes
<1>3. permit' \in Permits /\ permit'.by = o /\ permit'.awaits = g
  BY DEF Takes, Permits
<1>4. \A i \in Ops : op[i].pc \notin {"evicting", "stopping"}
  BY Made, SupervisorAssumption DEF Takes, Core, Requests, PermitTied
<1> HIDE DEF r
<1>5. Tables' /\ PermitTied' /\ AwaitsDying'
  BY <1>1, <1>2, <1>3, <1>4 DEF Takes, Settled, Core, Tables, PermitTied, AwaitsDying
<1>6. OpShape' /\ RoomMade'
  BY <1>1, <1>2, <1>3, <1>4 DEF Takes, Settled, Core, Requests, OpShape, Shape, InProcess,
     RoomMade
<1>7. Budgeted'
  <2>1. \A i \in Ops : Binding(op'[i]) => Binding(op[i])
    BY <1>1, <1>2 DEF Binding, Takes
  <2> QED BY <2>1, BudgetKept DEF Core, Limits, Takes, Settled
<1> QED BY <1>2, <1>5, <1>6, <1>7 DEF Core, Requests, Limits

LEMMA RestsCore ==
  ASSUME Core, Rests \/ \E g \in Gens : Joins(g)
  PROVE  Core'
<1>1. Processes' /\ ResidentsBounded'
  BY ProcessesKept DEF Core, Limits, Rests, Joins
<1>2. UNCHANGED op /\ Settled
  BY DEF Rests, Joins
<1>3. CallsTied' /\ AstrayTied' /\ OpShape'
  BY <1>2 DEF Settled, Core, Requests, CallsTied, AstrayTied, OpShape
<1>4. Budgeted'
  BY <1>2, BudgetKept DEF Settled, Core, Limits
<1>5. /\ permit' \in Permits /\ \A o \in Ops : permit'.by = o <=> permit.by = o
      /\ permit'.awaits # permit.awaits =>
           permit.awaits = 0 /\ permit'.awaits \in Gens /\ proc[permit'.awaits].state = "dying"
  <2>1. CASE Rests
    <3>1. Watchdog \notin Ops /\ None \notin Ops
      BY SupervisorAssumption
    <3>2. [by |-> Watchdog, awaits |-> 0] \in Permits
      BY SupervisorAssumption DEF Permits
    <3> QED BY <2>1, <3>1, <3>2, Made DEF Rests, Core, Tables
  <2>2. ASSUME NEW g \in Gens, Joins(g)
        PROVE  /\ permit' \in Permits /\ \A o \in Ops : permit'.by = o <=> permit.by = o
               /\ permit'.awaits = g /\ permit.awaits = 0 /\ proc[g].state = "dying"
    <3>1. g \in 0..MaxGen
      BY SupervisorAssumption DEF Gens
    <3> QED BY <2>2, <3>1, Awaiting DEF Joins, Core, Tables
  <2> QED BY <2>1, <2>2
<1>6. PermitTied' /\ AwaitsDying' /\ RoomMade' /\ Tables'
  BY <1>2, <1>5 DEF Settled, Core, Requests, PermitTied, AwaitsDying, RoomMade, Tables
<1> QED BY <1>1, <1>3, <1>4, <1>6 DEF Core, Requests, Limits

(* The permit's holder stays, and whoever does not hold it is answered or  *)
(* goes on without it.                                                     *)
LEMMA RequestsGoOn ==
  ASSUME Core, UNCHANGED <<generation, residents>>, op' \in [Ops -> Op],
         permit'.by = permit.by,
         permit'.awaits # permit.awaits => permit.awaits = 0,
         \A i \in Ops :
           \/ op'[i] = op[i]
           \/ /\ op[i].pc \notin {"evicting", "stopping"}
              /\ op'[i].pc \notin {"evicting", "stopping"}
              /\ Binding(op'[i]) => Binding(op[i])
              /\ Shape(op'[i])
  PROVE  OpShape' /\ PermitTied' /\ RoomMade' /\ Budgeted'
<1>1. Budgeted'
  BY BudgetKept DEF Core, Limits
<1>2. OpShape' /\ PermitTied' /\ RoomMade'
  BY DEF Core, Requests, OpShape, PermitTied, RoomMade
<1> QED BY <1>1, <1>2

LEMMA EndsCore ==
  ASSUME Core, NEW g \in Gens, Ends(g)
  PROVE  Core'
<1> DEFINE p == [proc[g] EXCEPT !.state = "dying", !.calls = {}, !.astray = FALSE]
<1>1. /\ p \in Proc /\ p.state = "dying" /\ p.calls = {} /\ p.version = proc[g].version
      /\ ~p.astray
      /\ proc' = [proc EXCEPT ![g] = p]
  <2>1. proc[g] \in Proc
    BY DEF Core, Tables
  <2> QED BY <2>1 DEF Ends, Fenced, Proc
<1> HIDE DEF p
<1>2. Unreaped(g)
  BY DEF Ends, Alive, Unreaped
<1>3. Processes' /\ ResidentsBounded' /\ proc' \in [Gens -> Proc]
  BY <1>1, <1>2, ProcessChanges DEF Ends, Core, Limits
<1>4. proc'[g] = p /\ \A h \in Gens \ {g} : proc'[h] = proc[h]
  BY <1>1 DEF Core, Tables
<1>5. /\ op' \in [Ops -> Op]
      /\ \A i \in Ops : op'[i] = IF Within(op[i], g) THEN Idle ELSE op[i]
  BY Made DEF Ends, Fenced, Core, Tables
<1>6. /\ permit' \in Permits /\ permit'.by = permit.by
      /\ permit'.awaits # permit.awaits => permit.awaits = 0 /\ permit'.awaits = g
  <2>1. g \in 0..MaxGen
    BY SupervisorAssumption DEF Gens
  <2> QED BY <2>1, Awaiting DEF Ends, Core, Tables
<1>7. OpShape' /\ PermitTied' /\ RoomMade' /\ Budgeted'
  <2>1. \A i \in Ops : \/ op'[i] = op[i]
                       \/ op[i].pc \in {"loading", "running", "lost"} /\ op'[i] = Idle
    BY <1>5 DEF Within, InProcess
  <2>2. \A i \in Ops :
           \/ op'[i] = op[i]
           \/ /\ op[i].pc \notin {"evicting", "stopping"}
              /\ op'[i].pc \notin {"evicting", "stopping"}
              /\ Binding(op'[i]) => Binding(op[i])
              /\ Shape(op'[i])
    BY <2>1, Made DEF Binding
  <2> QED BY <1>5, <1>6, <2>2, RequestsGoOn DEF Ends
<1>8. CallsTied'
  BY <1>1, <1>4, <1>5, Made DEF Core, Requests, CallsTied, Within, InProcess
<1>9. AstrayTied'
  BY <1>1, <1>4, <1>5 DEF Core, Requests, AstrayTied, Within
<1>10. AwaitsDying'
  <2>1. permit.awaits \in 0..MaxGen
    BY DEF Core, Tables, Permits
  <2> QED BY <1>1, <1>4, <1>6, <2>1, SupervisorAssumption DEF Core, Requests, AwaitsDying, Gens
<1>11. Tables'
  BY <1>3, <1>5, <1>6 DEF Core, Tables, Ends
<1> QED BY <1>3, <1>7, <1>8, <1>9, <1>10, <1>11 DEF Core, Requests, Limits

LEMMA ReapCore ==
  ASSUME Core, NEW g \in Gens, Reap(g)
  PROVE  Core'
<1>1. /\ Processes' /\ ResidentsBounded' /\ AwaitsDying'
      /\ proc' \in [Gens -> Proc] /\ residents' \in [Versions -> 0..MaxGen]
      /\ \A h \in Gens : proc'[h].astray => proc[h].astray
  BY Reaped DEF Core, Requests, Limits
<1>2. UNCHANGED <<op, generation>>
  BY DEF Reap
<1>3. /\ permit' \in Permits /\ permit'.by = permit.by
      /\ permit.awaits # g => permit'.awaits = permit.awaits
  <2>1. [permit EXCEPT !.awaits = 0] \in Permits /\ [permit EXCEPT !.awaits = 0].by = permit.by
    BY SupervisorAssumption DEF Core, Tables, Permits
  <2> QED BY <2>1 DEF Reap, Core, Tables
<1>4. OpShape' /\ PermitTied' /\ Tables'
  BY <1>1, <1>2, <1>3 DEF Core, Requests, OpShape, PermitTied, Tables
<1>5. Budgeted'
  BY <1>2, BudgetKept DEF Core, Limits
<1>6. CallsTied'
  <2>1. proc[g].calls = {}
    BY DEF Reap, Core, Processes, ProcShape
  <2>2. [Blank EXCEPT !.state = "reaped"].calls = {}
    BY DEF Blank
  <2>3. proc'[g].calls = {} /\ \A h \in Gens \ {g} : proc'[h] = proc[h]
    BY <2>2 DEF Reap, Core, Tables
  <2> QED BY <1>2, <2>1, <2>3 DEF Core, Requests, CallsTied
<1>7. RoomMade'
  <2> SUFFICES ASSUME NEW o \in Ops, op[o].kind = "bind", op[o].pc = "evicting"
               PROVE  residents'[op[o].version] \in {0, permit'.awaits}
    BY <1>2 DEF RoomMade
  <2> DEFINE v == op[o].version
  <2>1. v \in Versions /\ residents[v] \in {0, permit.awaits}
    BY DEF Core, Requests, OpShape, Shape, RoomMade
  <2>2. residents[v] = g => v = proc[g].version
    BY <2>1, SupervisorAssumption DEF Core, Processes, Registration, Gens
  <2>3. residents'[v] = IF v = proc[g].version THEN 0 ELSE residents[v]
    BY <2>1 DEF Reap, Core, Tables
  <2> QED BY <1>3, <2>1, <2>2, <2>3
<1>8. AstrayTied'
  BY <1>1, <1>2, AstrayKept DEF Core, Requests
<1> QED BY <1>1, <1>4, <1>5, <1>6, <1>7, <1>8 DEF Core, Requests, Limits

(* A live process changes while the permit stays where it is, and the      *)
(* requests that change neither hold it nor run a call.                    *)
LEMMA ProcessGoesOn ==
  ASSUME Core, NEW g \in Gens, NEW p \in Proc, Unreaped(g), proc' = [proc EXCEPT ![g] = p],
         UNCHANGED <<generation, residents, permit>>,
         p.version = proc[g].version, p.state \in {"loading", "ready", "dying"},
         p.calls # {} => p.state = "ready",
         proc[g].state = "dying" => p.state = "dying",
         op' \in [Ops -> Op],
         \A i \in Ops :
           \/ op'[i] = op[i]
           \/ /\ op[i].pc \notin {"evicting", "stopping"}
              /\ op'[i].pc \notin {"evicting", "stopping"}
              /\ Binding(op'[i]) => Binding(op[i])
              /\ Shape(op'[i]),
         CallsTied', AstrayTied'
  PROVE  Core'
<1>1. Processes' /\ ResidentsBounded' /\ proc' \in [Gens -> Proc]
  BY ProcessChanges DEF Core, Limits
<1>2. OpShape' /\ PermitTied' /\ RoomMade' /\ Budgeted'
  BY RequestsGoOn DEF Core, Tables
<1>3. AwaitsDying'
  <2>1. permit.awaits \in 0..MaxGen
    BY DEF Core, Tables, Permits
  <2>2. proc'[g] = p /\ \A h \in Gens \ {g} : proc'[h] = proc[h]
    BY DEF Core, Tables
  <2> QED BY <2>1, <2>2, SupervisorAssumption DEF Core, Requests, AwaitsDying, Gens
<1>4. Tables'
  BY <1>1 DEF Core, Tables
<1> QED BY <1>1, <1>2, <1>3, <1>4 DEF Core, Requests, Limits

LEMMA LoadsCore ==
  ASSUME Core, NEW g \in Gens, Loads(g)
  PROVE  Core'
<1> DEFINE p == [proc[g] EXCEPT !.state = "ready"]
<1>1. proc[g] \in Proc /\ proc[g].state = "loading" /\ proc[g].calls = {}
  BY DEF Loads, Core, Tables, Processes, ProcShape
<1>2. /\ p \in Proc /\ p.state = "ready" /\ p.calls = {} /\ p.version = proc[g].version
      /\ p.astray = proc[g].astray
      /\ proc' = [proc EXCEPT ![g] = p]
  BY <1>1 DEF Loads, Proc
<1> HIDE DEF p
<1>3. proc'[g] = p /\ \A h \in Gens \ {g} : proc'[h] = proc[h]
  BY <1>2 DEF Core, Tables
<1>4. /\ op' \in [Ops -> Op]
      /\ \A i \in Ops : op'[i] = IF op[i].pc = "loading" /\ op[i].gen = g
                                 THEN Idle ELSE op[i]
  BY Made DEF Loads, Core, Tables
<1>5. \A i \in Ops :
        \/ op'[i] = op[i]
        \/ /\ op[i].pc \notin {"evicting", "stopping"}
           /\ op'[i].pc \notin {"evicting", "stopping"}
           /\ Binding(op'[i]) => Binding(op[i])
           /\ Shape(op'[i])
  BY <1>4, Made DEF Binding
<1>6. CallsTied'
  <2>1. \A i \in Ops, h \in Gens : i \in proc'[h].calls <=> i \in proc[h].calls
    BY <1>1, <1>2, <1>3
  <2>2. \A i \in Ops : op'[i] = op[i] \/ (~InProcess(op'[i]) /\ ~InProcess(op[i]))
    BY <1>4, Made DEF InProcess
  <2> QED BY <2>1, <2>2 DEF Core, Requests, CallsTied
<1>7. AstrayTied'
  BY <1>2, <1>3, <1>4, AstrayKept DEF Core, Requests
<1>8. Unreaped(g) /\ UNCHANGED <<generation, residents, permit>>
  BY <1>1 DEF Unreaped, Loads
<1> QED BY <1>1, <1>2, <1>4, <1>5, <1>6, <1>7, <1>8, ProcessGoesOn

LEMMA HoldsCore ==
  ASSUME Core, NEW o \in Ops, Holds(o)
  PROVE  Core'
<1> DEFINE g == residents[op[o].version]
<1>1. g \in Gens /\ proc[g] \in Proc /\ Alive(g) /\ op[o] \in Op
  BY SupervisorAssumption DEF Holds, Held, Core, Tables, Gens
<1>2. PICK s \in BOOLEAN : proc' = [proc EXCEPT ![g].speculative = s]
  BY DEF Holds
<1> DEFINE p == [proc[g] EXCEPT !.speculative = s]
           r == IF proc[g].state = "ready" THEN Idle
                ELSE [op[o] EXCEPT !.pc = "loading", !.gen = g]
<1>3. /\ p \in Proc /\ p.state = proc[g].state /\ p.calls = proc[g].calls
      /\ p.version = proc[g].version /\ p.astray = proc[g].astray
      /\ proc' = [proc EXCEPT ![g] = p]
  BY <1>1, <1>2 DEF Proc
<1>4. /\ r \in Op /\ r.pc \in {"idle", "loading"} /\ Shape(r)
      /\ op' = [op EXCEPT ![o] = r]
  <2>1. g \in 0..MaxGen
    BY <1>1, SupervisorAssumption DEF Gens
  <2>2. /\ [op[o] EXCEPT !.pc = "loading", !.gen = g] \in Op
        /\ [op[o] EXCEPT !.pc = "loading", !.gen = g].pc = "loading"
        /\ [op[o] EXCEPT !.pc = "loading", !.gen = g].kind = "bind"
    BY <1>1, <2>1 DEF Op, Holds
  <2> QED BY <2>2, Made DEF Holds, Shape, InProcess
<1> HIDE DEF g, p, r
<1>5. op' \in [Ops -> Op] /\ op'[o] = r /\ \A i \in Ops \ {o} : op'[i] = op[i]
  BY <1>4 DEF Core, Tables
<1>6. op[o].pc = "queued" /\ UNCHANGED <<generation, residents, permit>>
  BY DEF Holds
<1>7. CallsTied' /\ AstrayTied'
  <2>1. proc'[g] = p /\ \A h \in Gens \ {g} : proc'[h] = proc[h]
    BY <1>1, <1>3 DEF Core, Tables
  <2>2. \A h \in Gens : proc'[h].calls = proc[h].calls /\ proc'[h].astray = proc[h].astray
    BY <1>3, <2>1
  <2>3. \A i \in Ops : op'[i] = op[i] \/ (~InProcess(op'[i]) /\ ~InProcess(op[i]))
    BY <1>4, <1>5, <1>6 DEF InProcess
  <2>4. CallsTied'
    BY <2>2, <2>3 DEF Core, Requests, CallsTied
  <2>5. AstrayTied'
    BY <2>2, <2>3, AstrayKept DEF Core, Requests, InProcess
  <2> QED BY <2>4, <2>5
<1>8. /\ Unreaped(g) /\ p.state \in {"loading", "ready"} /\ proc[g].state # "dying"
      /\ (p.calls # {} => p.state = "ready")
  BY <1>1, <1>3 DEF Unreaped, Alive, Core, Processes, ProcShape
<1>9. \A i \in Ops :
        \/ op'[i] = op[i]
        \/ /\ op[i].pc \notin {"evicting", "stopping"}
           /\ op'[i].pc \notin {"evicting", "stopping"}
           /\ Binding(op'[i]) => Binding(op[i])
           /\ Shape(op'[i])
  BY <1>4, <1>5, <1>6 DEF Binding
<1> QED BY <1>1, <1>3, <1>5, <1>6, <1>7, <1>8, <1>9, ProcessGoesOn

(* What a call's step in its process does to processes and requests.       *)
LEMMA CallStepCore ==
  ASSUME Core, NEW o \in Ops, op[o].pc = "running", NEW p \in Proc, NEW r \in Op,
         proc' = [proc EXCEPT ![op[o].gen] = p], op' = [op EXCEPT ![o] = r],
         UNCHANGED <<generation, residents, permit>>,
         p.state = "ready", p.version = proc[op[o].gen].version,
         \/ r.pc = "lost" /\ r.gen = op[o].gen /\ p.calls = proc[op[o].gen].calls
         \/ /\ r.pc = "idle" /\ p.calls = proc[op[o].gen].calls \ {o}
            /\ p.astray => proc[op[o].gen].astray,
         Shape(r)
  PROVE  Core'
<1> DEFINE g == op[o].gen
<1>1. op[o] \in Op /\ g \in 0..MaxGen /\ g # 0 /\ InProcess(op[o])
  BY DEF Core, Tables, Op, Requests, OpShape, Shape, InProcess
<1>2. g \in Gens /\ o \in proc[g].calls
  BY <1>1, SupervisorAssumption DEF Gens, Core, Requests, CallsTied
<1>3. proc[g].state = "ready" /\ Unreaped(g)
  BY <1>2 DEF Core, Processes, ProcShape, Unreaped
<1>4. op' \in [Ops -> Op] /\ op'[o] = r /\ \A i \in Ops \ {o} : op'[i] = op[i]
  BY DEF Core, Tables
<1>5. proc'[g] = p /\ \A h \in Gens \ {g} : proc'[h] = proc[h]
  BY <1>2 DEF Core, Tables
<1>6. CallsTied'
  BY <1>1, <1>2, <1>4, <1>5 DEF Core, Requests, CallsTied, InProcess
<1>7. AstrayTied'
  <2>1. CASE r.pc = "lost"
    BY <1>1, <1>4, <1>5, <2>1 DEF Core, Requests, AstrayTied
  <2>2. CASE r.pc = "idle"
    <3>1. \A i \in Ops : op[i].pc = "lost" => op'[i] = op[i]
      BY <1>4
    <3>2. \A h \in Gens : proc'[h].astray => proc[h].astray
      BY <1>5, <2>2
    <3> QED BY <3>1, <3>2, AstrayKept DEF Core, Requests
  <2> QED BY <2>1, <2>2
<1>8. \A i \in Ops :
        \/ op'[i] = op[i]
        \/ /\ op[i].pc \notin {"evicting", "stopping"}
           /\ op'[i].pc \notin {"evicting", "stopping"}
           /\ Binding(op'[i]) => Binding(op[i])
           /\ Shape(op'[i])
  BY <1>4 DEF Binding
<1> HIDE DEF g
<1> QED BY <1>2, <1>3, <1>4, <1>6, <1>7, <1>8, ProcessGoesOn DEF g

LEMMA ReturnsCore ==
  ASSUME Core, NEW o \in Ops, Returns(o) \/ Loses(o)
  PROVE  Core'
<1> DEFINE g == op[o].gen
<1>1. op[o].pc = "running" /\ op[o] \in Op /\ g \in 0..MaxGen /\ g # 0
  BY DEF Returns, Loses, Core, Tables, Op, Requests, OpShape, Shape, InProcess
<1>2. g \in Gens /\ proc[g] \in Proc /\ o \in proc[g].calls
  BY <1>1, SupervisorAssumption DEF Gens, Core, Tables, Requests, CallsTied, InProcess
<1>3. proc[g].state = "ready" /\ op[o].kind = "invoke"
  BY <1>1, <1>2 DEF Core, Processes, ProcShape, Requests, OpShape, Shape, InProcess
<1>4. CASE Returns(o)
  <2> DEFINE p == [proc[g] EXCEPT !.calls = @ \ {o}]
  <2>1. /\ p \in Proc /\ p.state = "ready" /\ p.version = proc[g].version
        /\ p.calls = proc[g].calls \ {o} /\ p.astray = proc[g].astray
        /\ proc' = [proc EXCEPT ![g] = p]
    BY <1>2, <1>3, <1>4 DEF Proc, Returns
  <2>2. PICK c \in {"none", "reading", "forwarded"} : op' = [op EXCEPT ![o] = Over(c)]
    BY <1>4 DEF Returns
  <2>3. Over(c) \in Op /\ Over(c).pc = "idle" /\ Shape(Over(c))
    BY OverMade
  <2> HIDE DEF p
  <2> QED BY <1>1, <1>4, <2>1, <2>2, <2>3, CallStepCore DEF Returns
<1>5. CASE Loses(o)
  <2> DEFINE p == [proc[g] EXCEPT !.astray = TRUE]
             r == [op[o] EXCEPT !.pc = "lost"]
  <2>1. /\ p \in Proc /\ p.state = "ready" /\ p.version = proc[g].version
        /\ p.calls = proc[g].calls /\ proc' = [proc EXCEPT ![g] = p]
    BY <1>2, <1>3, <1>5 DEF Proc, Loses
  <2>2. /\ r \in Op /\ r.pc = "lost" /\ r.gen = g /\ r.kind = "invoke"
        /\ op' = [op EXCEPT ![o] = r]
    BY <1>1, <1>3, <1>5 DEF Op, Loses
  <2> HIDE DEF p, r
  <2>3. Shape(r)
    BY <1>1, <2>2 DEF Shape, InProcess
  <2> QED BY <1>1, <1>5, <2>1, <2>2, <2>3, CallStepCore DEF Loses
<1> QED BY <1>4, <1>5

LEMMA CallsBackCore ==
  ASSUME Core, NEW o \in Ops, CallsBack(o)
  PROVE  Core'
<1>1. PICK c \in {"none", "reading", "forwarded", "answered"} :
        op' = [op EXCEPT ![o].callback = c]
  BY DEF CallsBack
<1> DEFINE r == [op[o] EXCEPT !.callback = c]
<1>2. /\ r \in Op /\ r.pc = op[o].pc /\ r.kind = op[o].kind /\ r.version = op[o].version
      /\ r.gen = op[o].gen /\ op' = [op EXCEPT ![o] = r]
  BY <1>1 DEF Core, Tables, Op
<1> HIDE DEF r
<1>3. /\ op' \in [Ops -> Op] /\ \A i \in Ops : op'[i].pc = op[i].pc
      /\ \A i \in Ops : op'[i].kind = op[i].kind /\ op'[i].version = op[i].version
                        /\ op'[i].gen = op[i].gen
  BY <1>2 DEF Core, Tables
<1>4. Settled /\ UNCHANGED permit
  BY DEF CallsBack
<1>5. Processes' /\ ResidentsBounded'
  BY <1>4, ProcessesKept DEF Core, Limits
<1>6. Budgeted'
  BY <1>3, <1>4, BudgetKept DEF Binding, Settled, Core, Limits
<1>7. Requests' /\ Tables'
  BY <1>3, <1>4 DEF Settled, Core, Requests, OpShape, Shape, InProcess, CallsTied, AstrayTied,
     PermitTied, AwaitsDying, RoomMade, Tables
<1> QED BY <1>5, <1>6, <1>7 DEF Core, Limits

(* The permit's holder lets it go and runs on, as a load or as a call.     *)
LEMMA Released ==
  ASSUME Core, NEW o \in Ops, permit.by = o, permit' = Free,
         op' \in [Ops -> Op], op'[o].pc \in {"loading", "running"}, Shape(op'[o]),
         \A i \in Ops \ {o} : op'[i] = op[i]
  PROVE  /\ OpShape' /\ PermitTied' /\ AwaitsDying' /\ RoomMade' /\ permit' \in Permits
         /\ \A i \in Ops : op'[i].pc \notin {"evicting", "stopping"}
<1>1. \A i \in Ops \ {o} : op[i].pc \notin {"evicting", "stopping"}
  BY DEF Core, Requests, PermitTied
<1>2. permit'.by \notin Ops /\ permit'.awaits = 0 /\ permit' \in Permits
  BY Made, SupervisorAssumption
<1> QED BY <1>1, <1>2 DEF OpShape, PermitTied, AwaitsDying, RoomMade, Core, Requests

LEMMA BindStartsCore ==
  ASSUME Core, limit \in 1..MaxProcesses, NEW o \in Ops, BindStarts(o)
  PROVE  Core'
<1>1. /\ permit.by = o /\ op[o].pc = "evicting" /\ generation + 1 \in Gens
      /\ generation' = generation + 1
  BY StarterAlone DEF Core, Requests, Limits
<1>2. /\ Processes' /\ Limits' /\ generation' \in 0..MaxGen
      /\ proc' \in [Gens -> Proc] /\ residents' \in [Versions -> 0..MaxGen]
      /\ proc'[generation'].calls = {} /\ ~proc'[generation'].astray
      /\ \A h \in Gens \ {generation'} : proc'[h] = proc[h]
  BY Started DEF Core, Requests
<1> DEFINE r == [op[o] EXCEPT !.pc = "loading", !.gen = generation']
<1>3. r \in Op /\ r.pc = "loading" /\ Shape(r)
  <2>1. op[o] \in Op /\ op[o].kind = "bind"
    BY DEF Core, Tables, BindStarts
  <2>2. r \in Op /\ r.pc = "loading" /\ r.kind = "bind"
    BY <1>2, <2>1 DEF Op
  <2> QED BY <2>2 DEF Shape, InProcess
<1>4. op' \in [Ops -> Op] /\ op'[o] = r /\ \A i \in Ops \ {o} : op'[i] = op[i]
  <2>1. op'[o] = r /\ \A i \in Ops \ {o} : op'[i] = op[i]
    BY DEF BindStarts, Core, Tables
  <2>2. op' = [i \in Ops |-> op'[i]]
    BY DEF BindStarts, Core, Tables
  <2>3. \A i \in Ops : op'[i] \in Op
    BY <1>3, <2>1 DEF Core, Tables
  <2> QED BY <2>1, <2>2, <2>3
<1> HIDE DEF r
<1>5. permit' = Free
  BY DEF BindStarts
<1>6. OpShape' /\ PermitTied' /\ AwaitsDying' /\ RoomMade' /\ permit' \in Permits
  BY <1>1, <1>3, <1>4, <1>5, Released
<1>7. CallsTied'
  <2>1. \A i \in Ops : ~(InProcess(op[i]) /\ op[i].gen = generation')
    <3>1. proc[generation'].calls = {}
      BY <1>1, SupervisorAssumption DEF Core, Tables, Processes, ProcShape, Gens
    <3> QED BY <1>1, <3>1 DEF Core, Requests, CallsTied
  <2> QED BY <1>1, <1>2, <1>3, <1>4, <2>1 DEF Core, Requests, CallsTied, InProcess
<1>8. AstrayTied'
  <2>1. \A i \in Ops : op[i].pc = "lost" => op'[i] = op[i]
    BY <1>1, <1>4
  <2>2. \A h \in Gens : proc'[h].astray => proc[h].astray
    BY <1>2
  <2> QED BY <2>1, <2>2, AstrayKept DEF Core, Requests
<1>9. Tables'
  BY <1>2, <1>4, <1>6 DEF Tables
<1> QED BY <1>2, <1>6, <1>7, <1>8, <1>9 DEF Core, Requests

LEMMA DispatchCore ==
  ASSUME Core, NEW o \in Ops, Dispatch(o)
  PROVE  Core'
<1> DEFINE g == op[o].gen
<1>1. permit.by = o /\ op[o].pc = "evicting" /\ op[o] \in Op /\ op[o].kind = "invoke"
  BY DEF Dispatch, Evicting, Ready, Core, Tables
<1>2. g \in Gens /\ proc[g] \in Proc /\ proc[g].state = "ready"
  <2>1. g \in 0..MaxGen /\ g # 0
    BY <1>1 DEF Op, Core, Requests, OpShape, Shape
  <2>2. g \in Gens
    BY <2>1, SupervisorAssumption DEF Gens
  <2> QED BY <2>2 DEF Dispatch, Selects, Core, Tables
<1> DEFINE p == [proc[g] EXCEPT !.calls = @ \cup {o}, !.speculative = FALSE]
           r == [op[o] EXCEPT !.pc = "running"]
<1>3. /\ p \in Proc /\ p.state = "ready" /\ p.version = proc[g].version
      /\ p.calls = proc[g].calls \cup {o} /\ p.astray = proc[g].astray
  BY <1>2 DEF Proc
<1>4. proc' = [proc EXCEPT ![g] = p]
  BY DEF Dispatch
<1>5. r \in Op /\ r.pc = "running" /\ r.gen = g /\ Shape(r) /\ ~Binding(r)
  BY <1>1, <1>2, SupervisorAssumption DEF Op, Shape, InProcess, Gens, Binding
<1>6. op' = [op EXCEPT ![o] = r] /\ permit' = Free /\ UNCHANGED <<generation, residents>>
  BY DEF Dispatch
<1> HIDE DEF g, p, r
<1>7. Unreaped(g)
  BY <1>2 DEF Unreaped
<1>8. Processes' /\ ResidentsBounded' /\ proc' \in [Gens -> Proc]
  BY <1>2, <1>3, <1>4, <1>6, <1>7, ProcessChanges DEF Core, Limits
<1>9. op' \in [Ops -> Op] /\ op'[o] = r /\ \A i \in Ops \ {o} : op'[i] = op[i]
  BY <1>5, <1>6 DEF Core, Tables
<1>10. OpShape' /\ PermitTied' /\ AwaitsDying' /\ RoomMade' /\ permit' \in Permits
  BY <1>1, <1>5, <1>6, <1>9, Released
<1>11. Budgeted'
  <2>1. \A i \in Ops : Binding(op'[i]) => Binding(op[i])
    BY <1>5, <1>9
  <2> QED BY <1>6, <2>1, BudgetKept DEF Core, Limits
<1>12. CallsTied'
  <2>1. proc'[g] = p /\ \A h \in Gens \ {g} : proc'[h] = proc[h]
    BY <1>2, <1>4 DEF Core, Tables
  <2>2. ~InProcess(op[o]) /\ InProcess(r)
    BY <1>1, <1>5 DEF InProcess
  <2> QED BY <1>3, <1>5, <1>9, <2>1, <2>2 DEF Core, Requests, CallsTied
<1>13. AstrayTied'
  <2>1. \A i \in Ops : op[i].pc = "lost" => op'[i] = op[i]
    BY <1>1, <1>9
  <2>2. \A h \in Gens : proc'[h].astray => proc[h].astray
    BY <1>2, <1>3, <1>4 DEF Core, Tables
  <2> QED BY <2>1, <2>2, AstrayKept DEF Core, Requests
<1>14. Tables'
  BY <1>6, <1>8, <1>9, <1>10 DEF Core, Tables
<1> QED BY <1>8, <1>10, <1>11, <1>12, <1>13, <1>14 DEF Core, Requests, Limits

-----------------------------------------------------------------------------
(* Every step is of a kind. *)

LEMMA RequestKind ==
  ASSUME Core, NEW o \in Ops, RequestBind(o) \/ RequestInvoke(o) \/ RequestStop(o),
         epoch \in 0..MaxEpoch
  PROVE  Asks(o)
<1>1. generation \in 0..MaxGen /\ proc \in [Gens -> Proc]
  BY DEF Core, Tables
<1>2. CASE RequestBind(o)
  <2>1. PICK v \in Versions \cup {None}, e \in 1..MaxEpoch, s \in BOOLEAN :
          /\ v = None => ~s
          /\ op' = [op EXCEPT ![o] = [Idle EXCEPT !.kind = "bind", !.pc = "queued",
                   !.version = v, !.epoch = e, !.speculative = s]]
    BY <1>2 DEF RequestBind
  <2> DEFINE r == [Idle EXCEPT !.kind = "bind", !.pc = "queued",
                   !.version = v, !.epoch = e, !.speculative = s]
  <2>2. r \in Op /\ r.pc = "queued" /\ r.callback = "none" /\ r.kind = "bind"
    <3>1. e \in 0..MaxEpoch
      BY SupervisorAssumption
    <3> QED BY <3>1, Made DEF Op
  <2>3. op' = [op EXCEPT ![o] = r]
    BY <2>1
  <2> HIDE DEF r
  <2> QED BY <1>2, <2>2, <2>3 DEF RequestBind, Asks, Settled
<1>3. CASE RequestInvoke(o)
  <2>1. PICK g \in 1..generation, e \in 1..epoch :
          /\ proc[g].version # None
          /\ op' = [op EXCEPT ![o] = [Idle EXCEPT !.kind = "invoke", !.pc = "queued",
                      !.version = proc[g].version, !.gen = g, !.epoch = e]]
    BY <1>3 DEF RequestInvoke
  <2> DEFINE r == [Idle EXCEPT !.kind = "invoke", !.pc = "queued",
                      !.version = proc[g].version, !.gen = g, !.epoch = e]
  <2>2. g \in Gens /\ e \in 0..MaxEpoch /\ g # 0 /\ g \in 0..MaxGen
    BY <1>1, SupervisorAssumption DEF Gens
  <2>3. proc[g].version \in Versions \cup {None}
    BY <1>1, <2>2 DEF Proc
  <2>4. /\ r \in Op /\ r.pc = "queued" /\ r.callback = "none"
        /\ r.kind = "invoke" /\ r.gen # 0
    BY <2>2, <2>3, Made DEF Op
  <2>5. op' = [op EXCEPT ![o] = r]
    BY <2>1
  <2> HIDE DEF r
  <2> QED BY <1>3, <2>4, <2>5 DEF RequestInvoke, Asks, Settled
<1>4. CASE RequestStop(o)
  <2> DEFINE r == [Idle EXCEPT !.kind = "stop", !.pc = "queued", !.epoch = epoch]
  <2>1. r \in Op /\ r.pc = "queued" /\ r.callback = "none" /\ r.kind = "stop"
    BY Made DEF Op
  <2>2. op' = [op EXCEPT ![o] = r]
    BY <1>4 DEF RequestStop
  <2> HIDE DEF r
  <2> QED BY <1>4, <2>1, <2>2 DEF RequestStop, Asks, Settled
<1> QED BY <1>2, <1>3, <1>4

LEMMA LeavingKind ==
  ASSUME Core, NEW o \in Ops,
         \/ CallerLeaves(o) \/ BindRefused(o) \/ EndsBusy(o) \/ InvokeRefused(o)
         \/ StopRefused(o) \/ StopDone(o)
  PROVE  Drops(o)
<1>1. None \notin Ops /\ Free.by = None
  BY SupervisorAssumption, Made
<1>2. CASE CallerLeaves(o)
  BY <1>2 DEF CallerLeaves, Ready, Answered, Drops, InProcess, Settled
<1>3. CASE BindRefused(o) \/ StopRefused(o) \/ (Queued(o, "invoke") /\ InvokeRefused(o))
  BY <1>1, <1>3, Made DEF BindRefused, StopRefused, InvokeRefused, Queued, Answered, Drops,
     InProcess, Settled, Evicting, Ready
<1>4. CASE EndsBusy(o) \/ StopDone(o) \/ (Evicting(o) /\ InvokeRefused(o))
  BY <1>1, <1>4 DEF EndsBusy, StopDone, InvokeRefused, Queued, Answered, Drops, InProcess,
     Settled, Evicting, Ready, Free
<1> QED BY <1>2, <1>3, <1>4 DEF InvokeRefused

LEMMA GrantedKind ==
  ASSUME Core, NEW o \in Ops, BindAdmitted(o) \/ InvokeAdmitted(o) \/ StopAdmitted(o)
  PROVE  \/ Drops(o) \/ Holds(o)
         \/ \E pc \in {"evicting", "stopping"}, g \in 0..MaxGen : Takes(o, pc, g)
<1>1. 0 \in 0..MaxGen /\ None \notin Ops /\ op[o] \in Op
  BY SupervisorAssumption DEF Core, Tables
<1>2. CASE InvokeAdmitted(o)
  <2>1. Takes(o, "evicting", 0)
    BY <1>1, <1>2 DEF InvokeAdmitted, Queued, Takes, Settled
  <2> QED BY <1>1, <2>1
<1>3. CASE StopAdmitted(o)
  <2>1. Takes(o, "stopping", 0)
    BY <1>1, <1>3 DEF StopAdmitted, Queued, Takes, Settled
  <2> QED BY <1>1, <2>1
<1>4. CASE BindAdmitted(o)
  <2> DEFINE v == op[o].version
             g == residents[v]
  <2>1. /\ op[o].kind = "bind" /\ op[o].pc = "queued" /\ permit = Free
        /\ UNCHANGED <<generation, residents>> /\ v \in Versions \cup {None}
    BY <1>1, <1>4 DEF BindAdmitted, Queued, Op
  <2>2. CASE v = None /\ Answered(o) /\ UNCHANGED <<permit, proc>>
    BY <1>1, <2>1, <2>2, Made DEF Drops, InProcess, Answered, Settled
  <2>3. CASE /\ Held(v)
             /\ proc' = [proc EXCEPT ![g].speculative = @ /\ op[o].speculative]
             /\ op' = [op EXCEPT ![o] = IF proc[g].state = "ready" THEN Idle
                                        ELSE [@ EXCEPT !.pc = "loading", !.gen = g]]
             /\ UNCHANGED permit
    <3>1. v \in Versions
      BY <2>1, <2>3 DEF Held
    <3>2. (proc[g].speculative /\ op[o].speculative) \in BOOLEAN
      OBVIOUS
    <3> QED BY <2>1, <2>3, <3>1, <3>2 DEF Holds
  <2>4. CASE /\ v # None /\ ~Held(v)
             /\ permit' = [by |-> o, awaits |-> Awaits(v)]
             /\ op' = [op EXCEPT ![o].pc = "evicting"]
             /\ UNCHANGED proc
    <3>1. v \in Versions /\ g \in 0..MaxGen
      BY <2>1, <2>4 DEF Core, Tables
    <3>2. g # 0 => proc[g].state = "dying"
      BY <2>4, <3>1 DEF Core, Processes, Registration, Unreaped, Held, Alive
    <3>3. Takes(o, "evicting", g)
      BY <2>1, <2>4, <3>1, <3>2 DEF Takes, Settled, Awaits
    <3> QED BY <3>1, <3>3
  <2> QED BY <1>4, <2>2, <2>3, <2>4 DEF BindAdmitted
<1> QED BY <1>2, <1>3, <1>4

LEMMA RegisteredGens ==
  ASSUME Core, NEW g \in Registered
  PROVE  g \in Gens /\ (~Alive(g) => proc[g].state = "dying")
<1>1. PICK v \in Versions : g = residents[v] /\ g # 0
  BY DEF Registered
<1> QED BY <1>1, SupervisorAssumption DEF Core, Tables, Gens, Processes, Registration, Unreaped,
        Alive

LEMMA EndingKind ==
  ASSUME Core,
         \/ \E o \in Ops : StopNext(o)
         \/ \E a \in Ops \cup {Watchdog} : Evict(a)
         \/ \E g \in Gens : \/ StopProcess(g) \/ LoadFails(g) \/ KillFailed(g)
                            \/ KillLate(g) \/ KillLoad(g) \/ KillIdle(g)
  PROVE  \E g \in Gens : Ends(g) \/ Joins(g)
<1>1. ASSUME NEW o \in Ops, StopNext(o)
      PROVE  \E g \in Gens : Ends(g) \/ Joins(g)
  <2>1. PICK g \in Registered : /\ permit' = [permit EXCEPT !.awaits = g]
                                /\ IF Alive(g) THEN Fenced(g) ELSE UNCHANGED <<proc, op>>
    BY <1>1 DEF StopNext
  <2>2. permit.awaits = 0 /\ UNCHANGED <<generation, residents>>
    BY <1>1 DEF StopNext, Ready
  <2> QED BY <2>1, <2>2, RegisteredGens DEF Ends, Joins, Settled
<1>2. ASSUME NEW a \in Ops \cup {Watchdog}, Evict(a)
      PROVE  \E g \in Gens : Ends(g) \/ Joins(g)
  <2>1. PICK g \in Victims(a) : Fenced(g) /\ permit' = [permit EXCEPT !.awaits = g]
    BY <1>2 DEF Evict
  <2>2. g \in Registered /\ Alive(g)
    BY <2>1 DEF Victims, Alive
  <2>3. permit.awaits = 0 /\ UNCHANGED <<generation, residents>>
    BY <1>2 DEF Evict, Evicting, Ready
  <2> QED BY <2>1, <2>2, <2>3, RegisteredGens DEF Ends
<1>3. ASSUME NEW g \in Gens,
             \/ StopProcess(g) \/ LoadFails(g) \/ KillFailed(g) \/ KillLate(g)
             \/ KillLoad(g) \/ KillIdle(g)
      PROVE  \E h \in Gens : Ends(h) \/ Joins(h)
  <2>1. Alive(g) /\ Fenced(g) /\ UNCHANGED <<generation, residents, permit>>
    BY <1>3 DEF StopProcess, LoadFails, KillFailed, KillLate, KillLoad, KillIdle, Kill, Alive
  <2> QED BY <2>1 DEF Ends
<1> QED BY <1>1, <1>2, <1>3

LEMMA KindOfStep ==
  ASSUME Core, epoch \in 0..MaxEpoch, [Next]_vars
  PROVE  Kinds
<1>1. CASE UNCHANGED vars
  BY <1>1 DEF vars, Kinds, Rests, Settled
<1>2. CASE WatchEnds \/ WatchAdmitted \/ WatchDone \/ StandbyFails
  BY <1>2 DEF WatchEnds, WatchAdmitted, WatchDone, StandbyFails, Evicting, Ready, Kinds, Rests,
     Settled
<1>3. ASSUME NEW a \in Ops \cup {Watchdog}, EvictStandby(a)
      PROVE  Kinds
  BY <1>3 DEF EvictStandby, Kinds, Rests, Settled
<1>4. CASE \E o \in Ops : RequestBind(o) \/ RequestInvoke(o) \/ RequestStop(o)
  BY <1>4, RequestKind DEF Kinds
<1>5. CASE \E o \in Ops : \/ CallerLeaves(o) \/ BindRefused(o) \/ EndsBusy(o)
                          \/ InvokeRefused(o) \/ StopRefused(o) \/ StopDone(o)
  BY <1>5, LeavingKind DEF Kinds
<1>6. CASE \E o \in Ops : BindAdmitted(o) \/ InvokeAdmitted(o) \/ StopAdmitted(o)
  BY <1>6, GrantedKind DEF Kinds
<1>7. CASE \/ \E o \in Ops : StopNext(o)
           \/ \E a \in Ops \cup {Watchdog} : Evict(a)
           \/ \E g \in Gens : \/ StopProcess(g) \/ LoadFails(g) \/ KillFailed(g)
                              \/ KillLate(g) \/ KillLoad(g) \/ KillIdle(g)
  BY <1>7, EndingKind DEF Kinds
<1>8. ASSUME NEW o \in Ops, CallEnds(o) \/ AnswerLost(o)
      PROVE  Returns(o) \/ Loses(o)
  <2>1. CASE AnswerLost(o)
    BY <2>1 DEF AnswerLost, Loses
  <2>2. CASE CallEnds(o)
    <3> DEFINE left == IF op[o].callback = "answered" THEN "none" ELSE op[o].callback
    <3>1. left \in {"none", "reading", "forwarded"} /\ (left = "none" \/ left = op[o].callback)
      BY DEF Core, Tables, Op
    <3>2. op' = [op EXCEPT ![o] = Over(left)]
      BY <2>2 DEF CallEnds, Over
    <3> HIDE DEF left
    <3> QED BY <2>2, <3>1, <3>2 DEF CallEnds, Returns
  <2> QED BY <1>8, <2>1, <2>2
<1>9. ASSUME NEW o \in Ops, CallbackAsked(o) \/ CallbackForwarded(o) \/ CallbackReturns(o)
      PROVE  CallsBack(o)
  <2>1. CASE CallbackForwarded(o)
    <3> DEFINE c == IF Live(o) THEN "forwarded" ELSE "none"
    <3>1. c \in {"none", "forwarded"} /\ (c = "forwarded" => op[o].epoch = epoch)
      BY DEF Live
    <3>2. op' = [op EXCEPT ![o].callback = c]
      BY <2>1 DEF CallbackForwarded
    <3> HIDE DEF c
    <3> QED BY <2>1, <3>1, <3>2 DEF CallbackForwarded, CallsBack, Settled
  <2>2. CASE CallbackReturns(o)
    <3>1. PICK left \in {"answered", "none"} :
            (left = "answered" => Live(o)) /\ op' = [op EXCEPT ![o].callback = left]
      BY <2>2 DEF CallbackReturns
    <3> QED BY <2>2, <3>1 DEF CallbackReturns, Live, CallsBack, Settled
  <2>3. CASE CallbackAsked(o)
    BY <2>3 DEF CallbackAsked, CallsBack, Settled
  <2> QED BY <1>9, <2>1, <2>2, <2>3
<1>10. CASE \/ \E g \in Gens : Reap(g) \/ Loads(g)
            \/ \E o \in Ops : BindStarts(o) \/ Dispatch(o)
  BY <1>10 DEF Kinds
<1> QED BY <1>1, <1>2, <1>3, <1>4, <1>5, <1>6, <1>7, <1>8, <1>9, <1>10 DEF Next, Kinds

LEMMA CoreStep ==
  ASSUME Core, epoch \in 0..MaxEpoch, limit \in 1..MaxProcesses, [Next]_vars
  PROVE  Core'
  BY KindOfStep, AsksCore, DropsCore, TakesCore, EndsCore, RestsCore, ReapCore, LoadsCore,
     HoldsCore, ReturnsCore, CallsBackCore, BindStartsCore, DispatchCore
  DEF Kinds

-----------------------------------------------------------------------------
(* The flags of the task. *)

(* A call is dispatched, a callback forwarded or answered and the task     *)
(* told to stop only for the host that bound the task last.                *)
OnlyThen(i) ==
  /\ op'[i].pc = "running" => op[i].pc = "running" \/ op[i].epoch = epoch
  /\ op'[i].pc = "stopping" => op[i].pc = "stopping" \/ (op[i].epoch = epoch /\ stopped')
  /\ op'[i].callback \in {"forwarded", "answered"} =>
       op[i].callback = op'[i].callback \/ op[i].epoch = epoch

LEMMA OnlyThenStep ==
  ASSUME Core, Kinds, NEW i \in Ops
  PROVE  OnlyThen(i)
<1>1. CASE op'[i] = op[i] \/ op'[i] = Idle
  BY <1>1, Made DEF OnlyThen
<1>2. CASE \/ Rests \/ \E o \in Ops : Drops(o)
           \/ \E g \in Gens : Ends(g) \/ Joins(g) \/ Reap(g) \/ Loads(g)
  BY <1>1, <1>2 DEF Rests, Drops, Ends, Fenced, Joins, Reap, Loads, Core, Tables
<1>3. ASSUME NEW o \in Ops, Asks(o)
      PROVE  OnlyThen(i)
  BY <1>1, <1>3 DEF Asks, Core, Tables, OnlyThen
<1>4. ASSUME NEW o \in Ops, Holds(o)
      PROVE  OnlyThen(i)
  <2> DEFINE g == residents[op[o].version]
             r == [op[o] EXCEPT !.pc = "loading", !.gen = g]
  <2>1. op[o] \in Op /\ g \in 0..MaxGen
    BY <1>4 DEF Holds, Core, Tables
  <2>2. r.pc = "loading" /\ r.callback = op[o].callback
    BY <2>1 DEF Op
  <2>3. op'[i] = op[i] \/ op'[i] = Idle \/ (i = o /\ op'[i] = r)
    BY <1>4 DEF Holds, Core, Tables
  <2> HIDE DEF r
  <2> QED BY <1>1, <2>2, <2>3 DEF OnlyThen
<1>5. ASSUME NEW o \in Ops, CallsBack(o)
      PROVE  OnlyThen(i)
  BY <1>1, <1>5 DEF CallsBack, Core, Tables, Op, OnlyThen
<1>6. ASSUME NEW o \in Ops, NEW pc \in {"evicting", "stopping"}, NEW g \in 0..MaxGen,
             Takes(o, pc, g)
      PROVE  OnlyThen(i)
  <2>1. op[o] \in Op /\ op' = [op EXCEPT ![o].pc = pc]
    BY <1>6 DEF Takes, Core, Tables
  <2>2. i = o => op'[i].pc = pc /\ op'[i].callback = op[i].callback
    BY <2>1 DEF Core, Tables, Op
  <2>3. i # o => op'[i] = op[i]
    BY <2>1 DEF Core, Tables
  <2> QED BY <1>1, <1>6, <2>2, <2>3 DEF OnlyThen, Takes
<1>7. ASSUME NEW o \in Ops, BindStarts(o)
      PROVE  OnlyThen(i)
  <2> DEFINE r == [op[o] EXCEPT !.pc = "loading", !.gen = generation']
  <2>1. op[o] \in Op /\ (i = o => op'[i] = r) /\ (i # o => op'[i] = op[i])
    BY <1>7 DEF BindStarts, Core, Tables
  <2>2. r.pc = "loading" /\ r.callback = op[o].callback
    BY <2>1 DEF Op
  <2> HIDE DEF r
  <2> QED BY <1>1, <2>1, <2>2 DEF OnlyThen
<1>8. ASSUME NEW o \in Ops, Dispatch(o)
      PROVE  OnlyThen(i)
  <2>1. op[o] \in Op /\ op' = [op EXCEPT ![o].pc = "running"] /\ op[o].epoch = epoch
    BY <1>8 DEF Dispatch, Selects, Core, Tables
  <2>2. i = o => op'[i].pc = "running" /\ op'[i].callback = op[i].callback
    BY <2>1 DEF Core, Tables, Op
  <2>3. i # o => op'[i] = op[i]
    BY <2>1 DEF Core, Tables
  <2> QED BY <1>1, <2>1, <2>2, <2>3 DEF OnlyThen
<1>9. ASSUME NEW o \in Ops, Returns(o)
      PROVE  OnlyThen(i)
  <2>1. PICK c \in {"none", "reading", "forwarded"} :
          (c = "none" \/ c = op[o].callback) /\ op' = [op EXCEPT ![o] = Over(c)]
    BY <1>9 DEF Returns
  <2>2. Over(c).pc = "idle" /\ Over(c).callback = c
    BY OverMade
  <2>3. op'[i] = op[i] \/ (i = o /\ op'[i] = Over(c))
    BY <2>1 DEF Core, Tables
  <2> QED BY <1>1, <2>1, <2>2, <2>3 DEF OnlyThen
<1>10. ASSUME NEW o \in Ops, Loses(o)
       PROVE  OnlyThen(i)
  <2>1. op[o] \in Op /\ op' = [op EXCEPT ![o].pc = "lost"]
    BY <1>10 DEF Loses, Core, Tables
  <2>2. i = o => op'[i].pc = "lost" /\ op'[i].callback = op[i].callback
    BY <2>1 DEF Core, Tables, Op
  <2>3. i # o => op'[i] = op[i]
    BY <2>1 DEF Core, Tables
  <2> QED BY <1>1, <2>2, <2>3 DEF OnlyThen
<1> QED BY <1>2, <1>3, <1>4, <1>5, <1>6, <1>7, <1>8, <1>9, <1>10 DEF Kinds

(* A process starts, or a call is dispatched, with the permit only.        *)
Grows == \/ \E g \in Gens : proc'[g].state # proc[g].state /\ proc'[g].state = "loading"
         \/ \E o \in Ops : op[o].pc # "running" /\ op'[o].pc = "running"

LEMMA GrowsOnly ==
  ASSUME Core, Kinds, Grows
  PROVE  \E o \in Ops : BindStarts(o) \/ Dispatch(o)
<1> SUFFICES ASSUME ~\E o \in Ops : BindStarts(o) \/ Dispatch(o)
             PROVE  FALSE
  OBVIOUS
<1> DEFINE Calm == /\ \A g \in Gens : proc'[g].state = "loading" => proc[g].state = "loading"
                   /\ \A o \in Ops : op'[o].pc = "running" => op[o].pc = "running"
<1>1. ASSUME \A g \in Gens : proc'[g].state = "loading" => proc[g].state = "loading",
             NEW o \in Ops, NEW r, op' = [op EXCEPT ![o] = r],
             r.pc = "running" => op[o].pc = "running"
      PROVE  Calm
  BY <1>1 DEF Core, Tables
<1>2. ASSUME NEW o \in Ops, Asks(o) \/ Drops(o) \/ CallsBack(o)
      PROVE  Calm
  <2>1. UNCHANGED proc
    BY <1>2 DEF Asks, Drops, CallsBack, Settled
  <2>2. PICK r : op' = [op EXCEPT ![o] = r] /\ (r.pc = "running" => op[o].pc = "running")
    <3>1. CASE Asks(o) \/ Drops(o)
      BY <3>1, Made DEF Asks, Drops
    <3>2. CASE CallsBack(o)
      <4>1. PICK c \in {"none", "reading", "forwarded", "answered"} :
              op' = [op EXCEPT ![o].callback = c]
        BY <3>2 DEF CallsBack
      <4>2. PICK r \in Op : r = [op[o] EXCEPT !.callback = c]
        BY DEF Core, Tables, Op
      <4>3. r.pc = op[o].pc /\ op' = [op EXCEPT ![o] = r]
        BY <4>1, <4>2 DEF Core, Tables, Op
      <4> QED BY <4>3
    <3> QED BY <1>2, <3>1, <3>2
  <2> QED BY <1>1, <2>1, <2>2
<1>3. ASSUME NEW o \in Ops, NEW pc \in {"evicting", "stopping"}, NEW g \in 0..MaxGen,
             Takes(o, pc, g)
      PROVE  Calm
  <2>1. op[o] \in Op /\ op' = [op EXCEPT ![o].pc = pc] /\ UNCHANGED proc
    BY <1>3 DEF Takes, Settled, Core, Tables
  <2>2. op'[o].pc = pc /\ \A i \in Ops \ {o} : op'[i] = op[i]
    BY <2>1 DEF Core, Tables, Op
  <2> QED BY <2>1, <2>2
<1>4. ASSUME NEW o \in Ops, Holds(o)
      PROVE  Calm
  <2> DEFINE g == residents[op[o].version]
  <2>1. /\ g \in Gens /\ op[o] \in Op /\ g \in 0..MaxGen /\ proc[g] \in Proc
    BY <1>4, SupervisorAssumption DEF Holds, Held, Core, Tables, Gens
  <2>2. PICK s \in BOOLEAN : proc' = [proc EXCEPT ![g].speculative = s]
    BY <1>4 DEF Holds
  <2>3. \A h \in Gens : proc'[h].state = proc[h].state
    BY <2>1, <2>2 DEF Core, Tables, Proc
  <2>4. /\ \A i \in Ops \ {o} : op'[i] = op[i]
        /\ op'[o] = Idle \/ op'[o] = [op[o] EXCEPT !.pc = "loading", !.gen = g]
    BY <1>4 DEF Holds, Core, Tables
  <2>5. [op[o] EXCEPT !.pc = "loading", !.gen = g].pc = "loading"
    BY <2>1 DEF Op
  <2> HIDE DEF g
  <2> QED BY <2>3, <2>4, <2>5, Made
<1>5. ASSUME NEW o \in Ops, Returns(o) \/ Loses(o)
      PROVE  Calm
  <2>1. PICK p \in {[proc[op[o].gen] EXCEPT !.calls = @ \ {o}],
                    [proc[op[o].gen] EXCEPT !.astray = TRUE]} :
          proc' = [proc EXCEPT ![op[o].gen] = p]
    BY <1>5 DEF Returns, Loses
  <2>2. op[o].gen \in Gens => p.state = proc[op[o].gen].state
    BY <2>1 DEF Core, Tables, Proc
  <2>3. \A h \in Gens : proc'[h].state = proc[h].state
    BY <2>1, <2>2 DEF Core, Tables
  <2>4. op[o].pc = "running"
    BY <1>5 DEF Returns, Loses
  <2>5. \A i \in Ops \ {o} : op'[i] = op[i]
    BY <1>5 DEF Returns, Loses, Core, Tables
  <2> QED BY <2>3, <2>4, <2>5
<1>6. ASSUME NEW g \in Gens, Ends(g) \/ Joins(g) \/ Reap(g) \/ Loads(g)
      PROVE  Calm
  <2>1. \A i \in Ops : op'[i] = op[i] \/ op'[i] = Idle
    BY <1>6 DEF Ends, Fenced, Joins, Reap, Loads, Core, Tables
  <2>2. proc[g] \in Proc
    BY DEF Core, Tables
  <2>3. \A h \in Gens \ {g} : proc'[h] = proc[h]
    BY <1>6 DEF Ends, Fenced, Joins, Settled, Reap, Loads, Core, Tables
  <2>4. proc'[g].state # "loading" \/ proc'[g] = proc[g]
    <3>1. CASE Ends(g)
      <4>1. proc'[g] = [proc[g] EXCEPT !.state = "dying", !.calls = {}, !.astray = FALSE]
        BY <3>1 DEF Ends, Fenced, Core, Tables
      <4> QED BY <2>2, <4>1 DEF Proc
    <3>2. CASE Loads(g)
      <4>1. proc'[g] = [proc[g] EXCEPT !.state = "ready"]
        BY <3>2 DEF Loads, Core, Tables
      <4> QED BY <2>2, <4>1 DEF Proc
    <3>3. CASE Reap(g)
      <4>1. [Blank EXCEPT !.state = "reaped"].state = "reaped"
        BY DEF Blank
      <4> QED BY <3>3, <4>1 DEF Reap, Core, Tables
    <3>4. CASE Joins(g)
      BY <3>4 DEF Joins, Settled
    <3> QED BY <1>6, <3>1, <3>2, <3>3, <3>4
  <2> QED BY <2>1, <2>3, <2>4, Made
<1>7. ASSUME Rests
      PROVE  Calm
  BY <1>7 DEF Rests, Settled
<1>8. Calm
  <2> HIDE DEF Calm
  <2> QED BY <1>2, <1>3, <1>4, <1>5, <1>6, <1>7 DEF Kinds
<1> QED BY <1>8 DEF Grows

LEMMA FlagsStep ==
  ASSUME Flags, Core, StopHolds, [Next]_vars
  PROVE  Flags' /\ StopHolds'
<1>0. \A o \in Ops : op'[o].pc = "stopping" => op[o].pc = "stopping" \/ stopped'
  BY KindOfStep, OnlyThenStep DEF OnlyThen, Flags
<1>1. ASSUME UNCHANGED <<stopped, ended, standby, watching, residents>>, epoch' \in 0..MaxEpoch,
             limit' \in 1..MaxProcesses
      PROVE  Flags' /\ StopHolds'
  BY <1>0, <1>1 DEF Flags, StopHolds, Registered
<1>2. ASSUME UNCHANGED <<epoch, limit, stopped, ended, standby, watching, residents>>
      PROVE  Flags' /\ StopHolds'
  BY <1>1, <1>2 DEF Flags
<1>3. CASE \/ UNCHANGED vars
           \/ \E o \in Ops :
                \/ RequestBind(o) \/ RequestInvoke(o) \/ RequestStop(o) \/ CallerLeaves(o)
                \/ BindRefused(o) \/ EndsBusy(o) \/ InvokeAdmitted(o) \/ InvokeRefused(o)
                \/ Dispatch(o) \/ StopRefused(o) \/ StopNext(o)
  BY <1>2, <1>3 DEF vars, RequestBind, RequestInvoke, RequestStop, CallerLeaves, BindRefused,
     EndsBusy, InvokeAdmitted, InvokeRefused, Dispatch, StopRefused, StopNext
<1>4. CASE \E o \in Ops : \/ CallEnds(o) \/ AnswerLost(o) \/ CallbackAsked(o)
                          \/ CallbackForwarded(o) \/ CallbackReturns(o)
  BY <1>2, <1>4 DEF CallEnds, AnswerLost, CallbackAsked, CallbackForwarded, CallbackReturns
<1>5. CASE \/ \E a \in Ops \cup {Watchdog} : Evict(a)
           \/ \E g \in Gens : \/ StopProcess(g) \/ Loads(g) \/ LoadFails(g)
                              \/ KillFailed(g) \/ KillLate(g) \/ KillLoad(g) \/ KillIdle(g)
  BY <1>2, <1>5 DEF Evict, StopProcess, Loads, LoadFails, KillFailed, KillLate, KillLoad,
     KillIdle, Kill
<1>6. ASSUME NEW o \in Ops, BindAdmitted(o)
      PROVE  Flags' /\ StopHolds'
  <2>1. epoch' \in 0..MaxEpoch
    BY <1>6 DEF BindAdmitted, Core, Tables, Op
  <2> QED BY <1>1, <1>6, <2>1 DEF BindAdmitted
<1>7. ASSUME NEW o \in Ops, StopAdmitted(o)
      PROVE  Flags' /\ StopHolds'
  BY <1>7 DEF StopAdmitted, Flags, StopHolds, Registered
<1>8. ASSUME NEW o \in Ops, StopDone(o)
      PROVE  Flags' /\ StopHolds'
  BY <1>0, <1>8 DEF StopDone, Flags, StopHolds, Registered
<1>9. ASSUME NEW o \in Ops, BindStarts(o)
      PROVE  Flags' /\ StopHolds'
  BY <1>0, <1>9 DEF BindStarts, Flags, StopHolds
<1>10. ASSUME NEW a \in Ops \cup {Watchdog}, EvictStandby(a)
       PROVE  Flags' /\ StopHolds'
  BY <1>10 DEF EvictStandby, Flags, StopHolds, Registered
<1>11. ASSUME NEW g \in Gens, Reap(g)
       PROVE  Flags' /\ StopHolds'
  <2>1. Registered' \subseteq Registered
    BY <1>11 DEF Reap, Registered, Core, Tables
  <2> QED BY <1>11, <2>1 DEF Reap, Flags, StopHolds
<1>12. CASE WatchEnds \/ WatchAdmitted \/ WatchDone \/ StandbyFails
  <2>1. CASE WatchEnds \/ WatchAdmitted
    <3>1. UNCHANGED <<epoch, limit, stopped, ended, standby, residents, op>>
      BY <2>1 DEF WatchEnds, WatchAdmitted
    <3>2. watching' = FALSE \/ watching' = watching
      BY <2>1 DEF WatchEnds, WatchAdmitted
    <3> QED BY <3>1, <3>2 DEF Flags, StopHolds, Registered
  <2>2. CASE StandbyFails
    BY <2>2 DEF StandbyFails, Flags, StopHolds, Registered
  <2>3. CASE WatchDone
    <3>1. standby' = standby \/ standby' = (StandbyWanted \/ standby)
      BY <2>3 DEF WatchDone
    <3>2. standby' \in BOOLEAN
      BY <3>1 DEF Flags
    <3>3. stopped => ~standby'
      BY <3>1 DEF StandbyWanted, StopHolds
    <3>4. UNCHANGED <<epoch, limit, stopped, ended, residents, op>> /\ watching' \in BOOLEAN
      BY <2>3 DEF WatchDone
    <3> QED BY <3>2, <3>3, <3>4 DEF Flags, StopHolds, Registered
  <2> QED BY <1>12, <2>1, <2>2, <2>3
<1> QED BY <1>3, <1>4, <1>5, <1>6, <1>7, <1>8, <1>9, <1>10, <1>11, <1>12 DEF Next

-----------------------------------------------------------------------------
(* Theorems. *)

(* The supervisor's invariant, whatever requests, deadlines, exits and     *)
(* evictions fall together: the parts above, on which the rest stands.     *)
THEOREM SupervisorInvariantAlways == Spec => []SupervisorInvariant
<1>1. Init => SupervisorInvariant
  <2> SUFFICES ASSUME Init PROVE SupervisorInvariant
    OBVIOUS
  <2>1. Flags
    <3>1. 0 \in 0..MaxEpoch
      BY SupervisorAssumption
    <3> QED BY <3>1 DEF Init, Flags
  <2>2. Tables
    BY Made, SupervisorAssumption DEF Init, Tables
  <2>3. \A g \in Gens : /\ proc[g].state = "none" /\ proc[g].calls = {}
                        /\ ~proc[g].astray
    BY DEF Init, Blank
  <2>4. Processes
    BY <2>3 DEF Init, Processes, ProcShape, Registration, EveryProcessRegistered, Alive, Unreaped
  <2>5. Requests
    BY <2>3, Made, SupervisorAssumption DEF Init, Requests, OpShape, CallsTied, AstrayTied,
       InProcess, PermitTied, AwaitsDying, RoomMade
  <2>6. Registered = {}
    BY DEF Init, Registered
  <2>7. Limits
    <3>1. Binds = {}
      BY Made DEF Init, Binds, Binding
    <3>2. Pending = 0
      BY <3>1, PendingCounts, FS_EmptySet
    <3> QED BY <2>6, <3>2, FS_EmptySet, SupervisorAssumption DEF Init, Limits, Budgeted,
            ResidentsBounded
  <2>8. StopHolds
    BY <2>6, Made DEF Init, StopHolds
  <2> QED BY <2>1, <2>2, <2>4, <2>5, <2>7, <2>8 DEF SupervisorInvariant, Core
<1>2. SupervisorInvariant /\ [Next]_vars => SupervisorInvariant'
  BY CoreStep, FlagsStep DEF SupervisorInvariant, Flags
<1> QED BY <1>1, <1>2, PTL DEF Spec

(* Every variable keeps its type, and requests, processes and the permit   *)
(* name one another as they should, for any number of each.                *)
THEOREM SupervisorTyped == Spec => []TypeOK
<1>1. SupervisorInvariant => TypeOK
  BY TypeParts DEF SupervisorInvariant, Core, Requests
<1> QED BY <1>1, SupervisorInvariantAlways, PTL

(* No process is ever out of the supervisor's sight, and a version never   *)
(* has two, whoever binds and kills at once.                               *)
THEOREM RegisteredAlways == Spec => []EveryProcessRegistered
<1>1. SupervisorInvariant => EveryProcessRegistered
  BY DEF SupervisorInvariant, Core, Processes
<1> QED BY <1>1, SupervisorInvariantAlways, PTL

(* Whoever starts a process or dispatches a call holds the permit and saw  *)
(* the limit of the last bind kept, and what is not gone is registered: no *)
(* more processes than that are there after it, the dying ones counted.    *)
THEOREM WithinResidencyAlways == Spec => WithinResidency
<1>1. SupervisorInvariant /\ [Next]_vars =>
        (Grows => Cardinality({g \in Gens : Unreaped(g)'}) <= limit)
  <2> SUFFICES ASSUME SupervisorInvariant, [Next]_vars, Grows
               PROVE  Cardinality({g \in Gens : Unreaped(g)'}) <= limit
    OBVIOUS
  <2> DEFINE there == {g \in Gens : Unreaped(g)'}
  <2>1. Core /\ Core' /\ limit \in Nat
    BY CoreStep, SupervisorAssumption DEF SupervisorInvariant, Flags
  <2>2. PICK o \in Ops : BindStarts(o) \/ Dispatch(o)
    BY <2>1, KindOfStep, GrowsOnly DEF SupervisorInvariant, Flags
  <2>3. there \subseteq Registered'
    BY <2>1 DEF Core, Processes, ProcShape, EveryProcessRegistered, Registered, Gens
  <2>4. IsFiniteSet(Registered) /\ Cardinality(Registered) \in Nat
    BY <2>1, RegisteredFinite DEF Core
  <2>5. PICK more \in SUBSET Gens : /\ IsFiniteSet(more) /\ Registered' \subseteq more
                                    /\ Cardinality(more) <= limit
    <3>1. CASE BindStarts(o)
      <4>1. op[o].version \in Versions /\ generation' \in Gens /\ op[o].kind = "bind"
        BY <2>1, <3>1, StarterAlone DEF Core, Requests, Limits
      <4>2. Registered' \subseteq Registered \cup {generation'}
        BY <2>1, <3>1, <4>1 DEF BindStarts, Core, Tables, Registered
      <4>3. /\ IsFiniteSet(Registered \cup {generation'})
            /\ Cardinality(Registered \cup {generation'}) <= Cardinality(Registered) + 1
        BY <2>4, FS_AddElement
      <4>4. Cardinality(Registered) + 1 <= limit
        BY <2>1, <2>4, <3>1, <4>1 DEF BindStarts, TooMany, Reserve
      <4>5. Cardinality(Registered \cup {generation'}) <= limit
        BY <2>1, <2>4, <4>3, <4>4, FS_CardinalityType
      <4>6. Registered \cup {generation'} \subseteq Gens
        BY <2>1, <4>1, RegisteredFinite DEF Core
      <4> QED BY <4>2, <4>3, <4>5, <4>6
    <3>2. CASE Dispatch(o)
      <4>1. Registered' = Registered
        BY <3>2 DEF Dispatch, Registered
      <4>2. Cardinality(Registered) <= limit
        BY <2>1, <2>4, <3>2 DEF Dispatch, TooMany, Reserve
      <4>3. Registered \subseteq Gens
        BY <2>1, RegisteredFinite DEF Core
      <4> QED BY <2>4, <4>1, <4>2, <4>3
    <3> QED BY <2>2, <3>1, <3>2
  <2>6. Cardinality(there) <= Cardinality(more) /\ Cardinality(there) \in Nat
        /\ Cardinality(more) \in Nat
    <3> HIDE DEF there
    <3> QED BY <2>3, <2>5, FS_Subset, FS_CardinalityType
  <2>7. Cardinality(there) <= limit
    <3> HIDE DEF there
    <3> QED BY <2>1, <2>5, <2>6
  <2> QED BY <2>7
<1> QED BY <1>1, SupervisorInvariantAlways, PTL DEF Spec, WithinResidency, Grows

(* Once the host was told the task stopped, nothing runs in it, and        *)
(* nothing that was under way starts.                                      *)
THEOREM NothingOutlivesStopAlways == Spec => []NothingOutlivesStop
<1>1. SupervisorInvariant => NothingOutlivesStop
  <2> SUFFICES ASSUME SupervisorInvariant, ended
               PROVE  ~standby /\ \A g \in Gens : ~Unreaped(g)
    BY DEF NothingOutlivesStop
  <2>1. ~standby /\ Registered = {}
    BY DEF SupervisorInvariant, StopHolds
  <2>2. \A g \in Gens : Unreaped(g) => g \in Registered
    BY DEF SupervisorInvariant, Core, Processes, ProcShape, EveryProcessRegistered, Registered,
       Gens
  <2> QED BY <2>1, <2>2
<1> QED BY <1>1, SupervisorInvariantAlways, PTL

(* No process in which a guest still runs a call, even one whose answer    *)
(* was lost, is ended to make room or for being idle.                      *)
THEOREM RunningGuestKeptAlways == Spec => RunningGuestKept
<1>1. SupervisorInvariant =>
        \A g \in Gens :
          proc[g].state = "ready" /\ (proc[g].calls # {} \/ proc[g].astray)
            => ~Evicted(g) /\ ~KillIdle(g)
  <2> SUFFICES ASSUME SupervisorInvariant, NEW g \in Gens, proc[g].state = "ready",
                      proc[g].calls # {} \/ proc[g].astray
               PROVE  ~Evicted(g) /\ ~KillIdle(g)
    OBVIOUS
  <2>1. Busy(g)
    BY DEF SupervisorInvariant, Core, Requests, CallsTied, AstrayTied, InProcess, Busy
  <2>2. ~KillIdle(g)
    BY <2>1 DEF KillIdle
  <2>3. ASSUME NEW a \in Ops \cup {Watchdog}, Evict(a), permit'.awaits = g
        PROVE  FALSE
    <3>1. PICK h \in Victims(a) : permit' = [permit EXCEPT !.awaits = h]
      BY <2>3 DEF Evict
    <3>2. h \in Registered /\ ~Busy(h)
      BY <3>1 DEF Victims
    <3>3. permit'.awaits = h
      BY <3>1 DEF SupervisorInvariant, Core, Tables, Permits
    <3> QED BY <2>1, <2>3, <3>2, <3>3
  <2> QED BY <2>2, <2>3 DEF Evicted
<1> QED BY <1>1, SupervisorInvariantAlways, PTL DEF RunningGuestKept

(* Once a newer host has bound the task, nothing more is done for an older *)
(* one, whatever its requests were waiting for when the bind came.         *)
THEOREM NewestHostOnlyAlways == Spec => NewestHostOnly
<1>1. SupervisorInvariant /\ [Next]_vars =>
        \A o \in Ops :
          \/ op[o].pc # "running" /\ op'[o].pc = "running"
          \/ op[o].callback # op'[o].callback
               /\ op'[o].callback \in {"forwarded", "answered"}
          \/ op[o].pc = "queued" /\ op'[o].pc = "stopping"
          => op[o].epoch = epoch
  <2> SUFFICES ASSUME SupervisorInvariant, [Next]_vars, NEW o \in Ops,
                      \/ op[o].pc # "running" /\ op'[o].pc = "running"
                      \/ op[o].callback # op'[o].callback
                           /\ op'[o].callback \in {"forwarded", "answered"}
                      \/ op[o].pc = "queued" /\ op'[o].pc = "stopping"
               PROVE  op[o].epoch = epoch
    OBVIOUS
  <2> QED BY KindOfStep, OnlyThenStep DEF OnlyThen, SupervisorInvariant, Flags
<1> QED BY <1>1, SupervisorInvariantAlways, PTL DEF Spec, NewestHostOnly

=============================================================================
