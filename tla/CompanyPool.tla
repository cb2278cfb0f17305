----------------------------- MODULE CompanyPool -----------------------------
(***************************************************************************)
(* One host's connections to company databases                             *)
(* (packages/company-database, PgCompanyDatabases.ts): a registry entry    *)
(* per company lends one-connection slots under the company's maximum,     *)
(* all entries share the host's budget, and an entry that finds the host   *)
(* full evicts another's idle slot.                                        *)
(*                                                                         *)
(* A fiber runs without interleaving between two yields, so an action is   *)
(* what happens from one yield to the next.  Every step of tryAcquire up   *)
(* to its first yield is one action; waiting for a close, opening, being   *)
(* asleep in the queue and holding a lease are the places in between.      *)
(*                                                                         *)
(* Abstracted: the order of idle slots (any of them may be taken or        *)
(* evicted), and the placement, which no code in the repository changes,   *)
(* so a target is told by its override revision and a pool by its maximum. *)
(* The registry (RcMap) is modelled from its use: an entry nobody refers   *)
(* to may expire, and its slots then close while the company may already   *)
(* get another entry.                                                      *)
(***************************************************************************)
EXTENDS Integers, FiniteSets

CONSTANTS
  Companies,
  Requests,    \* fibers that ask for a connection
  Slots,       \* identities of connections
  Entries,     \* identities of registry entries
  CompanyOf,   \* request -> its company
  Parent,      \* request -> the lease whose holder makes it, or NoRequest
  Reserving,   \* requests that leave a slot free for their authority reads
  LimitAt,     \* revision -> company.connections, the maximum it configures
  Revisions,   \* bound: revisions of a company's configuration, 1 .. Revisions
  MaxBackends, \* PATCHY_COMPANY_DB_MAX_BACKENDS
  MaxWaiters,  \* company.connections.waiters
  Capacity,    \* company.connections.pools
  Rounds,      \* bound: times a request asks
  MaxFailures, \* bound: connections that fail to open
  Expires,     \* whether entries expire
  Stops,       \* whether the service is torn down
  NoCompany, NoRequest, NoEntry, NoSlot

ASSUME PoolAssumption ==
  /\ CompanyOf \in [Requests -> Companies]
  /\ Parent \in [Requests -> Requests \cup {NoRequest}]
  /\ Reserving \subseteq Requests
  /\ Revisions \in Nat \ {0}
  /\ LimitAt \in [1 .. Revisions -> Nat \ {0}]
  /\ MaxBackends \in Nat \ {0} /\ MaxWaiters \in Nat /\ Capacity \in Nat
  /\ Rounds \in Nat /\ MaxFailures \in Nat /\ Expires \in BOOLEAN /\ Stops \in BOOLEAN
  /\ NoCompany \notin Companies
  /\ NoRequest \notin Requests /\ NoEntry \notin Entries /\ NoSlot \notin Slots
  /\ IsFiniteSet(Requests) /\ IsFiniteSet(Slots)

VARIABLES
  revision,     \* company -> the configured revision
  up,           \* whether the service runs
  doomed,       \* slots whose entry's scope is closing, not reached yet
  registry,     \* company -> its retained entry
  company,      \* entry -> the company it was made for
  closed,       \* entry -> whether its scope was closed
  pool, target, \* entry -> the maximum its slots belong to, the newest revision asked for
  idle,         \* entry -> its idle slots
  draining,     \* entry -> whether the slots of an older pool are being closed
  retiring,     \* entry -> its slots others are closing
  active,       \* entry -> its admissions
  openBackends, \* the host's count
  candidates,   \* idleSlots: what another company may evict
  conn,         \* slot -> none, opening, open, closing
  owner, gen,   \* slot -> its entry, the pool it was opened for
  pc,           \* request -> where its fiber is
  seen,         \* request -> the revision it read
  entry,        \* request -> the entry it refers to
  queued,       \* requests in a waiting queue
  held,         \* request -> the slot it opens or holds
  closes,       \* request -> slots whose close it awaits
  from,         \* request -> the entry whose slot it evicts
  rounds, failures

service == <<revision, up, doomed>>
entries == <<registry, company, closed, pool, target>>
counts == <<idle, draining, retiring, active>>
slots == <<conn, owner, gen>>
host == <<openBackends, candidates>>
fibers == <<seen, entry, queued, held, closes, from>>
bounds == <<rounds, failures>>
vars == <<service, entries, counts, slots, host, pc, fibers, bounds>>

Live(s) == conn[s] # "none"
Owned(e) == {s \in Slots : Live(s) /\ owner[s] = e}
Sleeping == {"onCompany", "onHost"}
Admitted == {"evicting", "opening", "leased"}

(* Nothing that runs refers to it any more, so its identity may be used again. *)
Unused(s) ==
  /\ conn[s] = "none"
  /\ \A r \in Requests : /\ held[r] # s /\ s \notin closes[r]
                         /\ entry[r] # NoEntry => s \notin idle[entry[r]]

Fresh(e) ==
  /\ \A c \in Companies : registry[c] # e
  /\ \A r \in Requests : entry[r] # e /\ from[r] # e
  /\ \A s \in Slots : owner[s] # e

(* Mutants: the waiters of the notification already replaced are not woken. *)
WakeNobody(p, e) == p
WakeNobodyHere(p) == p

(* notify wakes the sleepers of an entry, notifyHost those who wait for the host. *)
Wake(p, e) == [r \in Requests |-> IF p[r] = "onCompany" /\ entry[r] = e THEN "trying" ELSE p[r]]
WakeHost(p) == [r \in Requests |-> IF p[r] = "onHost" THEN "trying" ELSE p[r]]

(* closeSlot, as far as it runs without yielding. *)
Closing(S) == [s \in Slots |-> IF s \in S /\ Live(s) THEN "closing" ELSE conn[s]]

(* Mutant: a slot that is taken stays among the host's eviction candidates. *)
StillOffered(S) == candidates

(* idleSlots.delete: another company may no longer evict these. *)
Withdrawn(S) == candidates \ S

(* A request leaves: its queue place, lease and registry reference go together. *)
Leave(r) ==
  /\ entry' = [entry EXCEPT ![r] = NoEntry]
  /\ queued' = queued \ {r}
  /\ held' = [held EXCEPT ![r] = NoSlot]
  /\ seen' = [seen EXCEPT ![r] = 0]

-----------------------------------------------------------------------------
(* Asking: read the configuration, get the entry, note a newer target. *)

Ask(r) ==
  /\ pc[r] = "out" /\ rounds[r] < Rounds
  /\ Parent[r] # NoRequest => pc[Parent[r]] = "leased"
  /\ rounds' = [rounds EXCEPT ![r] = @ + 1]
  /\ seen' = [seen EXCEPT ![r] = revision[CompanyOf[r]]]
  /\ pc' = [pc EXCEPT ![r] = "read"]
  /\ UNCHANGED <<service, entries, counts, slots, host, entry, queued, held, closes,
                 from, failures>>

(* Mutant: a queued request brings back the override it read. *)
NewestAsked(e, rev) == rev

Newest(e, rev) == IF rev >= target[e] THEN rev ELSE target[e]

Enter(r) ==
  LET c == CompanyOf[r]
      e == registry[c]
  IN  /\ pc[r] = "read" /\ up /\ e # NoEntry
      /\ target' = [target EXCEPT ![e] = Newest(e, seen[r])]
      /\ entry' = [entry EXCEPT ![r] = e]
      /\ pc' = [pc EXCEPT ![r] = "trying"]
      /\ UNCHANGED <<service, registry, company, closed, pool, counts, slots, host,
                     seen, queued, held, closes, from, bounds>>

Retained == {c \in Companies : registry[c] # NoEntry}

EnterNew(r) ==
  LET c == CompanyOf[r]
  IN  /\ pc[r] = "read" /\ up /\ registry[c] = NoEntry /\ Cardinality(Retained) < Capacity
      /\ \E e \in Entries :
           /\ Fresh(e)
           /\ registry' = [registry EXCEPT ![c] = e]
           /\ company' = [company EXCEPT ![e] = c]
           /\ closed' = [closed EXCEPT ![e] = FALSE]
           /\ pool' = [pool EXCEPT ![e] = 0]
           /\ target' = [target EXCEPT ![e] = seen[r]]
           /\ idle' = [idle EXCEPT ![e] = {}]
           /\ draining' = [draining EXCEPT ![e] = FALSE]
           /\ retiring' = [retiring EXCEPT ![e] = 0]
           /\ active' = [active EXCEPT ![e] = 0]
           /\ entry' = [entry EXCEPT ![r] = e]
      /\ pc' = [pc EXCEPT ![r] = "trying"]
      /\ UNCHANGED <<service, slots, host, seen, queued, held, closes, from, bounds>>

EnterRefused(r) ==
  /\ pc[r] = "read"
  /\ ~up \/ (registry[CompanyOf[r]] = NoEntry /\ Cardinality(Retained) >= Capacity)
  /\ pc' = [pc EXCEPT ![r] = "out"] /\ Leave(r)
  /\ UNCHANGED <<service, entries, counts, slots, host, closes, from, bounds>>

-----------------------------------------------------------------------------
(* tryAcquire.  Blocked and NeedsDrain are its checks in their order; what  *)
(* follows them may have set pool to the target first.                      *)

Wanted(e) == LimitAt[target[e]]

(* Mutant: the victims others are closing do not count. *)
RoomPastVictims(r) ==
  active[entry[r]] + 1 <= Wanted(entry[r]) - (IF r \in Reserving THEN 1 ELSE 0)

Room(r) ==
  LET e == entry[r]
      reserved == IF r \in Reserving THEN 1 ELSE 0
  IN  active[e] + retiring[e] + 1 <= Wanted(e) - reserved

Blocked(r) ==
  LET e == entry[r]
  IN  \/ draining[e]
      \/ ~Room(r)
      \/ pool[e] # Wanted(e) /\ (active[e] > 0 \/ retiring[e] > 0)

NeedsDrain(r) == pool[entry[r]] # Wanted(entry[r]) /\ idle[entry[r]] # {}

MayAcquire(r) == pc[r] = "trying" /\ ~Blocked(r) /\ ~NeedsDrain(r)
Switched(e) == [pool EXCEPT ![e] = Wanted(e)]
Refused(r, where) == [pc EXCEPT ![r] = IF r \in queued THEN where ELSE "queueing"]

CompanyFull(r) ==
  /\ pc[r] = "trying" /\ Blocked(r)
  /\ pc' = Refused(r, "onCompany")
  /\ UNCHANGED <<service, entries, counts, slots, host, fibers, bounds>>

Drain(r) ==
  LET e == entry[r]
  IN  /\ pc[r] = "trying" /\ ~Blocked(r) /\ NeedsDrain(r)
      /\ pool' = Switched(e)
      /\ conn' = Closing(idle[e])
      /\ candidates' = Withdrawn(idle[e])
      /\ idle' = [idle EXCEPT ![e] = {}]
      /\ draining' = [draining EXCEPT ![e] = TRUE]
      /\ closes' = [closes EXCEPT ![r] = idle[e]]
      /\ pc' = [pc EXCEPT ![r] = "draining"]
      /\ UNCHANGED <<service, registry, company, closed, target, retiring, active,
                     owner, gen, openBackends, seen, entry, queued, held, from, bounds>>

TakeIdle(r) ==
  LET e == entry[r]
  IN  /\ MayAcquire(r)
      /\ \E s \in idle[e] :
           /\ idle' = [idle EXCEPT ![e] = @ \ {s}]
           /\ candidates' = Withdrawn({s})
           /\ held' = [held EXCEPT ![r] = s]
      /\ active' = [active EXCEPT ![e] = @ + 1]
      /\ queued' = queued \ {r}
      /\ pc' = [pc EXCEPT ![r] = "leased"]
      /\ UNCHANGED <<service, entries, draining, retiring, slots, openBackends,
                     seen, entry, closes, from, bounds>>

(* Mutant: a slot forked after its company closed is not closed with it. *)
ForkedUnaware(e) == "opening"

(* openSlot until its first yield; under a closed entry its scope is closed at once. *)
Forked(e) == IF closed[e] THEN "closing" ELSE "opening"

Opens(r, e, g) ==
  \E s \in Slots :
    /\ Unused(s)
    /\ conn' = [conn EXCEPT ![s] = Forked(e)]
    /\ owner' = [owner EXCEPT ![s] = e]
    /\ gen' = [gen EXCEPT ![s] = g]
    /\ held' = [held EXCEPT ![r] = s]

OpenWithin(r) ==
  LET e == entry[r]
  IN  /\ MayAcquire(r) /\ idle[e] = {} /\ openBackends < MaxBackends
      /\ pool' = Switched(e)
      /\ active' = [active EXCEPT ![e] = @ + 1]
      /\ openBackends' = openBackends + 1
      /\ Opens(r, e, Wanted(e))
      /\ pc' = [pc EXCEPT ![r] = "opening"]
      /\ UNCHANGED <<service, registry, company, closed, target, idle, draining, retiring,
                     candidates, seen, entry, queued, closes, from, bounds>>

(* The victim leaves its company's idle slots, and is counted there as retiring,
   before this fiber yields; it is counted with the newcomer until it has closed. *)
Evict(r) ==
  LET e == entry[r]
  IN  /\ MayAcquire(r) /\ idle[e] = {} /\ openBackends >= MaxBackends
      /\ \E v \in candidates :
           LET f == owner[v]
           IN  /\ idle' = [idle EXCEPT ![f] = @ \ {v}]
               /\ retiring' = [retiring EXCEPT ![f] = @ + 1]
               /\ conn' = Closing({v})
               /\ candidates' = Withdrawn({v})
               /\ closes' = [closes EXCEPT ![r] = {v}]
               /\ from' = [from EXCEPT ![r] = f]
      /\ pool' = Switched(e)
      /\ active' = [active EXCEPT ![e] = @ + 1]
      /\ openBackends' = openBackends + 1
      /\ pc' = [pc EXCEPT ![r] = "evicting"]
      /\ UNCHANGED <<service, registry, company, closed, target, draining, owner, gen,
                     seen, entry, queued, held, bounds>>

HostFull(r) ==
  LET e == entry[r]
  IN  /\ MayAcquire(r) /\ idle[e] = {} /\ openBackends >= MaxBackends /\ candidates = {}
      /\ pool' = Switched(e)
      /\ pc' = Refused(r, "onHost")
      /\ UNCHANGED <<service, registry, company, closed, target, counts, slots, host,
                     fibers, bounds>>

-----------------------------------------------------------------------------
(* What follows a yield of tryAcquire; it cannot be interrupted. *)

(* Mutant: closing returns before the connection has closed. *)
CloseUnawaited(r) == TRUE

CloseAwaited(r) == \A s \in closes[r] : ~Live(s)

Drained(r) ==
  LET e == entry[r]
  IN  /\ pc[r] = "draining" /\ CloseAwaited(r)
      /\ draining' = [draining EXCEPT ![e] = FALSE]
      /\ closes' = [closes EXCEPT ![r] = {}]
      /\ pc' = Wake([pc EXCEPT ![r] = "trying"], e)
      /\ UNCHANGED <<service, entries, idle, retiring, active, slots, host,
                     seen, entry, queued, held, from, bounds>>

(* retire's own end, then openSlot.  The pool captured when the victim was chosen is
   still the entry's: this admission is counted, so no other may switch it. *)
Evicted(r) ==
  /\ pc[r] = "evicting" /\ CloseAwaited(r)
  /\ retiring' = [retiring EXCEPT ![from[r]] = @ - 1]
  /\ closes' = [closes EXCEPT ![r] = {}]
  /\ from' = [from EXCEPT ![r] = NoEntry]
  /\ Opens(r, entry[r], pool[entry[r]])
  /\ pc' = Wake([pc EXCEPT ![r] = "opening"], from[r])
  /\ UNCHANGED <<service, entries, idle, draining, active, host, seen, entry, queued, bounds>>

Opened(r) ==
  /\ pc[r] = "opening" /\ conn[held[r]] = "opening"
  /\ conn' = [conn EXCEPT ![held[r]] = "open"]
  /\ queued' = queued \ {r}
  /\ pc' = [pc EXCEPT ![r] = "leased"]
  /\ UNCHANGED <<service, entries, counts, owner, gen, host,
                 seen, entry, held, closes, from, bounds>>

(* Mutant: a failed opening returns its backend, and so does the slot's finalizer. *)
OpenFailsTwice(r) ==
  /\ pc[r] = "opening" /\ conn[held[r]] = "opening" /\ failures < MaxFailures
  /\ failures' = failures + 1
  /\ conn' = Closing({held[r]})
  /\ openBackends' = openBackends - 1
  /\ UNCHANGED <<service, entries, counts, owner, gen, candidates, pc, fibers, rounds>>

OpenFails(r) ==
  /\ pc[r] = "opening" /\ conn[held[r]] = "opening" /\ failures < MaxFailures
  /\ failures' = failures + 1
  /\ conn' = Closing({held[r]})
  /\ UNCHANGED <<service, entries, counts, owner, gen, host, pc, fibers, rounds>>

(* The slot closed while it was opening: its backend is already returned. *)
OpenRefused(r) ==
  LET e == entry[r]
  IN  /\ pc[r] = "opening" /\ ~Live(held[r])
      /\ active' = [active EXCEPT ![e] = @ - 1]
      /\ pc' = Wake([pc EXCEPT ![r] = "out"], e)
      /\ Leave(r)
      /\ UNCHANGED <<service, entries, idle, draining, retiring, slots, host, closes, from, bounds>>

(* A slot that teardown closed under its lease never idles again. *)
Release(r) ==
  LET e == entry[r]
      s == held[r]
      kept == IF conn[s] = "open" THEN {s} ELSE {}
  IN  /\ pc[r] = "leased"
      /\ \A q \in Requests : Parent[q] = r => pc[q] = "out"
      /\ active' = [active EXCEPT ![e] = @ - 1]
      /\ idle' = [idle EXCEPT ![e] = @ \cup kept]
      /\ candidates' = candidates \cup kept
      /\ pc' = WakeHost(Wake([pc EXCEPT ![r] = "out"], e))
      /\ Leave(r)
      /\ UNCHANGED <<service, entries, draining, retiring, slots, openBackends,
                     closes, from, bounds>>

-----------------------------------------------------------------------------
(* The queue, and leaving it. *)

Waiting(e) == {q \in queued : entry[q] = e}

JoinQueue(r) ==
  /\ pc[r] = "queueing" /\ Cardinality(Waiting(entry[r])) + 1 <= MaxWaiters
  /\ queued' = queued \cup {r}
  /\ pc' = [pc EXCEPT ![r] = "trying"]
  /\ UNCHANGED <<service, entries, counts, slots, host, seen, entry, held, closes, from, bounds>>

QueueFull(r) ==
  /\ pc[r] = "queueing" /\ Cardinality(Waiting(entry[r])) + 1 > MaxWaiters
  /\ pc' = [pc EXCEPT ![r] = "out"] /\ Leave(r)
  /\ UNCHANGED <<service, entries, counts, slots, host, closes, from, bounds>>

(* Its fiber is suspended, or was woken and has not run yet. *)
Interruptible(r) == pc[r] \in {"read"} \cup Sleeping \/ (pc[r] = "trying" /\ r \in queued)

(* The wait limit, the caller's deadline or an interruption.  One that fires inside
   tryAcquire takes effect after it, which is a lease released at once. *)
GiveUp(r) ==
  /\ Interruptible(r)
  /\ pc' = [pc EXCEPT ![r] = "out"] /\ Leave(r)
  /\ UNCHANGED <<service, entries, counts, slots, host, closes, from, bounds>>

-----------------------------------------------------------------------------
(* Slots close, entries expire, the service is torn down. *)

(* A slot's last finalizer, after its connection has shut. *)
ConnClosed(s) ==
  /\ conn[s] = "closing"
  /\ conn' = [conn EXCEPT ![s] = "none"]
  /\ owner' = [owner EXCEPT ![s] = NoEntry]
  /\ gen' = [gen EXCEPT ![s] = 0]
  /\ openBackends' = openBackends - 1
  /\ doomed' = doomed \ {s}
  /\ pc' = WakeHost(pc)
  /\ UNCHANGED <<revision, up, entries, counts, candidates, fibers, bounds>>

(* An entry's scope closes those of the slots it has, one after the other.  Their first
   finalizer marks them; they stay among the idle slots of the dead entry. *)
TeardownSlot(s) ==
  /\ s \in doomed
  /\ doomed' = doomed \ {s}
  /\ conn' = Closing({s})
  /\ candidates' = Withdrawn({s})
  /\ UNCHANGED <<revision, up, entries, counts, owner, gen, openBackends, pc, fibers, bounds>>

Expire(c) ==
  LET e == registry[c]
  IN  /\ Expires /\ up /\ e # NoEntry /\ \A r \in Requests : entry[r] # e
      /\ registry' = [registry EXCEPT ![c] = NoEntry]
      /\ closed' = [closed EXCEPT ![e] = TRUE]
      /\ doomed' = doomed \cup Owned(e)
      /\ UNCHANGED <<revision, up, company, pool, target, counts, slots, host, pc, fibers, bounds>>

Shutdown ==
  /\ Stops /\ up
  /\ up' = FALSE
  /\ registry' = [c \in Companies |-> NoEntry]
  /\ closed' = [e \in Entries |-> closed[e] \/ \E c \in Companies : registry[c] = e]
  /\ doomed' = doomed \cup UNION {Owned(registry[c]) : c \in Retained}
  /\ UNCHANGED <<revision, company, pool, target, counts, slots, host, pc, fibers, bounds>>

(* OperatingLimits.change sets or removes an override, each under a new revision. *)
Reconfigure(c) ==
  /\ revision[c] < Revisions
  /\ revision' = [revision EXCEPT ![c] = @ + 1]
  /\ UNCHANGED <<up, doomed, entries, counts, slots, host, pc, fibers, bounds>>

-----------------------------------------------------------------------------
Init ==
  /\ revision = [c \in Companies |-> 1] /\ up = TRUE /\ doomed = {}
  /\ registry = [c \in Companies |-> NoEntry]
  /\ company = [e \in Entries |-> NoCompany]
  /\ closed = [e \in Entries |-> TRUE]
  /\ pool = [e \in Entries |-> 0] /\ target = [e \in Entries |-> 0]
  /\ idle = [e \in Entries |-> {}] /\ draining = [e \in Entries |-> FALSE]
  /\ retiring = [e \in Entries |-> 0] /\ active = [e \in Entries |-> 0]
  /\ openBackends = 0 /\ candidates = {}
  /\ conn = [s \in Slots |-> "none"]
  /\ owner = [s \in Slots |-> NoEntry] /\ gen = [s \in Slots |-> 0]
  /\ pc = [r \in Requests |-> "out"] /\ seen = [r \in Requests |-> 0]
  /\ entry = [r \in Requests |-> NoEntry] /\ queued = {}
  /\ held = [r \in Requests |-> NoSlot] /\ closes = [r \in Requests |-> {}]
  /\ from = [r \in Requests |-> NoEntry]
  /\ rounds = [r \in Requests |-> 0] /\ failures = 0

Attempt(r) ==
  CompanyFull(r) \/ Drain(r) \/ TakeIdle(r) \/ OpenWithin(r) \/ Evict(r) \/ HostFull(r)

Resume(r) == Drained(r) \/ Evicted(r) \/ Opened(r) \/ OpenRefused(r)

Arrive(r) == Enter(r) \/ EnterNew(r) \/ EnterRefused(r) \/ JoinQueue(r) \/ QueueFull(r)

Next ==
  \/ \E r \in Requests : \/ Ask(r) \/ Arrive(r) \/ Attempt(r) \/ Resume(r)
                         \/ OpenFails(r) \/ Release(r) \/ GiveUp(r)
  \/ \E s \in Slots : ConnClosed(s) \/ TeardownSlot(s)
  \/ \E c \in Companies : Expire(c) \/ Reconfigure(c)
  \/ Shutdown

Spec == Init /\ [][Next]_vars

(* Fibers that can run do, connections that close finish closing, and whoever holds a
   lease ends: the work under it has a deadline.  Nobody need ask, give up or expire. *)
Fairness ==
  /\ \A r \in Requests : /\ WF_vars(Arrive(r)) /\ WF_vars(Attempt(r))
                         /\ WF_vars(Resume(r)) /\ WF_vars(Release(r))
  /\ \A s \in Slots : WF_vars(ConnClosed(s)) /\ WF_vars(TeardownSlot(s))

FairSpec == Spec /\ Fairness

-----------------------------------------------------------------------------
(* Types. *)

TypeOK ==
  /\ revision \in [Companies -> 1 .. Revisions] /\ up \in BOOLEAN /\ doomed \subseteq Slots
  /\ registry \in [Companies -> Entries \cup {NoEntry}]
  /\ company \in [Entries -> Companies \cup {NoCompany}] /\ closed \in [Entries -> BOOLEAN]
  /\ pool \in [Entries -> Nat] /\ target \in [Entries -> 0 .. Revisions]
  /\ idle \in [Entries -> SUBSET Slots] /\ draining \in [Entries -> BOOLEAN]
  /\ retiring \in [Entries -> Nat] /\ active \in [Entries -> Nat]
  /\ openBackends \in Nat /\ candidates \subseteq Slots
  /\ conn \in [Slots -> {"none", "opening", "open", "closing"}]
  /\ owner \in [Slots -> Entries \cup {NoEntry}] /\ gen \in [Slots -> Nat]
  /\ pc \in [Requests -> {"out", "read", "trying", "queueing", "draining"}
                       \cup Sleeping \cup Admitted]
  /\ seen \in [Requests -> 0 .. Revisions]
  /\ entry \in [Requests -> Entries \cup {NoEntry}] /\ queued \subseteq Requests
  /\ held \in [Requests -> Slots \cup {NoSlot}] /\ closes \in [Requests -> SUBSET Slots]
  /\ from \in [Requests -> Entries \cup {NoEntry}]
  /\ rounds \in [Requests -> 0 .. Rounds] /\ failures \in 0 .. MaxFailures

-----------------------------------------------------------------------------
(* What must hold. *)

(* The connections a host has open, also those still closing for another's admission,
   stay within PATCHY_COMPANY_DB_MAX_BACKENDS (ADR-0009, Pools and locks). *)
HostBudget == Cardinality({s \in Slots : Live(s)}) <= MaxBackends

(* One connection serves one admission: no two hold it, and none that a company lends
   or another company evicts is held. *)
LeasesExclusive ==
  \A r \in Requests : held[r] # NoSlot =>
    /\ \A q \in Requests : q # r => held[q] # held[r] /\ held[r] \notin closes[q]
    /\ held[r] \notin candidates
    /\ entry[r] # NoEntry => held[r] \notin idle[entry[r]]

(* An entry's connections belong to one configuration and stay within its maximum: an
   override closes the previous connections before it opens another, and an evicted
   slot counts until it has closed.  (Under a closed entry slots only close.) *)
CompanyCeiling ==
  \A e \in Entries : ~closed[e] =>
    /\ \A s, t \in Owned(e) : gen[s] = gen[t]
    /\ \A s \in Owned(e) : Cardinality(Owned(e)) <= gen[s]

(* The counters say what is there, or capacity leaks: the host's count is the live
   slots and the newcomers still waiting for a victim, an entry's the admissions and
   victims it has. *)
CountsExact ==
  /\ openBackends = Cardinality({s \in Slots : Live(s)})
                    + Cardinality({r \in Requests : pc[r] = "evicting"})
  /\ \A e \in Entries : (\E r \in Requests : entry[r] = e) =>
       /\ active[e] = Cardinality({r \in Requests : entry[r] = e /\ pc[r] \in Admitted})
       /\ retiring[e] = Cardinality({r \in Requests : from[r] = e})
       /\ draining[e] = (\E r \in Requests : entry[r] = e /\ pc[r] = "draining")

(* No wake-up is lost.  Whoever sleeps on its company cannot be admitted now, or an
   admission or eviction whose end notifies it is under way; the target may have changed
   since it slept, which notifies nobody, so a reserving request may then sleep without
   any.  Whoever sleeps on the host finds it full still. *)
WakeDue ==
  \A r \in Requests :
    LET e == entry[r]
        retargeted == r \in Reserving /\ target[e] # seen[r]
    IN  /\ pc[r] = "onCompany" /\ ~Blocked(r) => active[e] + retiring[e] > 0 \/ retargeted
        /\ pc[r] = "onHost" => openBackends >= MaxBackends /\ candidates = {} /\ idle[e] = {}

(* A request that read the configuration before an override and queued behind it does
   not bring the older one back. *)
TargetsAdvance ==
  [][\A e \in Entries : ~Fresh(e) => target'[e] >= target[e]]_vars

(* Whoever waits is answered without its wait limit, also the authority read of a
   lease that others of its company wait behind. *)
WaitersAnswered == \A r \in Requests : pc[r] \in Sleeping ~> pc[r] \notin Sleeping

(* A company's registry entry, once closed by its idle time or the service's end, takes
   every connection with it, also one an admission was about to open. *)
ClosedTakesAll ==
  \A s \in Slots : Live(s) /\ closed[owner[s]] => conn[s] = "closing" \/ s \in doomed

=============================================================================
