# Patchy Cloud in TLA+

A verification development for Patchy Cloud, the TypeScript monorepo under `src/`: TLA+ modules
translated from the code, TLC runs over small instances, and proofs that hold for every instance.
All paths below are relative to `src/`, and `packages/x` means `packages/x/src`.

## 1. The system

Patchy Cloud hosts a company's internal tools ("patches"). A page runs in the viewer's browser and
talks to a server through a shell; a tier 2 patch also has server handlers, which run in a workerd
process inside a *task* (a container) bound to one company at a time. Several replicas of the
server share one platform Postgres; each company has a database of its own.

```
 browser ── serving/broker ──┐                   ┌── execution/fleet ── platform rows, advisory locks
 worker agent ── mcp/Door ───┼── runtime ────────┤        │ provider (ECS, local)
 CLI ── api ── patches ──────┘   Invocation      │   execution/supervisor in the task ── workerd
                                 Subscriptions   └── callbacks ── runtime/CallbackGateway
                                 RuntimeStream            │
                                                 primitives ── company-database
                                                          └── integrations (Postgres, mail, CRM...)
```

### Inventory

Each entry: state; operations; who it talks to; what is hard; what would make it correct.

**Execution fleet** (`packages/execution`: `fleetStore.ts`, `fleet.ts`, `fleetActivity.ts`,
`migrations.ts`). State: rows of tasks, bindings, the rollout and its deployments, the housekeeping
lease and the company breaker; one Postgres session per replica holding shared advisory locks for
the bindings, companies and prewarms in use. Operations: find, claim, protect, settle, connect,
prewarm, drain, idle pass, replace, adopt, stop, stage, promote, retire, replenish, lease. Called by
the runtime for every tier 2 invocation and document; drives the task provider. Hard: statements of
several replicas interleave; a lock session dies and its keys look free; a replica dies mid-call;
two idle clocks, one run before and one after its unlock; a binding replaced under a running call.
Correct when a company has one server, a running call keeps it, idle servers go only when both
windows have passed, and everything fenced ends stopped.

**Task supervisor** (`execution/supervisor.ts`, with `process.ts`, `loader.ts`, `management.ts`).
State: the binding's epoch and generation, residents (process, health, deadline), reservations,
standby, callbacks' routes, reports. Operations: bind, touch, invoke, stop, evict, tick, adopt.
Hard: bind and invoke yield while a sibling is reaped; callback traffic outlives its invocation;
kills for deadline, stall and memory race a reply. Correct when a call runs on the generation it was
admitted to, a fenced generation answers nothing, and the task's slots are never exceeded.

**Task providers** (`ecsTaskProvider.ts`, `localTaskProvider.ts`, `localTaskOwner.ts`). State: the
remote inventory and caches of it. Hard: eventually consistent listings, reused addresses.

**Invocation runtime** (`packages/runtime`: `Invocation.ts`, `MutationTransaction.ts`,
`InvocationCapabilities.ts`, `CallbackGateway.ts`, `InvocationLog.ts`). State: admission owners and
slots, capabilities with their gates and effects, one owner fiber per mutation with its queue, the
log's rows, the company database's outcome keyed by mutation key. Operations: invoke, nested call,
callback, retain, settle, commit, abort, reconcile. Hard: a committed reply races the deadline,
conflicts are retried while old callbacks arrive, a transport loss leaves the outcome unknown.
Correct when a keyed mutation commits at most once and its answer is that commit's answer.

**Subscriptions and document streams** (`Subscriptions.ts`, `RuntimeStream.ts`,
`ConnectedVersions.ts`; browser side `serving/stream.ts`, `patchy/clientTransport.ts`). State: per
document a desired set, per subscription dirt, fence, vector and slot; generations of a stream; warm
holds with an idle window. Hard: wakes lost or during a run, a replace overlapping a read, rebinding,
generation hand-over. Correct when every subscription eventually answers at a revision no older than
the fence of the last replace, and a document's holds are owned by one generation.

**Company databases** (`packages/company-database`). State: placements, one pool per company, slots
opening, idle, leased or closing, the host's count of backends. Operations: acquire, release, evict,
drain to a new target, close, sweep of orphans. Hard: eviction across companies while the victim
closes, waiters and notifications, stale targets. Correct when the host's and each company's bounds
hold at every moment and no freed slot is lost on a waiter.

**Primitives** (`packages/primitives`: `Files.ts`, `TableOperations.ts`). State: rows and blobs of
staged and stored files. Hard: a blob written after its row was swept. Correct when every blob is
reachable from a row or old enough to sweep.

**Patches** (`packages/patches`: `Patches.ts`, `Content.ts`, `GuestGrants.ts`, `DeletionSweep.ts`).
State: patches, versions, publish keys, guests' grants, object claims, an artifact cache per host.
Operations: publish, roll back, share, retire, delete, restore, purge. Hard: a retried publish, a
publish during a retirement, a sweep during a restore. Correct when a publish key records one
version and no served version loses its objects.

**Identity** (`packages/auth`, `packages/companies`). State: device logins and setup lines, machine
tokens, authorization codes, agent connections with chains of refresh tokens, users and endings,
invitations and beta links. Hard: two refreshes with one token, an ending racing an issuance, a
contested device login. Correct when an ended credential issues nothing more, and a retry is told
from a reuse.

**Patchy MCP** (`packages/mcp`). State: change keys, in-flight slots. Hard: retries on several
replicas around leases and 24 hours. Correct when a change runs once per key.

**Integrations** (`packages/integrations`). State: connections with credentials and snapshots, keys
minted elsewhere, daily budgets, IMAP sessions and gates. Hard: an unanswered COMMIT around a minted
key, permits handed to an interrupted waiter. Correct when every minted key is saved, revoked or
named, and a gate never loses a permit.

**The rest**: `limits` (numbers and single-row overrides), `analytics` (write-only), `api`, `core`,
`sdk`, `portal`, `sql` (schemas, rendering, generation), `content-store` (objects by key), `patchy`
(CLI and local dev session), `apps/server` (wiring), `apps/infra` (deployment).

`PROJECT.json` lists these parts with their status, and every hazard at its line with the
properties that would show it going wrong.

## 2. Plan

| order | module | models | abstract specification | theorems |
|---|---|---|---|---|
| 1 | `Fleet` (done) | admission, release, rollout and stops of the fleet | `Tenancy` (done) | types, rows agree, epochs unique, one server, admitted calls keep it, idle release due, the step simulation of `Tenancy` (done) |
| 2 | `CompanyPool` (done) | slots of the company databases | slots as counted resources | types, exclusive leases, host and company bounds, exact counts, no lost wake-up, closed entries, targets advance (done) |
| 3 | `Mutation` (done) | attempts, mutation owner, outcomes, log | `MutationKey` (done): a one-shot register | types, log agrees, nothing left open, the step simulation of `MutationKey` (done) |
| 4 | `ChangeKeys` (done) | an agent's keyed change, over `Mutation`'s promise | | types, one try holds a key, at most one effect a day, every answer is its change's (done) |
| 5 | `Supervisor` (done) | one task's residents | | types, every process registered, nothing outlives its stop, the process limit (done) |
| 6 | `Subscriptions` (done) | answers, wakes, replaces, swaps | | types, results match vectors, stale is due, answers cover requests (done) |
| 7 | `DocumentStream` | generations of a stream, warm holds | one owner per document | one owner |
| 8 | `AgentConnections` | codes, refresh chains, endings | a chain with one live head | nothing issued after an ending |
| 9 | `Publish`, `PatchLifecycle`, `ArtifactCache`, `Files` | versions, sweeps, cache, staging | objects referenced by rows | cache bound, no dangling version |
| 10 | `HousekeepingLease`, `FleetPool`, `Breaker` | the rest of the fleet | | |
| 11 | `DeviceLogins`, `PidgeonKeys`, `ImapGates` | | | permits conserved |

Modules meet where the code calls. `ChangeKeys` rests on what `Mutation` is shown to promise
(`MutationKey`: one commit per key while the key's row is kept), and adds the row's end, which
`Mutation` leaves out. `Mutation` takes from the fleet that a call keeps its server or fails, and
`Supervisor` from the fleet that hosts come with growing epochs (`EpochsUnique`). Every module is
written to be proved about: constants with a named assumption, one action per operation, invariants in
named parts, no recursive operator.

## 3. Fleet

`Fleet.tla` has one action per statement or transaction of `fleetStore.ts`, because Postgres makes
those atomic and nothing else: between two of them any other replica, pass or operator may act.

| code | model |
|---|---|
| `execution_tasks.state` | `task` |
| `execution_bindings` (one per task: `task_id` is unique) | `binding[t]`: state, company, epoch, the two clocks, `idle_since`, `protected_until`, cause |
| `execution_binding_epochs` | `epochs` |
| rollout and deployments | `rollout`, `staged`, `retired`; `replacing` is the company a replacement transaction holds |
| advisory locks | no variable: who holds a key follows from where the clients of a replica are and whether its one session is up (`BindingFree`, `CompanyFree`, `PrewarmFree`) |
| an invocation in `acquire` | `call[k].pc`: idle, found, held, admitted, worked, clocked or unclocked, unlocked, orphaned |
| a document in `connect` | `doc[d]`: off, holding, ensured, on, left |
| `prewarm` | `prewarm[p]` |
| the provider's task | `remote[t]`: running, halted (by us), lost |
| `finishStop` after its drained check | `halting`; `glimpsed` holds tasks a drain has read without a binding |

A call goes `CallFind` or `CallClaim`, `CallHold`, `CallProtect`, `CallEnd`, `CallClock` (or
`CallClockFails`), `CallUnlock`, `CallRelease`; at each step somebody else may go first. `IdlePass`
is the whole `idleFence` transaction: it writes `idle_since` and then either fences or leaves.
`SessionLost`, `SessionRestored`, `HostCrash` and `TaskLost` are the failures.

What is abstracted: `owner_id` (the one statement that changes it changes the epoch, and every statement
that compares it compares the epoch too); the waiting in `find`; the contents of a bind; a found call
may be abandoned at any time, which stands for interruption. The provisional `release_cause` that
`finishStop` writes between stop and stopped is folded into `Stopped`. An ambiguous commit of the
protecting statement is not modelled. A first revision is promoted from the start, where
`registerDeployment` would stage it. All tasks start as ready spares: starting, replenishing, reserving
and leasing are left to `FleetPool` and `HousekeepingLease`.

`Tenancy.tla` is what the fleet promises, without rows, clocks or locks: a task serves at most one
company in its life, a company is admitted to one task at a time, and a task somebody uses is never
stopped, only lost. `KeepsTenancy` states that `Fleet` implements it under the mapping at the end of
`Fleet.tla` (`Phase`, `Tenant`, `Users`).

### Properties

- `TypeOK`, `RowsAgree`, `EpochsUnique`, `OneServerPerCompany`.
- `AdmittedKeepsServer`: while a call runs and its replica's lock session lasts, its task runs, is
  not being halted, and its binding keeps its company and epoch.
- `IdleReleaseDue` (action property): a pass releases a company only when no call of it runs or has
  yet to run its clock, also on a replaced predecessor, no document is connected, no prewarm holds
  it, and both windows have passed since work of each kind last settled.
- `FencedStops`, `QuietIsReleased` (liveness).
- `KeepsTenancy` (refinement).

### Runs

| run | instance | shows |
|---|---|---|
| `fleet_crash` | two pages' calls on two replicas, 2 tasks, 2 epochs, one failure, one request to fence or adopt | `AdmissionInvariant` (the inductive one), `AdmittedKeepsServer`, `KeepsTenancy` |
| `fleet_rollout` | two revisions, 3 epochs, two requests | epochs, one server, `IdleReleaseDue`, `KeepsTenancy` |
| `fleet_stops` | one task, one epoch, a page's and an agent's call on two replicas, drains whose two reads lie apart, one failure, two requests, fairness | `RowsAgree`, `IdleReleaseDue`, `FencedStops` |
| `fleet_quiet` | 2 tasks, a prewarm, its own call, a document, one failure, fairness | `IdleReleaseDue`, `QuietIsReleased` |
| `fleet_overtaken` | two requests, one call, drains whose two reads lie apart | a violation, see below |

Bounds, all constants of the module: `Horizon` (how long clients arrive and changes are asked for),
`MaxEpoch`, `MaxAsks` (fences, drains, adoptions, rollout changes), `MaxLosses`. Windows are one or
two ticks long. Two replicas, two tasks and two calls are enough for every pair of actors the code
lets meet: a key has one other holder, a company one predecessor, a pass one rival. After the horizon the
clock runs on only towards a deadline or window that is under way, so the state space is finite and
no window is cut short. `CHECK_DEADLOCK FALSE` in these runs because a fleet whose clients are done
and whose tasks are stopped really stops; liveness is stated by the two temporal runs instead.
Symmetry: tasks of one revision, and the twin replicas in `fleet_crash`; none in the temporal runs.

Fairness (`Fairness`): time passes; a call that was admitted ends, settles and lets go (its effects
are uninterruptible finalizers) and a held one protects or retries; housekeeping binds, passes,
drains, halts and closes each task, since its loop runs on every interval and moves to another
replica when one is gone. Clients, operators, failures, documents and prewarms owe nothing: a
document may stay for ever. A crashed replica never comes back, the harder case.

What the bounds leave out: every run has one company, so two companies at one spare are met only in the
proofs. `replacing` holds one replacement transaction; two that overlap, of different companies and by
two housekeepers (the statement takes the rollout's row `FOR SHARE`), are in neither. `fleet_stops` has
one epoch, so nothing is adopted or claimed anew there. And no property would notice an admission to a
retired deployment, which the model excludes as the code does, by the guard `Admissible`.

### Finding

`fleet_overtaken`: `drainTask` reads the binding, then the task's row (`fleet.ts:352`); a claim, a
use and a fence between the two make it stop a task under a call. `DrainsOverlap` turns this on, here
and in `fleet_stops`; the other runs and the proofs of `AdmittedKeepsServer`, `KeepsTenancy` and
`IdleReleaseDue` assume the two reads fall together.

### Observations without a run

- A settlement's `release` clears `protected_until` for all calls of the binding
  (`fleetStore.ts:297`), also one on another replica whose session died but which is within its
  bound, so draining does not wait through it as ADR-0012 (line 348) says.
- A document lets go of its lock before it runs the clock; a pass in between still has an older
  pass's `idle_since` (`fleetStore.ts:324`) and may release at once, where the comment at
  `fleet.ts:760` promises a whole window. `IdleReleaseDue` measures from when work last *settled*.

## 4. Company databases

`CompanyPool.tla` models the pools of `PgCompanyDatabases.ts`, one host's connections to company
databases: a registry entry per company lends one-connection slots, all entries share the host's
budget, and an entry that finds the host full evicts another company's idle slot.

Everything here runs on one JavaScript thread. The code says so itself ("every check and count change
runs without yielding in between"), and a step of the model is what happens from one yield to the
next. A request's fiber (`pc`) is reading its configuration, in `tryAcquire`, about to queue, asleep
on its company or on the host, waiting for a close, opening, or holding a lease.

| code | model |
|---|---|
| the placements and limits read, `RcMap.get` | `Ask`, then `Enter`, `EnterNew` or `EnterRefused` |
| `target`, `pool` of an entry | `target` (the revision), `pool` (the maximum) |
| `idle`, `draining`, `retiring`, `active` of an entry | the same |
| `openBackends`, `idleSlots` | `openBackends`, `candidates` |
| `tryAcquire` to its first yield | `CompanyFull`, `Drain`, `TakeIdle`, `OpenWithin`, `Evict`, `HostFull` |
| after the yield | `Drained`, `Evicted` (the end of `retire`, then `openSlot`), `Opened`, `OpenFails`, `OpenRefused` |
| the queue, its limit, leaving it | `JoinQueue`, `QueueFull`, `GiveUp` |
| `notify`, `notifyHost` | `Wake`, `WakeHost`: whoever sleeps on the notification tries again |
| a slot's finalizers | `TeardownSlot` (first: closing), `ConnClosed` (last: the backend is returned) |
| an entry's scope closing, the service's | `Expire`, `Shutdown`; `doomed` are its slots not reached yet |
| an override | `Reconfigure` |

Abstracted: the order of idle slots (any may be taken or evicted, a superset of what the code does);
the placement, since nothing in the repository changes `placement_version`; the wait limit's clock
(a request may give up whenever its fiber is suspended, and one that times out inside the
uninterruptible `tryAcquire` gives its lease back at once). The registry is a library, modelled from
its use: an entry nobody refers to may expire, and its slots then close while the company may already
get another. A slot's end is visible only after its connection has shut (`ConnClosed`).

Properties. `HostBudget`: the connections a host has, those still closing included, stay within
`PATCHY_COMPANY_DB_MAX_BACKENDS`. `LeasesExclusive`: what one admission holds nobody else is lent or
may evict. `CompanyCeiling`: the connections of an
entry that lives belong to one configuration and stay within its maximum. `CountsExact`: the four
counters are what is there, so no capacity leaks. `WakeDue`: whoever sleeps has something under way
that will wake it. `ClosedTakesAll`: once an entry's scope has closed, none of its connections is
missed by the finalizers. `TargetsAdvance`: a request that queued behind an override does not bring
the older one back. `WaitersAnswered` (liveness): a sleeper is answered without its wait limit, also
the authority read a lease's holder makes behind its own company.

| run | instance | shows |
|---|---|---|
| `pool_lends` | 2 companies with two requests each (one reserving), 2 backends; a maximum lowered from 2 to 1; a queue of 1; the service stops at any moment; 1 failure | the six invariants, `TargetsAdvance` |
| `pool_waits` | 2 backends; two reserving requests of one company with an authority read each, another company's request, entries that expire, 1 failure, fairness | `HostBudget`, `WaitersAnswered` |

Bounds: `Slots` has one identity more than `MaxBackends`, so a breach of the budget would show;
`Entries` has two identities: an entry closes while its company's next one opens, or while another
company's lives, but not all three at once, which is left to the proofs; `Rounds` (how often a request
asks), `Revisions` and `MaxFailures` bound the counters. The registry's own limit (`Capacity`) only
refuses a newcomer; no run has the companies to reach it. One failure is enough for each place a slot
can fail in, since nothing remembers it. Slots and entries are interchangeable (symmetry in the runs
without liveness). `CHECK_DEADLOCK FALSE`: with all requests done, the host rests.

Fairness: a fiber that can run does, a connection that closes finishes closing, and a lease's holder
lets go, because the work under a lease has a deadline. Nobody owes an arrival, and the wait limit is
not fair: waiters must be answered without it. In `pool_waits` only one company has authority reads:
the reserve (`reserveAuthority`) is per company, so shared queries of several companies can fill the
host's budget between them, and their authority reads then end by the wait limit.

Observations without a run. ADR-0009 (line 46) says of an override that a company's previous
connections close before it opens another. That is kept per registry entry (`CompanyCeiling`); an
entry that expires is dropped while its slots still close, and the next entry opens a connection of
the new maximum at once (`PgCompanyDatabases.ts:435`). And a new target notifies nobody
(`PgCompanyDatabases.ts:559`): a request asleep because of a lowered maximum stays asleep when the
previous one comes back, with a slot free for it, until somebody's admission ends or its wait limit
answers `busy`, where ADR-0009 has an acquisition wait only while the slots are occupied.

## 5. Mutations

`Mutation.tla` follows the calls that carry one mutation key, on one host or several: first tries,
retries after an unknown outcome, duplicates. Each has two fibers, the call's own
(`runtime/Invocation.ts`) and the owner of its transaction (`runtime/MutationTransaction.ts`,
`primitives/MutationTransaction.ts`), and a third party nobody can stop, the database.

| code | model |
|---|---|
| the call's fiber: dispatch, settlement, stored outcome, journal, answer | `call[i].pc`, from `begin` to `done`; `call[i].end` is how the dispatch ended, then the outcome drawn from it |
| the capability and its fence | `call[i].cap` |
| the owner fiber, its queue, `closed`, `cancelled`, `committed`, `outcomeUnknown`, `destroyed` | `tx[i]` |
| that transaction in Postgres | `srv[i]`: open, keyed (the key's row inserted), sent (COMMIT sent), committed, aborted |
| the key's row in the company's database | `row`, the call whose commit it records |
| the row of `runtime_invocations`, and writes to it still under way | `log[i]`, `posted[i]` |
| what the client was told | `answer[i]` |

The deadline may win against any step of the dispatch (`DeadlineWins`), which interrupts it where it
stands; `Fence` is the capability's own timer. An owner opens its transaction in steps that can each
hang: a lease and its connection, BEGIN (`Begun`), the isolation level and the timeouts (`Open`). Until
the last is answered it has no session, so `destroy` reaches nothing (`Destroyed`), and a failure or an
interruption first waits for a ROLLBACK that has no bound (`OpenFails`, `Unopen`). `OwnerInterrupted`
and `Rollback` are the owner's uninterruptible end. `Settled` and `SettleGivesUp` are the end of an
attempt's settlement, within its bound or not, and `Judged` is what the code makes of it: the
acknowledged commit first, then the key read again for anything uncertain, then another attempt after a
conflict, then the rebind of a call that never ran, then the dispatch's own end. `Commits` and `Aborts`
are the database's steps, also after the host has died. `Shutdown`, `Halt` and `Crash` end hosts.

Abstracted: what the handler reads and writes; the callback queue is one job (more of them queue
behind it and are refused by the same close); the loading and binding of bundles, which only fail;
time is a flag (`late`), so a deadline may pass between any two steps. A savepoint conflict and a
serialization conflict are one. A call that never ran may be bound again
any number of times, where the code does so once and refuses the next: a superset, since `ExecutorFails`
is that refusal. Queries, actions and nested calls are left out.

`MutationKey.tla` is the promise to the client: of the calls with one key at most one commits,
a success reports that commit, and a call told it did not happen never commits, neither before nor
after. `KeyPromise` states that `Mutation` implements it, with the key's row for the winner. The last
part is the hard one: a COMMIT that was sent may land after its host gave up, and only
`unknown_outcome` may be answered until its fate is known. `LogAgrees` says the journal, read as the
code reads it, never contradicts the database, whatever writes are late, lost or made for a call by
another's reconciliation. `NothingLeftOpen`: a call past its settlement has no open transaction on a
connection that nobody has destroyed, so that no dropped page holds a key; the one exception is an owner
still inside its opening, which has been cancelled and has not inserted the key's row.

| run | instance | shows |
|---|---|---|
| `mutation` | two calls with the key, each with up to two attempts and any number of rebinds | `LogAgrees`, `NothingLeftOpen`, `KeyPromise` |

Two calls are all that a key needs: a third meets a row or a held key as the second does. Two attempts
reach the retry, its limit and everything an earlier attempt may leave behind. Calls are interchangeable
(symmetry; nothing here is a liveness property). `CHECK_DEADLOCK FALSE`: answered calls rest. The run
has 1.2 million distinct states. No liveness is stated: each wait in the code ends by a bound, and the
model lets every bound pass at any time, so it would only restate the bounds.

Observation without a run: the exception above. `docs/limits.md` (lines 106 and 218) says that settlement
destroys an unresolved connection after its cleanup bound. An owner's `session` is assigned only once
`storage.open` has returned (`packages/runtime`, `MutationTransaction.ts:170`), and `destroy` is
`session?.destroy()` (line 287). If the database falls silent between the BEGIN and the answer to the
timeouts (`packages/primitives`, `MutationTransaction.ts:157-165`), the bound passes and nothing is
destroyed: the owner waits for the answer to its ROLLBACK, and the transaction stays open on a leased
connection without the idle timeout that would end it. It holds no key, only its connection. The model
reaches that in seven steps: `Arrive`, `Begin`, `Invoke`, `Callback`, `ExecutorFails`, `Begun`,
`SettleGivesUp`. Without the exception, which is what the documentation says, TLC refutes
`NothingLeftOpen`.

## 6. Change keys

`ChangeKeys.tla` models one change key of Patchy MCP over more than its 24 hours. The claim
(`mcp/ChangeKeys.ts`) is three statements, each its own step: `Insert` (on conflict, only over an
expired record), `Retry` (the same mutation that nothing holds) and `Read`, whose verdict may be to
begin again, up to `Rounds` times. `Call`, `NeverStarted`, `Commit`, `Act` and `Fail` are the call
itself as Runtime answers it; `Settle` and `Discard` are the door's two statements afterwards, each of
which may not get through; `Abandon` is an agent that goes away or a door that dies. `began` is when a
try was claimed whose invocation may still take effect, also after its answer (`Fail`'s second
outcome).

Two records with two lives and two clocks make this hard. The change key's record ends by the
database's clock. The mutation key carries the time of the host that minted it, is checked by the
host that uses it (`Call`), and its row is swept by the clock of the host that sweeps
(`SweepMutationKeys`). A retry goes on under the first try's mutation key, so it must stop while that
key's row is certain to be there: `RetryWindow` leaves out one lease and the skew.

Taken from elsewhere: that a mutation key commits once while its row is kept (`KeyPromise`), and that
an invocation ends within `MaxRun` of its claim (`tier2` deadlines and the settlement bound), which is
no longer than the lease (`TimesAssumption`); the default limits satisfy that, and an override of the
pool's wait beyond about a minute would not. Rate limits and the change's content are left out.

`OnceADay`: a record's change takes effect at most once, and two records of one key take effect at least
a key's life apart. `AnswersItsChange`: a success, also a replayed one, is of the try's own change and
version. `HoldsAlone`: two tries run under one record only when one has outlived its lease or its
answer.

| run | instance | shows |
|---|---|---|
| `change_keys` | three tries, each of which asks a mutation, the same on a later version, or an action | the three invariants |

Bounds: `Lifetime` 3, `Lease`, `MaxRun` and `Skew` 1, so that the retry window is as short as it can be
without being empty and its end falls at another tick than the mutation key's; `Horizon` 4, one tick
past the life of the first record, so that the key is used anew; `Rounds` 2. Three tries are a first
one, a retry and one that meets both. Tries are interchangeable.

## 7. The task supervisor

`Supervisor.tla` models one task. Requests of hosts (`op`) queue for one admission permit; `bind`,
`invoke`, the task's stop and the watchdog's last part hold it in turn, and await a process's end while
they do (`permit.awaits`). A stop of one process, a load's failure, a call's end and the watchdog's
kills run beside them without it.

| code | model |
|---|---|
| `bindingEpoch`, `stopped`, `generation`, `residents`, `standby` | the same |
| a resident: process, health, `speculative`, invocations | `proc[g]`: loading, ready, dying (fenced, not yet gone), reaped |
| an invocation whose answer was lost in transport, kept until its deadline | `op[o].pc = "lost"`, still among `proc[g].calls`; `astray` says that its guest may run it |
| `operatingLimits`, which every bind may change | `limit` |
| `terminate` up to its first await; its end | `Fenced`; `Reap` |
| bind | `RequestBind`, `BindRefused`, `BindAdmitted`, `Evict`, `EndsBusy`, `BindStarts`, `Loads`, `LoadFails` |
| invoke | `RequestInvoke`, `InvokeAdmitted`, `InvokeRefused`, `Dispatch`, `CallEnds`, `AnswerLost` |
| the callback proxy: whether the call lives (`Live`) is looked at before it awaits the body, before it awaits the response and before it passes that on | `CallbackAsked`, `CallbackForwarded`, `CallbackReturns`, also for a lost call's guest; a call may end before its callback (`CallEnds`) |
| stop of the task; of one process | `RequestStop`, `StopRefused`, `StopAdmitted`, `StopNext`, `StopDone`; `StopProcess` |
| the watchdog's pass | `KillFailed`, `KillLate`, `KillLoad`, `KillIdle`, `WatchEnds`, `WatchAdmitted`, `WatchDone` |
| a host that goes away | `CallerLeaves` |

Abstracted: memory is a choice at each place it is compared, and so are clocks; which idle process is
evicted is free among those the code allows, speculative ones first. Left out: prewarm touches, the
statistics and reports and their acknowledgement, late revisions of an override, bundles of another
company or hash (refused before any effect), and the scope's finaliser.

Properties. `EveryProcessRegistered`: a process not yet gone is the registered one of its version, so
the watchdog, a stop and the limits see it, although a version may be bound again while its dying
process is reaped. `WithinResidency` (action property): whenever a process starts or a call is
dispatched, those not yet gone, the dying included, are within the limit of the last bind. A bind that
lowers the limit below the processes there ends none of them, so more is not true; what it leaves too
many does not grow. `NothingOutlivesStop`: when a host is told that the task has stopped, nothing runs
and nothing that was under way starts. `RunningGuestKept`: no process in which a guest still runs a
call, even one whose answer was lost, is ended to make room or for being idle. `NewestHostOnly`: once a
newer host has bound the task, no older host's call is dispatched, callback forwarded, callback's
response passed on or stop carried out, whatever it was waiting for; nor is a response passed on to a
call that has ended. `EveryRequestAnswered` (liveness): every request is answered, though a guest or a
load may never end and operations wait for one another's processes while holding the permit.

| run | instance | shows |
|---|---|---|
| `supervisor_evicts` | two requests in flight, two versions, two hosts, a limit of one or two processes that any bind may change, three starts | types, two invariants, `WithinResidency`, `RunningGuestKept`, `NewestHostOnly` |
| `supervisor_answers` | two requests in flight, two versions, two hosts, room for one process, two starts, fairness | `EveryRequestAnswered` |

An answered request's place is free for another, so only how many are in flight is bounded; two are
enough since one permit orders the rest, which wait behind it. Three starts let a version be bound
again while another one's process and its own old one are there; two hosts are an older and a newer.
In
`supervisor_answers` the limit is constant: room for one process makes every bind of the other version
evict. Requests and versions are
interchangeable (symmetry in `supervisor_evicts` only). `CHECK_DEADLOCK FALSE`: a stopped task rests.

Fairness: admission is a fair semaphore, so a request that waits and could be admitted again and again
is (strong fairness of its turn); its holder goes on; a killed process is reaped (SIGKILL); the
watchdog comes back on an interval and ends a call past its deadline or a load past its limit. Guests,
loads and hosts owe nothing.

## 8. Subscriptions

`Subscriptions.tla` models one document's subscriptions (`runtime/Subscriptions.ts`). A run of a
subscription awaits, one after another, the check of its viewer and version (`checking`), a fence of
revisions (`TakeFence`), the read (`Snapshot`), the moment its dependencies are known (`Observe`), and,
when a replace came meanwhile, a second fence (`Verify`, `VerifyFence`, `VerifyFails`); then it answers
(`UpToDate`, `Deliver`, `Fails`, `Refuses`) or is thrown away (`Discard`). Between any two of these
`Write`, `Wake`, `WakeLost`, `Replace`, `Leave`, `Rebind` and `Reconcile` may come. `Start` is the pump:
the first entry of `order` that may run takes a slot, and a run's end puts its entry last.

The client is there as far as its requests depend on it: `view` is what it has once all that was sent
has arrived, `behind` what it has until then, and a subscribe or a replace carries the vector it *has*.
Keys have revisions, what a query reads may depend on what it finds (`Depends`), and results are told
apart by parities, so that some writes leave a result alone and only its vector is sent.

Left out: the sequence numbers of the desired set and its resync, the sharing of slots by several
documents, permissions as such (a departure is one), and the size of the queue.

Properties. `AnswersCoverRequests`: what answers a subscribe, a replace or a swap of handlers was true
when it was admitted or later, although the run that answers may have begun before, and no result read
by the handlers before a swap is sent after it. `ResultMatchesVector`: the client's result is the one
its vector names, also when only the vector was sent. `StaleIsDue`: a subscription at rest whose client
holds an old answer has a wake on its way, or lost exactly that wake, however wakes fell into its runs.
`EveryTurnComes` (liveness): what waits to run runs.

| run | instance | shows |
|---|---|---|
| `subscriptions` | one subscription that reads one key or two, two writes, one swap, one slot, fairness | types, two invariants, `AnswersCoverRequests`, `EveryTurnComes` |

Two writes are one that changes a result, or what it depends on, and one that changes it back; one swap
is enough, since nothing remembers it once a run has begun after it. With one subscription the slot is
still contended, by the runs that departed entries leave behind (`ghosts`); the rotation of `order`
among several is modelled but not exercised. Fairness: the pump, the timers and the interval go on, and
each await of a run has a deadline. Writes, wakes and clients owe nothing.

Observation without a run. `rebind` "invalidates snapshots" (`Subscriptions.ts:181`): it clears the
server's vector. In `patchy dev` a stream's reconnection or a replace (`Subscriptions.ts:729`) brings
the client's vector back, and an up-to-date answer (`Subscriptions.ts:439`) then keeps a result that the
old handlers read. So `AnswersCoverRequests` speaks of the results that are *sent*.

## 9. Proofs

Every theorem holds for every value of the constants that the module's named assumptions admit, and
those are the constants' types, with these exceptions: the sets whose members are counted are finite
(`Requests` and `Slots` of `CompanyPool`, `Ops` of `Supervisor`, `Subs` and `Keys` of `Subscriptions`),
as what one process ever sees is; a run is no longer than the lease it is claimed under (`ChangeKeys`,
`MaxRun <= Lease`) and a tool's version says what kind it is (`ChangesAssumption`); and what a query
depends on is decided by the keys it reads (`DependsAssumption`). Each inductive invariant was checked
with TLC on its module's run before it was proved. The proofs share one layout: lemmas about the records
and sets a step makes, the kinds of step a part of the invariant can tell apart with one preservation
lemma each, one lemma per action that shows its kind, and the theorems.

### Fleet

`FleetProofs` proves `TypeCorrect`: `Spec => []TypeOK`, one lemma per action.
`FleetAdmissionProofs` proves, for every number of replicas, tasks, companies, clients and every
value of the windows and bounds:

- `RowsAgreeAlways`, `EpochsUniqueAlways`, `OneServerAlways`;
- `AdmissionAlways` and from it `AdmittedKeepsServerAlways`, under `~DrainsOverlap`;
- `TenancyKept`, the refinement: `Spec => KeepsTenancy`, under `~DrainsOverlap`;
- `IdleReleaseDueAlways`, the action property, under `~DrainsOverlap`.

None of these is inductive alone. `AdmissionInvariant` conjoins them with what they rest on: no
epoch above the last one issued (`EpochsIssued`, for uniqueness), a steady hold has its session up
(`HoldsLast`), an admitted call is on a task (`CallsPlaced`), only a fenced binding is being halted
(`HaltingFenced`), and a task that can still be given away has not been halted (`ServersRun`).
`fleet_crash` checks it with TLC. The proof classifies the steps by what they do to the rows (a
claim, a fence, a replacement, an adoption, an activation, a stop, or a change to clocks alone),
shows each class preserves the row invariants, then takes the calls: while `k` is admitted and
steady, `BindingFree` is false for its task, which disables `Adopt`, `Drained` and the idle pass, and
the remaining steps leave its company and epoch alone. `DrainsOverlap` is the condition of the
finding in section 3: where it is TRUE the statement is false, and `fleet_overtaken` shows how.

The refinement needs no more than `AdmissionInvariant`. A step leaves every task as it is seen from
outside (then calls enter or leave), or ends one task (nobody uses a halted one, by
`AdmittedKeepsServer`), or changes rows and nothing else. What the same row change means to `Tenancy`
depends on which tasks the provider has lost: a replacement is `Replace`, but `Assign` where the
predecessor is lost, `Fence` where the newcomer is, and a stutter where both are.

The release needs `IdleInvariant`: beside the above, ended work that has yet to run its clock keeps
its server as running work does (`WorkedKeepsServer`), and the clocks of a serving row never lag
behind the work that settled in its tenancy (`ClocksCover`), through replacements, adoptions and
clocks that are run on whichever row serves by then. Only a pass that finds the binding releasable
writes these causes (`ReleasedByPass`); it saw both windows past by the row's clocks, so they are past
by the work itself, and a call left on any of the company's servers would hold a lock it tried.
`fleet_crash`, `fleet_rollout` and `fleet_quiet` were run with `IdleInvariant` as their invariant
before the proof.

### Company databases

`CompanyPoolProofs` proves every property of the two runs but the liveness one, for any companies,
requests, connections, entries, limits, budget and bounds: `HostBudgetAlways`,
`LeasesExclusiveAlways`, `CompanyCeilingAlways`, `CountsExactAlways`, `WakeDueAlways`,
`ClosedTakesAllAlways`, the action property `TargetsAdvanceAlways`, and `PoolTyped`.

All follow from `PoolInvariant`, which TLC checked on both instances before the proof. Its parts:

- what a fiber has at each place (`RequestTied`), and one place for each connection: idle in an
  entry, held, awaited by whoever closes it, or none of these (`Places`);
- the counters are the sizes of sets (`CountsHold`), and an entry drains for one fiber (`OneDrains`);
- the budget holds with the newcomers counted whose victim has closed (`BudgetHolds`): such a one is
  promised the backend its victim returned, and without counting it the step that opens its
  connection would not preserve `HostBudget`;
- what is idle, admitted and being evicted stays within an entry's pool, and is all it owns
  (`Ceiling`). `CompanyCeiling` itself says nothing of admissions that have not opened yet, so it
  alone is not inductive; it follows by counting (`OwnedCounted`): every connection is idle, held by
  an admission or awaited by an eviction, each of which accounts for one. While an entry drains, the
  connections of the older pool are all it owns;
- a sleeper's reason (`Waits`), stronger than `WakeDue`: it names what blocked it.

The proof has one lemma per action, over lemmas that say which changes leave a part as it is: a
quiet step moves only fibers that have nothing (`QuietKeeps`), an eased entry only loses connections
(`CeilingKept`), an undisturbed sleeper gains nothing (`WaitsKept`). Places and counts are shown
disjoint only for entries somebody may still come back to (`InUse`): the idle set of an entry that is
closed and forgotten is stale, and its connections' identities are used again.

### Mutations

`MutationProofs` proves, for any calls and any number of attempts, `MutationTyped`,
`LogAgreesAlways`, `NothingLeftOpenAlways` and `KeyPromiseKept`: `Spec => KeyPromise`, that every
behaviour of `Mutation` is one of `MutationKey` under its refinement mapping. `KeyInvariant` is what
makes each step map to a step or a stutter. It says how the host's view of an attempt stands to the
database's (`Fate`: a COMMIT is out only while its fate counts as unknown, what the owner ended
without one cannot commit), that the key's row is the committed transaction's (`RowCommitted`) and
only one open transaction holds the key (`OneKey`), and that whatever a call's fiber has learnt, its
client was told and its log row says is so (`Knows`, `Told`, `Logged`). The heart is `Inert`: the
call's owner has ended with no COMMIT in flight and no attempt will follow. A refusal needs it before
it is told or logged, and no step undoes it. The refinement then is by cases on the
action: `Commits`, the database's commit, maps to the abstract commit, the steps that answer map to
its answers, and the rest stutter.

### Change keys

`ChangeKeysProofs` proves `ChangeKeysTyped` and `HoldsAloneAlways`, for any tries, changes, lives,
leases and skews. `HoldInvariant` is inductive: beside the types, a record and whatever runs go under
the key of a try that asks no more (`KeysMinted`, so no two records ever have one key), a try within
its lease is the attempt that the record under its key names, until that lease's end (`HoldsRecord`),
and no two such tries have one key (`OneHolder`; it does not follow from the former, since the record
may be swept, discarded or replaced under them). The steps fall into four kinds, a try that asks on,
claims, goes on or ends, and the rest, with one lemma for each.

`ChangeKeysOnceProofs` extends it with `OnceADayAlways` and `AnswersItsChangeAlways`. The two need
each other, for a replay is true only because the change happened, and it cannot happen again only
because what is told of it is right. `OnceInvariant` adds to `HoldInvariant` what a key may still
lead to: the record is the one created under its key (`RecordCreated`, `AttemptTied`), whoever runs
does so within `MaxRun` of its claim (`RunsItsChange`), a second run of a mutation was claimed in the
retries' window (`RetriesInTime`), an action runs under its own key only and is given back unrun
(`ActsOnce`, `DiscardsUnrun`), and a mutation key's row is swept only when no retry can run any more
(`SweptLate`). That last part is where the lease, the longest run and the skew are weighed against
the rows' lives: nothing more than `MaxRun <= Lease` is assumed of them.

### The task supervisor

`SupervisorProofs` proves `SupervisorTyped`, `RegisteredAlways`, `WithinResidencyAlways`,
`NothingOutlivesStopAlways` and the action properties `RunningGuestKeptAlways` and
`NewestHostOnlyAlways`, for any requests, versions and limits. The inductive `SupervisorInvariant` ties
a process's calls to the requests that await them (`CallsTied`), the permit to the one request that
evicts or stops (`PermitTied`), whom it awaits to a dying process (`AwaitsDying`), and a version under
start to no other process than the one being awaited (`RoomMade`). `WithinResidency` counts processes
and the code counts registrations; the theorem maps the one into the other by `EveryProcessRegistered`,
at the two steps that add to what runs, a start and a dispatch, both of which have just looked
(`TooMany`). `Budgeted` says that the bound on generations is the model's alone: a request once queued
always finds one left.

### Subscriptions

`SubscriptionsProofs` proves `SubscriptionsTyped`, `ResultMatchesVectorAlways`, `StaleIsDueAlways`
and the action property `AnswersCoverRequestsAlways`, for any subscriptions, keys, queries, slots and
writes. The three are one argument. A run remembers what woke it until its end decides, and a replace
that it does not cover is owed (`RunTied`); what has changed since a vector was read is on its way,
came in the run or is lost (`ChangesDue`); what a run would answer with is as new as the request
(`Covers`). That an entry may fall back to a vector the client was sent before is safe only because
no vector that the client's last one has overtaken could be the company's again (`VectorsInOrder`),
which is why a result always goes with its vector (`ResultsAgree`). The slots in use are counted
(`SlotsCounted`), gone entries' runs included, for the type invariant's bound. 

### Model-checked only

Liveness under fairness (`FencedStops`, `QuietIsReleased`, `WaitersAnswered`,
`EveryRequestAnswered`, `EveryTurnComes`) needs `ENABLED` and is out of the prover's reach. Every
other property of the passing runs is stated by a theorem, those of `Fleet` about its calls and its
release for `DrainsOverlap = FALSE` only: in `fleet_stops`, where drains overlap, `IdleReleaseDue` is
model-checked, on its one task. `TypeOK` of `CompanyPool` and that of `Mutation` are proved and are
not among the runs' invariants.

## 10. Not modelled

What the sections above call left out, and the components of section 1 after the plan's sixth module:
document streams, files and the sweep of orphans, patches and guests, agent connections, device
logins, integrations' keys and IMAP sessions, the housekeeping lease, the pool of spares and the
breaker. They have state and hazards of their own, which `PROJECT.json` lists without a property, and
follow in the plan's order. The rest stays out: rendering, schemas, generation, analytics, wiring and
outside services keep no state that two actors share; `PROJECT.json` gives the reason for each.
