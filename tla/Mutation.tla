------------------------------ MODULE Mutation ------------------------------
(***************************************************************************)
(* Calls of one mutation handler that carry the same mutation key: the     *)
(* first try, retries after an unknown outcome, duplicates, on one host or *)
(* on several.  Each call is driven by a fiber of its own                  *)
(* (packages/runtime/src/Invocation.ts) that journals the call, looks the  *)
(* key up, lets the guest run under a capability, and settles; its writes  *)
(* go through one transaction owned by another fiber                       *)
(* (packages/runtime/src/MutationTransaction.ts and                        *)
(* packages/primitives/src/MutationTransaction.ts), which saves the key    *)
(* with the reply and commits.  Deadline, cancellation, a stuck or lost    *)
(* database connection, serialization conflicts, key races, a stuck        *)
(* journal, a host that shuts down and a host that dies are all here.      *)
(*                                                                         *)
(* Calls with different keys share nothing the properties read, and one    *)
(* key's row is all the module keeps of the company's database.            *)
(***************************************************************************)
EXTENDS Naturals, FiniteSets

CONSTANTS Calls,        \* calls that carry the key
          None,         \* no call
          MaxAttempts   \* tier2.mutation.attempts

ASSUME CallsAssumption == None \notin Calls
ASSUME AttemptsAssumption == MaxAttempts \in Nat \ {0}

VARIABLES
  call,    \* the owner fiber of each call
  tx,      \* the transaction resource of its present attempt, as the host sees it
  srv,     \* that transaction, as the database sees it
  row,     \* the call whose commit the key's row records, or None
  log,     \* the call's row of runtime_invocations
  posted,  \* journal writes of its outcome that may still reach the database
  answer   \* what the call's client was told

vars == <<call, tx, srv, row, log, posted, answer>>

-----------------------------------------------------------------------------
(* State *)

(* Where a call's own fiber stands: the dispatch races the deadline.       *)
Dispatching == {"begin", "lookup", "running", "completing"}
Stopped == {"done", "halted", "dead"}
Pcs == Dispatching \cup Stopped \cup
       {"idle", "settling", "resolving", "finishing", "awaiting", "stopping"}

(* How the raced dispatch ended, then the outcome drawn from it.           *)
Ends == {"none", "ok", "stored", "refused", "timeout", "conflict", "keyrace",
         "rebind", "unknown"}

Call == [pc : Pcs, late : BOOLEAN, cap : {"none", "live", "fenced"}, end : Ends,
         uncertain : BOOLEAN, stored : Calls \cup {None}, logged : BOOLEAN,
         tries : 0..MaxAttempts]

(* The owner of an attempt's transaction: the only fiber executing SQL.    *)
(* While it leases, begins and sets up its transaction, and while it rolls *)
(* back what failed then, there is no session yet.                         *)
Opening == {"opening", "unopening"}
Owners == Opening \cup {"none", "ready", "saving", "committing", "rolling",
                       "closing", "ended"}

Tx == [owner : Owners, closed : BOOLEAN, cancelled : BOOLEAN, final : BOOLEAN,
       job : {"none", "asked", "running"}, conflict : BOOLEAN,
       committed : BOOLEAN, destroyed : BOOLEAN, unknown : BOOLEAN,
       fail : {"none", "refused", "conflict", "keyrace"}]

NewTx == [owner |-> "none", closed |-> FALSE, cancelled |-> FALSE,
          final |-> FALSE, job |-> "none", conflict |-> FALSE,
          committed |-> FALSE, destroyed |-> FALSE, unknown |-> FALSE,
          fail |-> "none"]

Outcomes == {"success", "failure", "handler_timeout", "unknown_outcome"}

Untold == [tag |-> "none"]

TypeOK ==
  /\ call \in [Calls -> Call]
  /\ tx \in [Calls -> Tx]
  /\ srv \in [Calls -> {"none", "open", "keyed", "sent", "committed", "aborted"}]
  /\ row \in Calls \cup {None}
  /\ log \in [Calls -> [outcome : Outcomes \cup {"none", "pending"},
                        committed : BOOLEAN]]
  /\ posted \in [Calls -> SUBSET Outcomes]
  /\ answer \in [Calls -> [tag : {"none", "no", "unknown"}]
                            \cup [tag : {"ok"}, of : Calls]]

NewCall == [pc |-> "idle", late |-> FALSE, cap |-> "none", end |-> "none",
            uncertain |-> FALSE, stored |-> None, logged |-> FALSE,
            tries |-> 0]

Init ==
  /\ call = [i \in Calls |-> NewCall]
  /\ tx = [i \in Calls |-> NewTx]
  /\ srv = [i \in Calls |-> "none"]
  /\ row = None
  /\ log = [i \in Calls |-> [outcome |-> "none", committed |-> FALSE]]
  /\ posted = [i \in Calls |-> {}]
  /\ answer = [i \in Calls |-> Untold]

-----------------------------------------------------------------------------
(* Building blocks *)

(* The call's fiber has ended: nothing reads what it knew.                 *)
Gone(pc) == [NewCall EXCEPT !.pc = pc]

(* close(): the queued job is refused; the running one is let finish.      *)
Closed(t) == [t EXCEPT !.closed = TRUE,
                       !.job = IF @ = "asked" THEN "none" ELSE @]

(* cancel: closes, and interrupts an owner that has not yet committed,     *)
(* which saves no reply and runs no SQL from then on but its rollback.     *)
Cancelled(t) == [Closed(t) EXCEPT !.cancelled = TRUE, !.final = FALSE]

(* fence: the first reason ends the capability and cancels its resource.   *)
Fenced(i) == IF call[i].cap = "live" THEN Cancelled(tx[i]) ELSE tx[i]

FencedCap(i) == IF call[i].cap = "live" THEN "fenced" ELSE call[i].cap

(* destroy: what could not settle in time loses its connection, which only *)
(* a session can reach: an owner that is still opening is merely cancelled.*)
Destroyed(t) == [Cancelled(t) EXCEPT !.destroyed = @ \/ t.owner \notin Opening]

(* The dispatch ends with e while the transaction stands at t, and the     *)
(* call's fiber starts to settle the attempt, which fences it at once.     *)
EndsWith(i, e, t) ==
  /\ call' = [call EXCEPT ![i].pc = "settling", ![i].end = e,
                          ![i].cap = FencedCap(i)]
  /\ tx' = [tx EXCEPT ![i] = IF call[i].cap = "live" THEN Cancelled(t) ELSE t]

(* The owner moves to t, and whoever awaits its reply learns that end.     *)
OwnerEnds(i, t, end) ==
  IF call[i].pc = "completing" THEN EndsWith(i, end, t)
  ELSE tx' = [tx EXCEPT ![i] = t] /\ UNCHANGED call

(* The owner's exit: no more jobs, then rollback unless it has committed.  *)
OwnerFails(i, why) ==
  tx' = [tx EXCEPT ![i] = [Closed(tx[i]) EXCEPT !.owner = "rolling",
                                                !.job = "none", !.fail = why]]

(* Another transaction holds the uncommitted key: the insert waits on it.  *)
KeyLocked(i) == \E j \in Calls \ {i} : srv[j] \in {"keyed", "sent"}

(* The settlement of the retained transaction: its owner is gone.          *)
OwnerSettled(i) == tx[i].owner \in {"none", "ended"}

(* What the log and the client are told of an outcome.                     *)
Outcome(i) == CASE call[i].end \in {"ok", "stored"} -> "success"
                [] call[i].end = "timeout" -> "handler_timeout"
                [] call[i].end = "unknown" -> "unknown_outcome"
                [] OTHER -> "failure"

Reply(i) ==
  CASE Outcome(i) = "success" ->
         [tag |-> "ok", of |-> IF call[i].stored = None THEN i ELSE call[i].stored]
    [] Outcome(i) = "unknown_outcome" -> [tag |-> "unknown"]
    [] OTHER -> [tag |-> "no"]

-----------------------------------------------------------------------------
(* Dispatch: everything that races the deadline *)

(* A call is admitted with a valid key.                                    *)
Arrive(i) ==
  /\ call[i].pc = "idle"
  /\ call' = [call EXCEPT ![i].pc = "begin"]
  /\ UNCHANGED <<tx, srv, row, log, posted, answer>>

(* No handler runs before its row is confirmed.                            *)
Begin(i) ==
  /\ call[i].pc = "begin"
  /\ \/ /\ log' = [log EXCEPT ![i].outcome = "pending"]
        /\ call' = [call EXCEPT ![i].pc = "lookup", ![i].logged = TRUE]
        /\ UNCHANGED tx
     \/ /\ EndsWith(i, "refused", tx[i])
        /\ UNCHANGED log
  /\ UNCHANGED <<srv, row, posted, answer>>

(* The key's row answers the call.                                         *)
FindsCommit(i) ==
  /\ call[i].pc = "lookup" /\ row # None
  /\ call' = [call EXCEPT ![i].pc = "settling", ![i].end = "stored",
                          ![i].stored = row]
  /\ UNCHANGED <<tx, srv, row, log, posted, answer>>

(* Without a row the deadline is checked; the bundle is loaded and bound,  *)
(* the capability issued, the transaction retained and the guest invoked.  *)
Invoke(i) ==
  /\ call[i].pc = "lookup" /\ row = None /\ ~call[i].late
  /\ call' = [call EXCEPT ![i].pc = "running", ![i].cap = "live",
                          ![i].tries = @ + 1]
  /\ UNCHANGED <<tx, srv, row, log, posted, answer>>

(* The deadline check, or any failure before the guest is invoked.         *)
NotInvoked(i) ==
  /\ call[i].pc = "lookup"
  /\ \/ row = None /\ call[i].late /\ EndsWith(i, "timeout", tx[i])
     \/ EndsWith(i, "refused", tx[i])
  /\ UNCHANGED <<srv, row, log, posted, answer>>

(* A callback of the guest queues a job and starts the owner if none runs. *)
Callback(i) ==
  /\ call[i].pc = "running" /\ call[i].cap = "live" /\ ~call[i].late
  /\ ~tx[i].closed /\ tx[i].job = "none"
  /\ tx' = [tx EXCEPT ![i].job = "asked",
                      ![i].owner = IF @ = "none" THEN "opening" ELSE @]
  /\ UNCHANGED <<call, srv, row, log, posted, answer>>

(* The supervisor refused before dispatch: the handler never ran, and the  *)
(* call is bound once more.  Here it may be so any number of times.        *)
NeverRan(i) ==
  /\ call[i].pc = "running" /\ tx[i].owner = "none"
  /\ EndsWith(i, "rebind", tx[i])
  /\ UNCHANGED <<srv, row, log, posted, answer>>

(* The invocation failed under the handler: its process was killed, or the *)
(* executor's answer was lost or could not be read.                        *)
ExecutorFails(i) ==
  /\ call[i].pc = "running"
  /\ EndsWith(i, "refused", tx[i])
  /\ UNCHANGED <<srv, row, log, posted, answer>>

(* The guest returned what cannot commit: its attempt met a conflict, it   *)
(* declared a failure, its value is invalid, its resource is cancelled, or *)
(* its transaction did not open.                                           *)
GuestFails(i) ==
  /\ call[i].pc = "running"
  /\ EndsWith(i, IF tx[i].conflict THEN "conflict" ELSE "refused", Closed(tx[i]))
  /\ UNCHANGED <<srv, row, log, posted, answer>>

(* The guest returned a valid value: no callback is admitted any more, and *)
(* the owner, started now if no callback did, is given the final reply.    *)
GuestReturns(i) ==
  /\ call[i].pc = "running" /\ ~tx[i].conflict /\ ~tx[i].cancelled
  /\ call' = [call EXCEPT ![i].pc = "completing"]
  /\ LET owner == tx[i].owner IN
     /\ owner \in {"none", "opening", "ready"}
     /\ tx' = [tx EXCEPT ![i] =
                [Closed(tx[i]) EXCEPT
                   !.owner = IF owner = "none" THEN "opening" ELSE owner,
                   !.final = owner = "ready"]]
  /\ UNCHANGED <<srv, row, log, posted, answer>>

-----------------------------------------------------------------------------
(* The transaction's owner *)

(* BEGIN and the settings after it, the timeouts last, are answered.       *)
Open(i) ==
  /\ tx[i].owner = "opening" /\ ~tx[i].cancelled /\ srv[i] # "none"
  /\ tx' = [tx EXCEPT ![i].owner = "ready",
                      ![i].final = call[i].pc = "completing"]
  /\ UNCHANGED <<call, srv, row, log, posted, answer>>

(* No session opens, for a failure or since the owner is interrupted, and  *)
(* who awaits it learns so.  Once BEGIN was sent a rollback comes after.   *)
OpenFails(i) ==
  /\ tx[i].owner = "opening"
  /\ \E left \in {"ended", "unopening"} :
       /\ left = "ended" => srv[i] = "none"
       /\ OwnerEnds(i, [Closed(tx[i]) EXCEPT !.owner = left], "refused")
  /\ UNCHANGED <<srv, row, log, posted, answer>>

(* The opening's ROLLBACK is answered, or fails and its connection is      *)
(* destroyed; an answer that never comes is awaited for ever.              *)
Unopen(i) ==
  /\ tx[i].owner = "unopening"
  /\ \/ /\ tx' = [tx EXCEPT ![i].owner = "ended"]
        /\ srv' = [srv EXCEPT ![i] = "aborted"]
     \/ /\ tx' = [tx EXCEPT ![i].owner = "ended", ![i].destroyed = TRUE]
        /\ UNCHANGED srv
  /\ UNCHANGED <<call, row, log, posted, answer>>

(* The owner takes the queued job; one queued behind a close is refused.   *)
TakeJob(i) ==
  /\ tx[i].owner = "ready" /\ ~tx[i].cancelled
  /\ tx[i].job = "asked" /\ ~tx[i].final
  /\ tx' = [tx EXCEPT ![i].job = IF tx[i].closed THEN "none" ELSE "running"]
  /\ UNCHANGED <<call, srv, row, log, posted, answer>>

(* The job's SQL answers, perhaps with a conflict that closes the attempt. *)
JobEnds(i) ==
  /\ tx[i].job = "running" /\ ~tx[i].cancelled
  /\ \E conflict \in BOOLEAN :
       tx' = [tx EXCEPT ![i].job = "none",
                        ![i].conflict = @ \/ conflict,
                        ![i].closed = @ \/ conflict]
  /\ UNCHANGED <<call, srv, row, log, posted, answer>>

(* With the final reply set and the queue drained, the key row is sent.    *)
Save(i) ==
  /\ tx[i].owner = "ready" /\ ~tx[i].cancelled
  /\ tx[i].final /\ tx[i].job = "none"
  /\ IF tx[i].conflict THEN OwnerFails(i, "conflict")
     ELSE tx' = [tx EXCEPT ![i].owner = "saving"]
  /\ UNCHANGED <<call, srv, row, log, posted, answer>>

(* Mutant: the key's row is written over another's.                        *)
InsertKeyUpserts(i) ==
  /\ tx[i].owner = "saving" /\ srv[i] = "open"
  /\ ~KeyLocked(i)
  /\ srv' = [srv EXCEPT ![i] = "keyed"]
  /\ UNCHANGED <<call, tx, row, log, posted, answer>>

(* The database takes the key row once no other transaction holds it.      *)
InsertKey(i) ==
  /\ tx[i].owner = "saving" /\ srv[i] = "open"
  /\ ~KeyLocked(i) /\ row = None
  /\ srv' = [srv EXCEPT ![i] = "keyed"]
  /\ UNCHANGED <<call, tx, row, log, posted, answer>>

(* The row is in: COMMIT is sent, and its fate is unknown until answered.  *)
SendCommit(i) ==
  /\ tx[i].owner = "saving" /\ ~tx[i].cancelled /\ srv[i] = "keyed"
  /\ tx' = [tx EXCEPT ![i].owner = "committing", ![i].unknown = TRUE]
  /\ srv' = [srv EXCEPT ![i] = "sent"]
  /\ UNCHANGED <<call, row, log, posted, answer>>

(* The insert fails: the key is another's, the snapshot conflicts, or the  *)
(* connection is gone.                                                     *)
SaveFails(i) ==
  /\ tx[i].owner = "saving" /\ ~tx[i].cancelled
  /\ \/ /\ row # None /\ srv[i] = "open"
        /\ OwnerFails(i, "keyrace")
     \/ OwnerFails(i, "conflict")
     \/ OwnerFails(i, "refused")
  /\ UNCHANGED <<call, srv, row, log, posted, answer>>

(* COMMIT is acknowledged: the reply is authoritative from here.           *)
CommitAcked(i) ==
  /\ tx[i].owner = "committing" /\ ~tx[i].cancelled /\ srv[i] = "committed"
  /\ OwnerEnds(i, [tx[i] EXCEPT !.owner = "closing", !.unknown = FALSE,
                                !.committed = TRUE], "ok")
  /\ UNCHANGED <<srv, row, log, posted, answer>>

(* COMMIT is rejected or answers ROLLBACK: nothing is left to undo.  A key *)
(* is found taken when its row is inserted, never by the COMMIT after it.  *)
CommitRejected(i) ==
  /\ tx[i].owner = "committing" /\ ~tx[i].cancelled /\ srv[i] = "aborted"
  /\ \E why \in {"refused", "conflict"} :
       OwnerEnds(i, [tx[i] EXCEPT !.owner = "closing", !.unknown = FALSE], why)
  /\ UNCHANGED <<srv, row, log, posted, answer>>

(* The answer to COMMIT is lost.                                           *)
CommitUnknown(i) ==
  /\ tx[i].owner = "committing" /\ ~tx[i].cancelled
  /\ OwnerFails(i, "refused")
  /\ UNCHANGED <<call, srv, row, log, posted, answer>>

(* The interrupted owner gives up what it was doing.                       *)
OwnerInterrupted(i) ==
  /\ tx[i].cancelled /\ tx[i].owner \in {"ready", "saving", "committing"}
  /\ OwnerFails(i, "refused")
  /\ UNCHANGED <<call, srv, row, log, posted, answer>>

(* rollback, before the failure reaches whoever awaits it: a transaction   *)
(* of unknown fate, or whose ROLLBACK fails as it does on a connection     *)
(* destroyed before, is destroyed.                                         *)
Rollback(i) ==
  /\ tx[i].owner = "rolling"
  /\ \/ /\ ~tx[i].unknown /\ ~tx[i].destroyed
        /\ OwnerEnds(i, [tx[i] EXCEPT !.owner = "ended", !.fail = "none"], tx[i].fail)
        /\ srv' = [srv EXCEPT ![i] = "aborted"]
     \/ /\ OwnerEnds(i, [tx[i] EXCEPT !.owner = "ended", !.fail = "none",
                                !.unknown = TRUE, !.destroyed = TRUE], tx[i].fail)
        /\ UNCHANGED srv
  /\ UNCHANGED <<row, log, posted, answer>>

(* A decided transaction's lease is released.                              *)
Release(i) ==
  /\ tx[i].owner = "closing"
  /\ tx' = [tx EXCEPT ![i].owner = "ended"]
  /\ UNCHANGED <<call, srv, row, log, posted, answer>>

-----------------------------------------------------------------------------
(* The company's database, which no host's death stops *)

(* BEGIN is taken, perhaps when its sender no longer waits for the answer. *)
Begun(i) ==
  /\ tx[i].owner \in Opening /\ srv[i] = "none"
  /\ srv' = [srv EXCEPT ![i] = "open"]
  /\ UNCHANGED <<call, tx, row, log, posted, answer>>

Commits(i) ==
  /\ srv[i] = "sent"
  /\ srv' = [srv EXCEPT ![i] = "committed"]
  /\ row' = i
  /\ UNCHANGED <<call, tx, log, posted, answer>>

(* A conflict, a timeout of the transaction or a lost connection.          *)
Aborts(i) ==
  /\ srv[i] \in {"open", "keyed", "sent"}
  /\ srv' = [srv EXCEPT ![i] = "aborted"]
  /\ UNCHANGED <<call, tx, row, log, posted, answer>>

-----------------------------------------------------------------------------
(* The deadline, settlement and the answer *)

Working(i) == call[i].pc \notin Stopped \cup {"idle"}

DeadlinePasses(i) ==
  /\ call[i].pc \in Dispatching \cup {"settling"} /\ ~call[i].late
  /\ call' = [call EXCEPT ![i].late = TRUE]
  /\ UNCHANGED <<tx, srv, row, log, posted, answer>>

(* The capability's own timer, or the first callback past the deadline.    *)
Fence(i) ==
  /\ call[i].late /\ call[i].cap = "live"
  /\ tx' = [tx EXCEPT ![i] = Cancelled(tx[i])]
  /\ call' = [call EXCEPT ![i].cap = "fenced"]
  /\ UNCHANGED <<srv, row, log, posted, answer>>

(* The deadline wins the race, and the dispatch is interrupted where it    *)
(* stands.  A journal insert in flight may land all the same.              *)
DeadlineWins(i) ==
  /\ call[i].pc \in Dispatching /\ call[i].late
  /\ EndsWith(i, "timeout", tx[i])
  /\ \/ UNCHANGED log
     \/ /\ call[i].pc = "begin"
        /\ log' = [log EXCEPT ![i].outcome = "pending"]
  /\ UNCHANGED <<srv, row, posted, answer>>

(* settle waits for the owner within the cleanup bound.  The attempt's     *)
(* conflict was seen by a callback, or in the dispatch's end.              *)
Conflicted(i) == tx[i].conflict \/ call[i].end = "conflict"

MayRetry(c) == c.tries < MaxAttempts /\ ~c.late

(* What a settled attempt comes to: its acknowledged commit first; then    *)
(* the key, read again, for what may have committed here or elsewhere;     *)
(* then another attempt; then the dispatch's own end.                      *)
Judged(i, uncertain) ==
  LET c == [call[i] EXCEPT !.uncertain = uncertain]
      again == [c EXCEPT !.pc = "lookup", !.cap = "none", !.end = "none"]
      over(pc, end) == [NewCall EXCEPT !.pc = pc, !.end = end,
                          !.uncertain = uncertain, !.stored = c.stored,
                          !.logged = c.logged]
      judge(end) == over("finishing", end)
  IN IF tx[i].committed THEN judge("ok")
     ELSE IF uncertain \/ c.end \in {"keyrace", "timeout"}
          THEN over("resolving", c.end)
     ELSE IF Conflicted(i)
          THEN IF MayRetry(c) THEN again ELSE judge("refused")
     ELSE IF c.end = "rebind" THEN [again EXCEPT !.tries = @ - 1]
     ELSE judge(c.end)

(* A retry starts from a new capability and a new transaction.             *)
Retries(i) == call'[i].pc = "lookup"

Settled(i) ==
  /\ call[i].pc = "settling" /\ OwnerSettled(i)
  /\ call' = [call EXCEPT ![i] = Judged(i, tx[i].unknown)]
  /\ tx' = IF Retries(i) THEN [tx EXCEPT ![i] = NewTx] ELSE tx
  /\ srv' = IF Retries(i) THEN [srv EXCEPT ![i] = "none"] ELSE srv
  /\ UNCHANGED <<row, log, posted, answer>>

(* Mutant: what was destroyed at the bound counts as never committed.      *)
SettleGivesUpSure(i) ==
  /\ call[i].pc = "settling" /\ ~OwnerSettled(i)
  /\ tx' = [tx EXCEPT ![i] = Destroyed(@)]
  /\ call' = [call EXCEPT ![i] = Judged(i, FALSE)]
  /\ UNCHANGED <<srv, row, log, posted, answer>>

(* Mutant: at the bound the owner is cancelled once more, and left.        *)
SettleGivesUpOpen(i) ==
  /\ call[i].pc = "settling" /\ ~OwnerSettled(i)
  /\ tx' = [tx EXCEPT ![i] = Cancelled(@)]
  /\ call' = [call EXCEPT ![i] = Judged(i, TRUE)]
  /\ UNCHANGED <<srv, row, log, posted, answer>>

(* The bound passes first, for the resource, which is then destroyed, or   *)
(* for a callback that still runs: the fate is unknown.                    *)
SettleGivesUp(i) ==
  /\ call[i].pc = "settling"
  /\ tx' = IF OwnerSettled(i) THEN tx ELSE [tx EXCEPT ![i] = Destroyed(tx[i])]
  /\ call' = [call EXCEPT ![i] = Judged(i, TRUE)]
  /\ UNCHANGED <<srv, row, log, posted, answer>>

(* The key is read until the settlement deadline: a row proves a commit,   *)
(* nothing read proves nothing, and after a lost key race, whose commit    *)
(* was never sent, a failed read is the answer.                            *)
Resolve(i) ==
  /\ call[i].pc = "resolving"
  /\ \/ /\ row # None
        /\ call' = [call EXCEPT ![i].pc = "finishing", ![i].end = "stored",
                                ![i].stored = row]
     \/ call' = [call EXCEPT ![i].pc = "finishing",
                   ![i].end = IF call[i].uncertain THEN "unknown"
                              ELSE IF @ = "timeout" THEN "timeout" ELSE "refused"]
     \/ /\ call[i].end = "keyrace"
        /\ call' = [call EXCEPT ![i].pc = "finishing", ![i].end = "refused"]
  /\ UNCHANGED <<tx, srv, row, log, posted, answer>>

(* A stored outcome proves the call that committed it, whose log row may   *)
(* still be open: the proof is written by the deadline, or not at all.     *)
Reconciled(i) ==
  \/ UNCHANGED log
  \/ /\ call[i].stored # None
     /\ log[call[i].stored].outcome \in {"pending", "unknown_outcome"}
     /\ log' = [log EXCEPT ![call[i].stored] =
                  [committed |-> TRUE,
                   outcome |-> IF @.outcome = "pending" THEN "pending"
                               ELSE "success"]]

(* reconcileMutation, then finish: the outcome is sent to the journal,     *)
(* unless the call has no row there.                                       *)
Finish(i) ==
  /\ call[i].pc = "finishing"
  /\ Reconciled(i)
  /\ IF call[i].logged
     THEN /\ posted' = [posted EXCEPT ![i] = @ \cup {Outcome(i)}]
          /\ call' = [call EXCEPT ![i].pc = "awaiting"]
          /\ UNCHANGED answer
     ELSE /\ answer' = [answer EXCEPT ![i] = Reply(i)]
          /\ call' = [call EXCEPT ![i] = Gone("done")]
          /\ UNCHANGED posted
  /\ UNCHANGED <<tx, srv, row>>

(* What one journal write of an outcome does to the call's row.            *)
Finished(l, outcome) ==
  IF \/ l.outcome = "pending"
     \/ l.outcome = "unknown_outcome" /\ outcome \in {"success", "failure"}
  THEN [l EXCEPT !.outcome = IF l.committed THEN "success" ELSE outcome]
  ELSE l

(* A journal write reaches the database, in time for the answer or not.    *)
JournalLands(i, outcome) ==
  /\ outcome \in posted[i]
  /\ log' = [log EXCEPT ![i] = Finished(@, outcome)]
  /\ posted' = [posted EXCEPT ![i] = @ \ {outcome}]
  /\ IF call[i].pc = "awaiting"
     THEN /\ call' = [call EXCEPT ![i] = Gone("done")]
          /\ answer' = [answer EXCEPT ![i] = Reply(i)]
     ELSE UNCHANGED <<call, answer>>
  /\ UNCHANGED <<tx, srv, row>>

(* The journal fails, or is silent until the settlement deadline; what was *)
(* sent may land later, or never.                                          *)
FinishGivesUp(i) ==
  /\ call[i].pc = "awaiting"
  /\ call' = [call EXCEPT ![i] = Gone("done")]
  /\ answer' = [answer EXCEPT ![i] = [tag |-> "unknown"]]
  /\ UNCHANGED <<tx, srv, row, log, posted>>

-----------------------------------------------------------------------------
(* Hosts that stop *)

(* The service's scope closes: the call's fiber is interrupted, and its    *)
(* finaliser ends the capability.                                          *)
Shutdown(i) ==
  /\ Working(i) /\ call[i].pc # "stopping"
  /\ call' = [call EXCEPT ![i] = [Gone("stopping") EXCEPT !.logged = call[i].logged]]
  /\ tx' = [tx EXCEPT ![i] = Fenced(i)]
  /\ UNCHANGED <<srv, row, log, posted, answer>>

(* It settles within the cleanup bound and writes an unknown outcome.      *)
Halt(i) ==
  /\ call[i].pc = "stopping"
  /\ \/ OwnerSettled(i) /\ UNCHANGED tx
     \/ ~OwnerSettled(i) /\ tx' = [tx EXCEPT ![i] = Destroyed(tx[i])]
  /\ call' = [call EXCEPT ![i] = Gone("halted")]
  /\ posted' = IF call[i].logged
               THEN [posted EXCEPT ![i] = @ \cup {"unknown_outcome"}] ELSE posted
  /\ UNCHANGED <<srv, row, log, answer>>

(* The host dies with everything it held; what it sent is not taken back.  *)
Crash(i) ==
  /\ Working(i)
  /\ call' = [call EXCEPT ![i] = Gone("dead")]
  /\ tx' = [tx EXCEPT ![i] = [NewTx EXCEPT !.owner = "ended", !.closed = TRUE,
                                           !.destroyed = TRUE]]
  /\ UNCHANGED <<srv, row, log, posted, answer>>

-----------------------------------------------------------------------------
Next ==
  \E i \in Calls :
    \/ Arrive(i) \/ Begin(i) \/ FindsCommit(i) \/ Invoke(i) \/ NotInvoked(i)
    \/ Callback(i) \/ NeverRan(i) \/ ExecutorFails(i) \/ GuestFails(i)
    \/ GuestReturns(i)
    \/ Begun(i) \/ Open(i) \/ OpenFails(i) \/ Unopen(i)
    \/ TakeJob(i) \/ JobEnds(i) \/ Save(i) \/ InsertKey(i)
    \/ SendCommit(i) \/ SaveFails(i) \/ CommitAcked(i) \/ CommitRejected(i)
    \/ CommitUnknown(i) \/ OwnerInterrupted(i) \/ Rollback(i) \/ Release(i)
    \/ Commits(i) \/ Aborts(i)
    \/ DeadlinePasses(i) \/ Fence(i) \/ DeadlineWins(i)
    \/ Settled(i) \/ SettleGivesUp(i) \/ Resolve(i) \/ Finish(i)
    \/ FinishGivesUp(i)
    \/ \E o \in Outcomes : JournalLands(i, o)
    \/ Shutdown(i) \/ Halt(i) \/ Crash(i)

Spec == Init /\ [][Next]_vars

-----------------------------------------------------------------------------
(* Properties *)

(* What a mutation key promises: one commit, reported by every success and *)
(* never denied to the call that made it, however late it is made.         *)
Key == INSTANCE MutationKey WITH winner <- row
KeyPromise == Key!Spec

(* What the log says of a call: the commit's proof wins over its outcome.  *)
Reading(i) == IF log[i].committed THEN "success" ELSE log[i].outcome

(* The invocation log never contradicts the company's database: the call   *)
(* that committed never reads as failed or timed out, a call reads as a    *)
(* success only if the key's commit exists, and only the committer is      *)
(* marked as such.                                                         *)
LogAgrees ==
  \A i \in Calls :
    /\ row = i => Reading(i) \notin {"failure", "handler_timeout"}
    /\ Reading(i) = "success" => row # None
    /\ log[i].committed => row = i

(* A call past its settlement leaves no transaction behind on a live       *)
(* connection: a dropped browser or a stuck database leaves no idle        *)
(* transaction and no held key.  Only an owner that was still opening may  *)
(* have one, which it was told to give up and holds no key.                *)
PastSettlement(i) ==
  call[i].pc \in Stopped \cup {"resolving", "finishing", "awaiting"}

NothingLeftOpen ==
  \A i \in Calls :
    PastSettlement(i) /\ srv[i] \in {"open", "keyed"}
      => tx[i].destroyed \/ (tx[i].owner \in Opening /\ tx[i].cancelled)
=============================================================================
