--------------------------- MODULE Subscriptions ----------------------------
(***************************************************************************)
(* The subscriptions of one document: packages/runtime/src/                *)
(* Subscriptions.ts.  A query's result is sent when a run has read it, and *)
(* run again when a wake names what it depends on, when the client asks    *)
(* again (`replace`), on an interval, or when a dev session swaps its      *)
(* handlers.  A run awaits its checks, a fence of revisions, the read and  *)
(* sometimes a second fence, and wakes, replaces, swaps and departures     *)
(* come between.  Wakes are notifications: they may come late, or never.   *)
(*                                                                         *)
(* The company's data is a revision for each key.  What a query reads may  *)
(* depend on what it finds (Depends), and a result is told apart by the    *)
(* parity of the revisions read, so that some writes change nothing of it. *)
(***************************************************************************)
EXTENDS Integers, FiniteSets, Sequences, Functions

CONSTANTS
  Subs,          \* the document's subscription ids
  Keys,          \* what queries depend on
  Depends(_),    \* the keys a query reads, given the revisions
  None,
  Slots,         \* subscriptions.reruns.company
  MaxWrites,     \* bound on all writes together
  MaxCode        \* bound on handler swaps

ASSUME SubscriptionsAssumption ==
  /\ Slots \in Nat \ {0} /\ MaxWrites \in Nat /\ MaxCode \in Nat
  /\ IsFiniteSet(Subs) /\ IsFiniteSet(Keys) /\ None \notin Subs

VARIABLES
  rev,     \* the committed revision of each key
  code,    \* the handlers bound now
  wakes,   \* keys written whose wake is on its way
  ready,   \* the document may run queries
  sub,     \* the server's entry of each subscription, its run included
  order,   \* the entries in the order the pump takes them
  used,    \* slots taken
  ghosts,  \* runs of entries that are gone
  view,    \* what the client has once it has received all that was sent
  behind,  \* what it has, if it has not, or None
  request  \* the revisions when each client request still unanswered was admitted

vars == <<rev, code, wakes, ready, sub, order, used, ghosts, view, behind, request>>

-----------------------------------------------------------------------------
(* State *)

Revisions == 0..MaxWrites
Vectors == UNION {[D -> Revisions] : D \in SUBSET Keys}
Results == (UNION {[D -> {0, 1}] : D \in SUBSET Keys}) \X (0..MaxCode)

Phases == {"idle", "checking", "matched", "reading", "observing", "read",
           "verifying", "verified"}

(* A run's own: the keys its fence asks for, the fence, the vector it read,*)
(* the handlers it read with, the keys woken during it, whether a replace  *)
(* or a swap has come that its answer would not cover, and whether a       *)
(* replace awaits its answer (replacedAt).                                 *)
Sub == [present : BOOLEAN, dirty : BOOLEAN, backoff : BOOLEAN, failed : BOOLEAN,
        deps : SUBSET Keys, vector : Vectors \cup {None},
        result : Results \cup {None},
        phase : Phases, asked : SUBSET Keys, fence : Vectors \cup {None},
        read : Vectors \cup {None}, code : 0..MaxCode,
        woken : SUBSET Keys, replaced : BOOLEAN, swapped : BOOLEAN, owed : BOOLEAN]

(* `lost` are the keys whose wake never came; `refused` the vector a query *)
(* refused its last read at.                                               *)
View == [vector : Vectors \cup {None}, result : Results \cup {None},
         refused : Vectors \cup {None}, lost : SUBSET Keys]

Held == [vector : Vectors \cup {None}, result : Results \cup {None}]

(* A query's keys follow from what it finds under them.                    *)
ASSUME DependsAssumption ==
  \A r \in [Keys -> Revisions] :
    /\ Depends(r) \subseteq Keys
    /\ \A q \in [Keys -> Revisions] :
         (\A k \in Depends(r) : q[k] = r[k]) => Depends(q) = Depends(r)

ASSUME NoneAssumption == None \notin Vectors \cup Results \cup Held

TypeOK ==
  /\ rev \in [Keys -> Revisions] /\ code \in 0..MaxCode
  /\ wakes \subseteq Keys /\ ready \in BOOLEAN
  /\ sub \in [Subs -> Sub]
  /\ order \in Seq(Subs) /\ Range(order) = {s \in Subs : sub[s].present}
  /\ IsInjective(order)
  /\ used \in 0..Slots /\ ghosts \in Nat
  /\ used = ghosts + Cardinality({s \in Subs : sub[s].phase # "idle"})
  /\ view \in [Subs -> View] /\ behind \in [Subs -> Held \cup {None}]
  /\ request \in [Subs -> [Keys -> Revisions] \cup {None}]

Absent == [present |-> FALSE, dirty |-> FALSE, backoff |-> FALSE, failed |-> FALSE,
           deps |-> {}, vector |-> None, result |-> None,
           phase |-> "idle", asked |-> {}, fence |-> None, read |-> None, code |-> 0,
           woken |-> {}, replaced |-> FALSE, swapped |-> FALSE, owed |-> FALSE]

Init ==
  /\ rev = [k \in Keys |-> 0] /\ code = 0
  /\ wakes = {} /\ ready = FALSE
  /\ sub = [s \in Subs |-> Absent] /\ order = <<>>
  /\ used = 0 /\ ghosts = 0
  /\ view = [s \in Subs |-> [vector |-> None, result |-> None, refused |-> None,
                             lost |-> {}]]
  /\ behind = [s \in Subs |-> None]
  /\ request = [s \in Subs |-> None]

Running(s) == sub[s].phase # "idle"
Result(v, c) == <<[k \in DOMAIN v |-> v[k] % 2], c>>
Now(keys) == Restrict(rev, keys)

-----------------------------------------------------------------------------
(* The company's data and its wakes *)

Written == {w \in Keys \X (1..MaxWrites) : w[2] <= rev[w[1]]}

Write(k) ==
  /\ Cardinality(Written) < MaxWrites
  /\ rev' = [rev EXCEPT ![k] = @ + 1]
  /\ wakes' = wakes \cup {k}
  /\ UNCHANGED <<code, ready, sub, order, used, ghosts, view, behind, request>>

(* Mutant: a wake during a run is kept only if it is known to matter.      *)
WokenIfKnown(r, k) ==
  [r EXCEPT !.woken = @ \cup ({k} \cap r.deps),
            !.dirty = @ \/ k \in r.deps,
            !.backoff = @ /\ k \notin r.deps]

(* reconcile("invalidation", keys): recorded during a run, whose result    *)
(* decides whether the key matters; dirty at once if it is known to.       *)
Woken(r, k) ==
  [r EXCEPT !.woken = IF r.phase = "idle" THEN @ ELSE @ \cup {k},
            !.dirty = @ \/ k \in r.deps,
            !.backoff = @ /\ k \notin r.deps]

Wake(k) ==
  /\ k \in wakes
  /\ wakes' = wakes \ {k}
  /\ sub' = [s \in Subs |-> IF sub[s].present THEN Woken(sub[s], k) ELSE sub[s]]
  /\ view' = [s \in Subs |-> [view[s] EXCEPT !.lost = @ \ {k}]]
  /\ UNCHANGED <<rev, code, ready, order, used, ghosts, behind, request>>

WakeLost(k) ==
  /\ k \in wakes
  /\ wakes' = wakes \ {k}
  /\ view' = [s \in Subs |-> [view[s] EXCEPT !.lost = @ \cup {k}]]
  /\ UNCHANGED <<rev, code, ready, sub, order, used, ghosts, behind, request>>

(* reconcile without keys, on the interval and when execution is ready.    *)
Reconcile ==
  /\ ready' = TRUE
  /\ sub' = [s \in Subs |->
               IF sub[s].present THEN [sub[s] EXCEPT !.dirty = TRUE, !.backoff = FALSE]
               ELSE sub[s]]
  /\ view' = [s \in Subs |-> [view[s] EXCEPT !.lost = {}]]
  /\ UNCHANGED <<rev, code, wakes, order, used, ghosts, behind, request>>

-----------------------------------------------------------------------------
(* The desired set *)

(* What the client last received, which its requests carry.                *)
HeldIn(v) == [vector |-> v.vector, result |-> v.result]
Has(s) == IF behind[s] = None THEN HeldIn(view[s]) ELSE behind[s]

Received(s) ==
  /\ behind[s] # None
  /\ behind' = [behind EXCEPT ![s] = None]
  /\ UNCHANGED <<rev, code, wakes, ready, sub, order, used, ghosts, view, request>>

(* A new entry resumes from the client's vector, and holds no result.      *)
Subscribe(s) ==
  /\ ~sub[s].present /\ behind[s] = None
  /\ sub' = [sub EXCEPT ![s] = [Absent EXCEPT !.present = TRUE, !.dirty = TRUE,
                                              !.vector = view[s].vector]]
  /\ order' = Append(order, s)
  /\ request' = [request EXCEPT ![s] = rev]
  /\ view' = [view EXCEPT ![s].lost = {}]
  /\ UNCHANGED <<rev, code, wakes, ready, used, ghosts, behind>>

(* A replace that repeats the subscription.  The vector received counts,   *)
(* not the last one sent; a run goes on, and answers it or runs again.     *)
Replaced(s) ==
  [sub[s] EXCEPT !.vector = Has(s).vector,
                 !.result = IF Has(s).result = view[s].result THEN @ ELSE None,
                 !.replaced = Running(s), !.owed = Running(s),
                 !.dirty = @ \/ ~Running(s), !.backoff = FALSE]

Replace(s) ==
  /\ sub[s].present
  /\ sub' = [sub EXCEPT ![s] = Replaced(s)]
  /\ request' = [request EXCEPT ![s] = rev]
  /\ view' = [view EXCEPT ![s].lost = {}]
  /\ UNCHANGED <<rev, code, wakes, ready, order, used, ghosts, behind>>

Place(s) == CHOOSE i \in DOMAIN order : order[i] = s
Without(s) == [i \in 1..(Len(order) - 1) |-> order[IF i < Place(s) THEN i ELSE i + 1]]

Departs(s) ==
  /\ sub[s].present
  /\ sub' = [sub EXCEPT ![s] = Absent]
  /\ order' = Without(s)
  /\ ghosts' = ghosts + IF Running(s) THEN 1 ELSE 0
  /\ request' = [request EXCEPT ![s] = None]
  /\ view' = [view EXCEPT ![s].vector = Has(s).vector, ![s].result = Has(s).result]
  /\ behind' = [behind EXCEPT ![s] = None]
  /\ UNCHANGED <<rev, code, wakes, ready>>

(* Mutant: a departure frees the slot of the run it leaves behind.         *)
LeaveFreesSlot(s) ==
  Departs(s) /\ used' = used - IF Running(s) THEN 1 ELSE 0

(* The entry goes: unsubscribed, refused, or its document closed, and what *)
(* was on its way to the client with it.  A run keeps its slot until it    *)
(* settles.                                                                *)
Leave(s) == Departs(s) /\ UNCHANGED used

GhostEnds ==
  /\ ghosts > 0
  /\ ghosts' = ghosts - 1 /\ used' = used - 1
  /\ UNCHANGED <<rev, code, wakes, ready, sub, order, view, behind, request>>

(* rebind: the handlers are swapped, and no run begun before may answer.   *)
Rebind ==
  /\ code < MaxCode
  /\ code' = code + 1
  /\ sub' = [s \in Subs |->
               IF sub[s].present
               THEN [sub[s] EXCEPT !.swapped = Running(s), !.vector = None,
                                   !.dirty = TRUE, !.backoff = FALSE]
               ELSE sub[s]]
  /\ request' = [s \in Subs |-> IF sub[s].present THEN rev ELSE request[s]]
  /\ UNCHANGED <<rev, wakes, ready, order, used, ghosts, view, behind>>

-----------------------------------------------------------------------------
(* The pump and a run's steps *)

(* Mutant: one that was refused waits although it was woken.               *)
EligibleUnfailed(s) ==
  ready /\ sub[s].dirty /\ ~Running(s) /\ ~sub[s].backoff /\ ~sub[s].failed

Eligible(s) == ready /\ sub[s].dirty /\ ~Running(s) /\ ~sub[s].backoff

(* A run asks a fence for what the entry is known to depend on.            *)
Started(s) ==
  [sub[s] EXCEPT !.phase = "checking", !.dirty = FALSE, !.backoff = FALSE,
                 !.asked = sub[s].deps \cup
                   IF sub[s].vector = None THEN {} ELSE DOMAIN sub[s].vector]

(* The pump: the first entry that may run takes a slot.                    *)
Start(s) ==
  /\ used < Slots
  /\ \E i \in DOMAIN order :
       /\ order[i] = s /\ Eligible(s)
       /\ \A j \in 1..(i - 1) : ~Eligible(order[j])
  /\ used' = used + 1
  /\ sub' = [sub EXCEPT ![s] = Started(s)]
  /\ UNCHANGED <<rev, code, wakes, ready, order, ghosts, view, behind, request>>

Answerable(s) == ~sub[s].replaced /\ ~sub[s].swapped

(* A run's end: its slot is free, what it did not cover runs again, and    *)
(* the entry goes behind the others.                                       *)
Over(r) ==
  [r EXCEPT !.phase = "idle", !.asked = {}, !.fence = None, !.read = None, !.code = 0,
            !.dirty = @ \/ r.owed \/ r.woken \cap r.deps # {},
            !.woken = {}, !.replaced = FALSE, !.swapped = FALSE, !.owed = FALSE]

Rotated(s) == Append(Without(s), s)

EndsRun(s, r) ==
  /\ sub' = [sub EXCEPT ![s] = Over(r)]
  /\ order' = Rotated(s)
  /\ used' = used - 1
  /\ UNCHANGED <<rev, code, wakes, ready, ghosts>>

(* A frame is sent: it answers the requests the run covers.                *)
Sends(s, v) ==
  /\ view' = [view EXCEPT ![s] = v]
  /\ behind' = [behind EXCEPT ![s] = IF Has(s) = HeldIn(v) THEN None ELSE Has(s)]
  /\ request' = [request EXCEPT ![s] = None]

SendsNothing == UNCHANGED <<view, behind, request>>

(* The run may no longer answer, or fails when it may not: discarded.      *)
Discard(s) ==
  /\ Running(s) /\ ~Answerable(s)
  /\ EndsRun(s, sub[s]) /\ SendsNothing

Step(s, from, to) ==
  /\ sub[s].phase = from
  /\ sub' = [sub EXCEPT ![s] = to]
  /\ SendsNothing
  /\ UNCHANGED <<rev, code, wakes, ready, order, used, ghosts>>

(* The check passes, on the handlers bound now, the fence is taken, and no *)
(* replace or swap has come meanwhile.                                     *)
(* (Revisions only grow: a later read always reaches it.)                  *)
TakeFence(s) ==
  LET fence == Now(sub[s].asked)
      known == ~sub[s].failed /\ sub[s].vector = fence
  IN /\ Answerable(s)
     /\ Step(s, "checking",
          [sub[s] EXCEPT !.code = code, !.asked = {},
             !.phase = IF known THEN "matched" ELSE "reading",
             !.fence = IF known THEN fence ELSE None])

(* Mutant: the answer names the revisions of after the second check.       *)
UpToDateNow(s) ==
  /\ sub[s].phase = "matched" /\ Answerable(s)
  /\ EndsRun(s, [sub[s] EXCEPT !.deps = DOMAIN sub[s].fence, !.owed = FALSE])
  /\ Sends(s, [view[s] EXCEPT !.vector = Now(DOMAIN sub[s].fence), !.refused = None])

(* The client's vector is the fence, and the second check passes.          *)
UpToDate(s) ==
  /\ sub[s].phase = "matched" /\ Answerable(s)
  /\ EndsRun(s, [sub[s] EXCEPT !.deps = DOMAIN sub[s].fence, !.owed = FALSE])
  /\ Sends(s, [view[s] EXCEPT !.vector = sub[s].fence, !.refused = None])

(* The read's snapshot, then its dependencies become known.                *)
Snapshot(s) ==
  Step(s, "reading", [sub[s] EXCEPT !.phase = "observing", !.read = Now(Depends(rev))])

Observe(s) ==
  Step(s, "observing", [sub[s] EXCEPT !.phase = "read", !.deps = @ \cup DOMAIN sub[s].read])

(* A replace came during the run: a fence taken from here on must match.   *)
Verify(s) ==
  /\ sub[s].replaced
  /\ Step(s, "read", [sub[s] EXCEPT !.phase = "verifying", !.replaced = FALSE])

(* Mutant: a read that a replace came into is sent as it is.               *)
MatchesUnchecked(s) == TRUE

(* What was read is still so.                                              *)
Matches(s) == sub[s].read = Now(DOMAIN sub[s].read)

VerifyFence(s) ==
  /\ Step(s, "verifying", [sub[s] EXCEPT !.phase = "verified"])
  /\ Matches(s)

VerifyFails(s) ==
  /\ sub[s].phase = "verifying" /\ ~Matches(s)
  /\ EndsRun(s, sub[s]) /\ SendsNothing

(* The result of the read may be sent: no replace or swap is uncovered.    *)
Deliverable(s) ==
  /\ sub[s].phase \in {"read", "verified"}
  /\ Answerable(s)

(* The snapshot is sent, or only its vector if the result is the same.     *)
Deliver(s) ==
  /\ Deliverable(s)
  /\ LET v == sub[s].read
         result == Result(v, sub[s].code)
     IN /\ EndsRun(s, [sub[s] EXCEPT !.deps = DOMAIN v, !.vector = v,
                         !.result = result, !.failed = FALSE, !.backoff = FALSE,
                         !.owed = FALSE])
        /\ Sends(s, [view[s] EXCEPT !.vector = v, !.refused = None,
                       !.result = IF sub[s].result = result THEN @ ELSE result])

(* A failure that may pass is answered and retried after a while.          *)
Fails(s) ==
  /\ Running(s) /\ Answerable(s)
  /\ EndsRun(s, [sub[s] EXCEPT !.failed = TRUE, !.backoff = TRUE, !.dirty = TRUE,
                               !.owed = FALSE])
  /\ Sends(s, view[s])

(* The handler's own refusal is an answer, until what it read changes.     *)
Refuses(s) ==
  /\ sub[s].phase = "read" /\ Answerable(s)
  /\ EndsRun(s, [sub[s] EXCEPT !.failed = TRUE, !.owed = FALSE])
  /\ Sends(s, [view[s] EXCEPT !.refused = sub[s].read])

BackoffEnds(s) ==
  /\ sub[s].backoff
  /\ sub' = [sub EXCEPT ![s].backoff = FALSE]
  /\ SendsNothing
  /\ UNCHANGED <<rev, code, wakes, ready, order, used, ghosts>>

-----------------------------------------------------------------------------
Proceed(s) ==
  \/ Discard(s) \/ TakeFence(s) \/ UpToDate(s) \/ Snapshot(s) \/ Observe(s)
  \/ Verify(s) \/ VerifyFence(s) \/ VerifyFails(s) \/ Deliver(s)
  \/ Fails(s) \/ Refuses(s)

Next ==
  \/ \E k \in Keys : Write(k) \/ Wake(k) \/ WakeLost(k)
  \/ Reconcile \/ Rebind \/ GhostEnds
  \/ \E s \in Subs :
       \/ Subscribe(s) \/ Replace(s) \/ Leave(s) \/ Received(s)
       \/ Start(s) \/ BackoffEnds(s) \/ Proceed(s)

(* The pump, timers and the interval go on, and a run settles: its checks  *)
(* and reads have deadlines.                                               *)
Fairness ==
  /\ WF_vars(Reconcile) /\ WF_vars(GhostEnds)
  /\ \A s \in Subs : WF_vars(Start(s)) /\ WF_vars(Proceed(s)) /\ WF_vars(BackoffEnds(s))

Spec == Init /\ [][Next]_vars /\ Fairness

-----------------------------------------------------------------------------
(* Properties *)

(* What the client was last told: its result's vector, or a refusal's.     *)
Answer(s) == IF view[s].refused # None THEN view[s].refused ELSE view[s].vector

(* A client is never told something older than its question: what answers  *)
(* a subscribe, a replace or a handler swap was true when it was admitted  *)
(* or later, although a run begun before may be what answers it, because a *)
(* replace may be all that recovers a write whose wake was lost.  And no   *)
(* result read by the handlers before a swap is sent after it.             *)
AnswersCoverRequests ==
  [][\A s \in Subs :
       /\ request[s] # None /\ request'[s] = None /\ sub'[s].present /\ ~sub'[s].backoff
            => \A k \in DOMAIN Answer(s)' : Answer(s)'[k] >= request[s][k]
       /\ sub'[s].present /\ view'[s].result # view[s].result => view'[s].result[2] = code]_vars

(* What the client holds is one true state of the data: the result it was  *)
(* sent is the one its vector names, even when only the vector was sent.   *)
ResultMatchesVector ==
  \A s \in Subs :
    view[s].vector # None => view[s].result[1] = Result(view[s].vector, 0)[1]

(* No write is forgotten: a subscription at rest whose client has an old   *)
(* answer is about to be woken, or has lost exactly the wakes that would   *)
(* tell it, however they fell into its runs.                               *)
StaleIsDue ==
  \A s \in Subs :
    sub[s].present /\ ~Running(s) /\ ~sub[s].dirty =>
      /\ Answer(s) # None
      /\ \A k \in DOMAIN Answer(s) :
           Answer(s)[k] # rev[k] => k \in wakes \cup view[s].lost

(* Every subscription that waits to run gets its turn, although others are *)
(* woken, retried or asked again for ever and slots are few.               *)
EveryTurnComes ==
  \A s \in Subs : ready /\ sub[s].dirty ~> Running(s) \/ ~sub[s].present
=============================================================================
