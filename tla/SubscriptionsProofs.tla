------------------------- MODULE SubscriptionsProofs -------------------------
(***************************************************************************)
(* Theorems about Subscriptions, for any subscriptions, keys, queries,     *)
(* slots and writes: what a client is told is one state of the data, it is *)
(* no older than the question, and no write that changes it is forgotten.  *)
(***************************************************************************)
EXTENDS Subscriptions, TLAPS, FiniteSetTheorems

-----------------------------------------------------------------------------
(* The invariant. *)

StateTyped ==
  /\ rev \in [Keys -> Revisions] /\ code \in 0..MaxCode
  /\ wakes \subseteq Keys /\ ready \in BOOLEAN
  /\ sub \in [Subs -> Sub]
  /\ used \in 0..Slots /\ ghosts \in Nat
  /\ view \in [Subs -> View] /\ behind \in [Subs -> Held \cup {None}]
  /\ request \in [Subs -> [Keys -> Revisions] \cup {None}]

OrderHolds ==
  /\ order \in Seq(Subs) /\ Range(order) = {s \in Subs : sub[s].present}
  /\ IsInjective(order)

SlotsCounted ==
  used = ghosts + Cardinality({s \in Subs : sub[s].phase # "idle"})

ReadPhases == {"observing", "read", "verifying", "verified"}
SentPhases == {"observing", "read", "verified"}

(* What a run keeps of itself.  What came that it does not cover is owed,  *)
(* or the entry is dirty; with the handlers bound now it reads, unless     *)
(* they were swapped under it.                                             *)
RunTied(s) ==
  LET r == sub[s] IN
  /\ ~r.present => r = Absent /\ behind[s] = None
  /\ r.phase = "idle" => r.woken = {} /\ ~r.replaced /\ ~r.swapped /\ ~r.owed
  /\ r.replaced => r.owed
  /\ r.phase \in {"verifying", "verified"} => r.owed
  /\ r.swapped => r.dirty
  /\ r.phase = "matched" => r.fence # None
  /\ r.phase \in ReadPhases => r.read # None
  /\ r.phase \in {"read", "verifying", "verified"} => DOMAIN r.read \subseteq r.deps
  /\ r.phase \notin {"idle", "checking"} /\ ~r.swapped => r.code = code

(* What has changed since a vector was read is known, or will be: its wake *)
(* is on its way, came during the run, or is one that was lost.            *)
Due(s, v) ==
  \A k \in DOMAIN v : v[k] # rev[k] => k \in wakes \cup sub[s].woken \cup view[s].lost

(* The answer at rest, and what a run would answer with.                   *)
ChangesDue(s) ==
  LET r == sub[s] IN
  /\ r.present /\ r.phase = "idle" /\ ~r.dirty =>
       Answer(s) # None /\ DOMAIN Answer(s) \subseteq r.deps /\ Due(s, Answer(s))
  /\ r.phase = "matched" /\ ~r.replaced /\ ~r.dirty => Due(s, r.fence)
  /\ r.phase \in SentPhases /\ ~r.replaced /\ ~r.dirty => Due(s, r.read)

Reaches(v, w) == \A k \in DOMAIN v : v[k] >= w[k]

(* What a run would answer with is no older than the request it answers.   *)
Covers(s) ==
  LET r == sub[s] IN
  request[s] # None =>
    /\ \A k \in Keys : request[s][k] <= rev[k]
    /\ r.phase = "matched" /\ Answerable(s) => Reaches(r.fence, request[s])
    /\ r.phase \in SentPhases /\ Answerable(s) => Reaches(r.read, request[s])

(* A vector is what a query read once.  While none of it has changed, the  *)
(* query would read just that again.                                       *)
Current(v) == \A k \in DOMAIN v : v[k] = rev[k]

Snapped(v) ==
  v # None =>
    /\ DOMAIN v \subseteq Keys
    /\ \A k \in DOMAIN v : v[k] <= rev[k]
    /\ Current(v) => DOMAIN v = Depends(rev)

Older(v, w) == v # None /\ Current(v) => w = v

(* The entry's vector and the one received are none that the client's last *)
(* has overtaken and that could be the company's again, and what a run has *)
(* read is at least as new as that.                                        *)
VectorsInOrder(s) ==
  LET r == sub[s] IN
  /\ Snapped(view[s].vector) /\ Snapped(r.vector)
  /\ Older(r.vector, view[s].vector)
  /\ behind[s] # None => Snapped(behind[s].vector) /\ Older(behind[s].vector, view[s].vector)
  /\ r.phase \in ReadPhases => Snapped(r.read) /\ Older(view[s].vector, r.read)
  /\ r.phase = "matched" /\ Answerable(s) => r.fence = view[s].vector

Parity(v) == [k \in DOMAIN v |-> v[k] % 2]

Agree(h) == h.vector # None => h.result[1] = Parity(h.vector)

(* A result sent, received or kept by the entry goes with its vector.      *)
ResultsAgree(s) ==
  /\ Agree(view[s])
  /\ behind[s] # None => Agree(behind[s])
  /\ sub[s].result # None => view[s].result = sub[s].result

Entry(s) ==
  RunTied(s) /\ ChangesDue(s) /\ Covers(s) /\ VectorsInOrder(s) /\ ResultsAgree(s)

SubscriptionsInvariant ==
  /\ StateTyped /\ OrderHolds /\ SlotsCounted
  /\ \A s \in Subs : Entry(s)

-----------------------------------------------------------------------------
(* Vectors and results. *)

LEMMA VectorsAre ==
  ASSUME NEW v \in Vectors
  PROVE  /\ DOMAIN v \subseteq Keys
         /\ v \in [DOMAIN v -> Revisions]
         /\ \A k \in DOMAIN v : v[k] \in Revisions
         /\ v # None
<1>1. PICK D \in SUBSET Keys : v \in [D -> Revisions]
  BY DEF Vectors
<1> QED
  BY <1>1, NoneAssumption

LEMMA NowVector ==
  ASSUME StateTyped, NEW D \in SUBSET Keys
  PROVE  /\ Now(D) \in Vectors /\ Now(D) # None /\ DOMAIN Now(D) = D
         /\ \A k \in D : Now(D)[k] = rev[k]
<1>1. Now(D) = [k \in D |-> rev[k]]
  BY DEF Now, Restrict
<1>2. Now(D) \in [D -> Revisions]
  BY <1>1 DEF StateTyped
<1>3. Now(D) \in Vectors
  BY <1>2 DEF Vectors
<1> QED
  BY <1>1, <1>3, VectorsAre

LEMMA ResultTyped ==
  ASSUME NEW v \in Vectors, NEW c \in 0..MaxCode
  PROVE  /\ Result(v, c) \in Results /\ Result(v, c) # None
         /\ Result(v, c)[1] = Parity(v) /\ Result(v, c)[2] = c
<1>1. Parity(v) \in [DOMAIN v -> {0, 1}]
  <2> SUFFICES ASSUME NEW k \in DOMAIN v PROVE v[k] % 2 \in {0, 1}
    BY DEF Parity
  <2>1. v[k] \in Int
    BY VectorsAre, SubscriptionsAssumption DEF Revisions
  <2> QED
    BY <2>1
<1>2. Result(v, c) = <<Parity(v), c>>
  BY DEF Result, Parity
<1>3. DOMAIN v \in SUBSET Keys
  BY VectorsAre
<1>4. Parity(v) \in UNION {[D -> {0, 1}] : D \in SUBSET Keys}
  BY <1>1, <1>3
<1>5. Result(v, c) \in Results
  BY <1>2, <1>4 DEF Results
<1> QED
  BY <1>2, <1>5, NoneAssumption

LEMMA EntryTyped ==
  ASSUME StateTyped, NEW s \in Subs
  PROVE  /\ sub[s] \in Sub
         /\ sub[s].present \in BOOLEAN /\ sub[s].dirty \in BOOLEAN
         /\ sub[s].backoff \in BOOLEAN /\ sub[s].failed \in BOOLEAN
         /\ sub[s].deps \subseteq Keys /\ sub[s].vector \in Vectors \cup {None}
         /\ sub[s].result \in Results \cup {None} /\ sub[s].phase \in Phases
         /\ sub[s].asked \subseteq Keys /\ sub[s].fence \in Vectors \cup {None}
         /\ sub[s].read \in Vectors \cup {None} /\ sub[s].code \in 0..MaxCode
         /\ sub[s].woken \subseteq Keys /\ sub[s].replaced \in BOOLEAN
         /\ sub[s].swapped \in BOOLEAN /\ sub[s].owed \in BOOLEAN
         /\ view[s] \in View /\ view[s].vector \in Vectors \cup {None}
         /\ view[s].result \in Results \cup {None}
         /\ view[s].refused \in Vectors \cup {None} /\ view[s].lost \subseteq Keys
         /\ behind[s] # None => /\ behind[s] \in Held
                                /\ behind[s].vector \in Vectors \cup {None}
                                /\ behind[s].result \in Results \cup {None}
         /\ Has(s) \in Held
         /\ Has(s).vector = IF behind[s] = None THEN view[s].vector ELSE behind[s].vector
         /\ Has(s).result = IF behind[s] = None THEN view[s].result ELSE behind[s].result
<1>1. sub[s] \in Sub /\ view[s] \in View /\ behind[s] \in Held \cup {None}
  BY DEF StateTyped
<1>2. Has(s) = IF behind[s] = None THEN [vector |-> view[s].vector, result |-> view[s].result]
               ELSE behind[s]
  BY DEF Has, HeldIn
<1>3. view[s].vector \in Vectors \cup {None} /\ view[s].result \in Results \cup {None}
  BY <1>1 DEF View
<1>4. Has(s) \in Held
  BY <1>1, <1>2, <1>3 DEF Held
<1> QED
  BY <1>1, <1>2, <1>3, <1>4 DEF Sub, View, Held

LEMMA AbsentTyped == Absent \in Sub
  BY SubscriptionsAssumption DEF Absent, Sub, Phases

-----------------------------------------------------------------------------
(* The order of the pump without an entry. *)

LEMMA WithoutOne ==
  ASSUME OrderHolds, NEW s \in Subs, sub[s].present
  PROVE  /\ Without(s) \in Seq(Subs)
         /\ Range(Without(s)) = Range(order) \ {s}
         /\ IsInjective(Without(s))
<1> DEFINE p == Place(s)
           n == Len(order)
<1>1. order \in [1..n -> Subs] /\ n \in Nat /\ DOMAIN order = 1..n
  BY DEF OrderHolds
<1>2. \E i \in DOMAIN order : order[i] = s
  BY DEF OrderHolds, Range
<1>3. p \in 1..n /\ order[p] = s
  BY <1>1, <1>2 DEF Place
<1>4. \A i, j \in 1..n : order[i] = order[j] => i = j
  BY <1>1 DEF OrderHolds, IsInjective
<1> HIDE DEF p, n
<1>5. Without(s) = [i \in 1..(n - 1) |-> order[IF i < p THEN i ELSE i + 1]]
  BY DEF Without, p, n
<1>6. \A i \in 1..(n - 1) :
        /\ (IF i < p THEN i ELSE i + 1) \in (1..n) \ {p}
        /\ Without(s)[i] = order[IF i < p THEN i ELSE i + 1]
  BY <1>1, <1>3, <1>5
<1>7. Without(s) \in [1..(n - 1) -> Subs] /\ n - 1 \in Nat
  BY <1>1, <1>3, <1>5, <1>6
<1>8. Without(s) \in Seq(Subs) /\ DOMAIN Without(s) = 1..(n - 1)
  BY <1>7
<1>9. Range(Without(s)) = Range(order) \ {s}
  <2>1. ASSUME NEW i \in 1..(n - 1)
        PROVE  Without(s)[i] \in Range(order) \ {s}
    BY <1>1, <1>3, <1>4, <1>6 DEF Range
  <2>2. ASSUME NEW j \in 1..n, order[j] # s
        PROVE  \E i \in 1..(n - 1) : Without(s)[i] = order[j]
    <3>1. CASE j < p
      <4>1. j \in 1..(n - 1)
        BY <1>1, <1>3, <3>1
      <4> QED
        BY <1>6, <3>1, <4>1
    <3>2. CASE j > p
      <4>1. j - 1 \in 1..(n - 1) /\ ~(j - 1 < p) /\ (j - 1) + 1 = j
        BY <1>1, <1>3, <3>2
      <4> QED
        BY <1>6, <4>1
    <3>3. j # p
      BY <1>3, <2>2
    <3> QED
      BY <1>1, <1>3, <3>1, <3>2, <3>3
  <2> QED
    BY <1>1, <1>8, <2>1, <2>2 DEF Range
<1>10. IsInjective(Without(s))
  <2> SUFFICES ASSUME NEW i \in 1..(n - 1), NEW j \in 1..(n - 1), Without(s)[i] = Without(s)[j]
               PROVE  i = j
    BY <1>8 DEF IsInjective
  <2>1. (IF i < p THEN i ELSE i + 1) = (IF j < p THEN j ELSE j + 1)
    BY <1>4, <1>6
  <2> QED
    BY <1>1, <1>3, <2>1
<1> QED
  BY <1>8, <1>9, <1>10

LEMMA AppendOne ==
  ASSUME NEW q \in Seq(Subs), IsInjective(q), NEW s \in Subs, s \notin Range(q)
  PROVE  /\ Append(q, s) \in Seq(Subs)
         /\ Range(Append(q, s)) = Range(q) \cup {s}
         /\ IsInjective(Append(q, s))
<1> DEFINE n == Len(q)
<1>1. /\ n \in Nat /\ DOMAIN q = 1..n
      /\ Append(q, s) \in Seq(Subs) /\ DOMAIN Append(q, s) = 1..(n + 1)
      /\ \A i \in 1..n : Append(q, s)[i] = q[i]
      /\ Append(q, s)[n + 1] = s
  OBVIOUS
<1>2. 1..(n + 1) = (1..n) \cup {n + 1} /\ n + 1 \notin 1..n
  BY <1>1
<1> HIDE DEF n
<1>3. Range(Append(q, s)) = Range(q) \cup {s}
  BY <1>1, <1>2 DEF Range
<1>4. IsInjective(Append(q, s))
  BY <1>1, <1>2 DEF IsInjective, Range
<1> QED
  BY <1>1, <1>3, <1>4

-----------------------------------------------------------------------------
(* The slots, by the runs that hold them. *)

Runs == {s \in Subs : sub[s].phase # "idle"}

LEMMA RunsFinite ==
  /\ IsFiniteSet(Runs) /\ Cardinality(Runs) \in Nat
  /\ IsFiniteSet(Runs') /\ Cardinality(Runs') \in Nat
<1>1. Runs \subseteq Subs /\ Runs' \subseteq Subs
  BY DEF Runs
<1> QED
  BY <1>1, SubscriptionsAssumption, FS_Subset, FS_CardinalityType

LEMMA RunsSame ==
  ASSUME SlotsCounted, UNCHANGED <<used, ghosts>>,
         \A s \in Subs : (sub'[s].phase = "idle") <=> (sub[s].phase = "idle")
  PROVE  SlotsCounted'
<1>1. Runs' = Runs
  BY DEF Runs
<1> QED
  BY <1>1 DEF SlotsCounted, Runs

LEMMA RunsStart ==
  ASSUME SlotsCounted, StateTyped, NEW s \in Subs,
         sub[s].phase = "idle", sub'[s].phase # "idle",
         \A x \in Subs \ {s} : sub'[x] = sub[x],
         used' = used + 1, UNCHANGED ghosts
  PROVE  SlotsCounted'
<1>1. Runs' = Runs \cup {s} /\ s \notin Runs
  BY DEF Runs
<1>2. Cardinality(Runs') = Cardinality(Runs) + 1
  BY <1>1, RunsFinite, FS_AddElement
<1>3. used = ghosts + Cardinality(Runs) /\ used \in Nat /\ ghosts \in Nat
  BY SubscriptionsAssumption DEF SlotsCounted, Runs, StateTyped
<1>4. used' = ghosts' + Cardinality(Runs')
  BY <1>2, <1>3, RunsFinite
<1> QED
  BY <1>4 DEF SlotsCounted, Runs

(* A run that ends returns its slot, or leaves it to its ghost.            *)
LEMMA RunsEnd ==
  ASSUME SlotsCounted, StateTyped, NEW s \in Subs,
         sub[s].phase # "idle", sub'[s].phase = "idle",
         \A x \in Subs \ {s} : sub'[x] = sub[x],
         \/ used' = used - 1 /\ UNCHANGED ghosts
         \/ UNCHANGED used /\ ghosts' = ghosts + 1
  PROVE  SlotsCounted' /\ used' \in 0..Slots /\ ghosts' \in Nat
<1>1. Runs' = Runs \ {s} /\ s \in Runs
  BY DEF Runs
<1>2. Cardinality(Runs') = Cardinality(Runs) - 1
  BY <1>1, RunsFinite, FS_RemoveElement
<1>3. /\ used = ghosts + Cardinality(Runs) /\ used \in Nat /\ used <= Slots
      /\ ghosts \in Nat /\ Slots \in Nat
  BY SubscriptionsAssumption DEF SlotsCounted, Runs, StateTyped
<1>4. /\ used' = ghosts' + Cardinality(Runs') /\ used' \in 0..Slots /\ ghosts' \in Nat
  BY <1>2, <1>3, RunsFinite
<1> QED
  BY <1>4 DEF SlotsCounted, Runs

-----------------------------------------------------------------------------
(* An entry that a step does not touch. *)

LEMMA EntrySame ==
  ASSUME NEW x \in Subs, Entry(x), UNCHANGED <<rev, code, wakes>>,
         sub'[x] = sub[x], view'[x] = view[x], behind'[x] = behind[x],
         request'[x] = request[x]
  PROVE  Entry(x)'
<1>1. RunTied(x)'
  BY DEF Entry, RunTied
<1>2. ChangesDue(x)'
  BY DEF Entry, ChangesDue, Due, Answer
<1>3. Covers(x)'
  BY DEF Entry, Covers, Answerable, Reaches
<1>4. VectorsInOrder(x)'
  BY DEF Entry, VectorsInOrder, Answerable, Snapped, Older, Current
<1>5. ResultsAgree(x)'
  BY DEF Entry, ResultsAgree, Agree, Parity
<1> QED
  BY <1>1, <1>2, <1>3, <1>4, <1>5 DEF Entry

OneEntry(s) ==
  /\ UNCHANGED <<rev, code, wakes>>
  /\ \A x \in Subs \ {s} : /\ sub'[x] = sub[x] /\ view'[x] = view[x]
                           /\ behind'[x] = behind[x] /\ request'[x] = request[x]

LEMMA OneEntryKeeps ==
  ASSUME SubscriptionsInvariant, NEW s \in Subs, OneEntry(s), Entry(s)',
         StateTyped', OrderHolds', SlotsCounted'
  PROVE  SubscriptionsInvariant'
<1>1. \A x \in Subs : Entry(x)'
  BY EntrySame DEF OneEntry, SubscriptionsInvariant
<1> QED
  BY <1>1 DEF SubscriptionsInvariant

(* A step of a run, or of an entry at rest: only the entry changes.        *)
LEMMA StepKeeps ==
  ASSUME SubscriptionsInvariant, NEW s \in Subs, NEW r \in Sub,
         sub' = [sub EXCEPT ![s] = r],
         UNCHANGED <<rev, code, wakes, ready, order, used, ghosts, view, behind, request>>,
         r.present = sub[s].present, (r.phase = "idle") <=> (sub[s].phase = "idle"),
         Entry(s)'
  PROVE  SubscriptionsInvariant'
<1>1. /\ StateTyped /\ OrderHolds /\ SlotsCounted /\ sub'[s] = r
      /\ \A x \in Subs \ {s} : sub'[x] = sub[x]
  BY DEF SubscriptionsInvariant, StateTyped
<1>2. StateTyped'
  BY <1>1 DEF StateTyped
<1>3. OrderHolds'
  BY <1>1 DEF OrderHolds, Range, IsInjective
<1>4. SlotsCounted'
  BY <1>1, RunsSame
<1>5. OneEntry(s)
  BY <1>1 DEF OneEntry
<1> QED
  BY <1>2, <1>3, <1>4, <1>5, OneEntryKeeps

-----------------------------------------------------------------------------
(* A run's steps. *)

StartedOf(b, A) ==
  [b EXCEPT !.phase = "checking", !.dirty = FALSE, !.backoff = FALSE, !.asked = A]

LEMMA StartedOfMade ==
  ASSUME NEW b \in Sub, NEW A \in SUBSET Keys
  PROVE  /\ StartedOf(b, A) \in Sub
         /\ StartedOf(b, A).present = b.present /\ StartedOf(b, A).phase = "checking"
         /\ StartedOf(b, A).vector = b.vector /\ StartedOf(b, A).result = b.result
         /\ StartedOf(b, A).replaced = b.replaced /\ StartedOf(b, A).swapped = b.swapped
         /\ StartedOf(b, A).owed = b.owed
  BY DEF StartedOf, Sub, Phases

LEMMA StartedMade ==
  ASSUME StateTyped, NEW s \in Subs
  PROVE  /\ Started(s) \in Sub
         /\ Started(s).present = sub[s].present /\ Started(s).phase = "checking"
         /\ Started(s).vector = sub[s].vector /\ Started(s).result = sub[s].result
         /\ Started(s).replaced = sub[s].replaced /\ Started(s).swapped = sub[s].swapped
         /\ Started(s).owed = sub[s].owed
<1> DEFINE A == sub[s].deps \cup
                  IF sub[s].vector = None THEN {} ELSE DOMAIN sub[s].vector
<1>1. A \in SUBSET Keys /\ sub[s] \in Sub
  BY EntryTyped, VectorsAre
<1>2. Started(s) = StartedOf(sub[s], A)
  BY DEF Started, StartedOf
<1> HIDE DEF A
<1> QED
  BY <1>1, <1>2, StartedOfMade

LEMMA StartKeeps ==
  ASSUME SubscriptionsInvariant, NEW s \in Subs, Start(s)
  PROVE  SubscriptionsInvariant'
<1> DEFINE r == Started(s)
<1>0. /\ StateTyped /\ OrderHolds /\ SlotsCounted /\ Entry(s)
      /\ r \in Sub /\ sub' = [sub EXCEPT ![s] = r] /\ sub'[s] = r
      /\ \A x \in Subs \ {s} : sub'[x] = sub[x]
      /\ sub[s].phase = "idle" /\ sub[s].dirty
      /\ UNCHANGED <<rev, code, wakes, ready, order, ghosts, view, behind, request>>
      /\ used < Slots /\ used' = used + 1
  BY StartedMade DEF SubscriptionsInvariant, StateTyped, Start, Eligible, Running
<1>1. /\ r.present = sub[s].present /\ r.phase = "checking"
      /\ r.vector = sub[s].vector /\ r.result = sub[s].result
      /\ r.replaced = sub[s].replaced /\ r.swapped = sub[s].swapped
      /\ r.owed = sub[s].owed
  BY <1>0, StartedMade
<1> HIDE DEF r
<1>2. StateTyped'
  <2>1. used' \in 0..Slots
    BY <1>0, SubscriptionsAssumption DEF StateTyped
  <2> QED
    BY <1>0, <2>1 DEF StateTyped
<1>3. OrderHolds'
  BY <1>0, <1>1 DEF OrderHolds
<1>4. SlotsCounted'
  BY <1>0, <1>1, RunsStart
<1>5. Entry(s)'
  <2>1. RunTied(s)'
    BY <1>0, <1>1 DEF Entry, RunTied, Absent, ReadPhases
  <2>2. ChangesDue(s)' /\ Covers(s)'
    BY <1>0, <1>1 DEF Entry, ChangesDue, Covers, SentPhases
  <2>3. VectorsInOrder(s)'
    BY <1>0, <1>1 DEF Entry, VectorsInOrder, ReadPhases, Snapped, Older, Current
  <2>4. ResultsAgree(s)'
    BY <1>0, <1>1 DEF Entry, ResultsAgree, Agree, Parity
  <2> QED
    BY <2>1, <2>2, <2>3, <2>4 DEF Entry
<1>6. OneEntry(s)
  BY <1>0 DEF OneEntry
<1> QED
  BY <1>2, <1>3, <1>4, <1>5, <1>6, OneEntryKeeps

(* What a step of a run keeps of the entry.                                *)
SameEntry(r, b) ==
  /\ r.present = b.present /\ r.dirty = b.dirty /\ r.vector = b.vector
  /\ r.result = b.result /\ r.woken = b.woken /\ r.swapped = b.swapped
  /\ r.owed = b.owed

Fenced(b, p, f) == [b EXCEPT !.code = code, !.asked = {}, !.phase = p, !.fence = f]

LEMMA FencedMade ==
  ASSUME StateTyped, NEW b \in Sub, NEW p \in Phases, NEW f \in Vectors \cup {None}
  PROVE  /\ Fenced(b, p, f) \in Sub /\ SameEntry(Fenced(b, p, f), b)
         /\ Fenced(b, p, f).phase = p /\ Fenced(b, p, f).fence = f
         /\ Fenced(b, p, f).code = code /\ Fenced(b, p, f).replaced = b.replaced
         /\ Fenced(b, p, f).deps = b.deps /\ Fenced(b, p, f).read = b.read
  BY DEF Fenced, Sub, SameEntry, StateTyped

LEMMA TakeFenceKeeps ==
  ASSUME SubscriptionsInvariant, NEW s \in Subs, TakeFence(s)
  PROVE  SubscriptionsInvariant'
<1> DEFINE known == ~sub[s].failed /\ sub[s].vector = Now(sub[s].asked)
           p == IF known THEN "matched" ELSE "reading"
           f == IF known THEN Now(sub[s].asked) ELSE None
           r == Fenced(sub[s], p, f)
<1>0. /\ StateTyped /\ Entry(s) /\ sub[s] \in Sub /\ sub[s].asked \subseteq Keys
      /\ Answerable(s) /\ sub[s].phase = "checking"
      /\ sub' = [sub EXCEPT ![s] = r] /\ sub'[s] = r
      /\ UNCHANGED <<rev, code, wakes, ready, order, used, ghosts, view, behind, request>>
  BY EntryTyped DEF SubscriptionsInvariant, StateTyped, TakeFence, Step, SendsNothing, Fenced
<1>1. /\ p \in {"matched", "reading"} /\ f \in Vectors \cup {None}
      /\ p = "matched" => /\ f # None /\ f = sub[s].vector
                          /\ \A k \in DOMAIN f : k \in Keys /\ f[k] = rev[k]
  BY <1>0, NowVector
<1> HIDE DEF p, f
<1>9. p \in Phases
  BY <1>1 DEF Phases
<1>2. /\ r \in Sub /\ SameEntry(r, sub[s]) /\ r.phase = p /\ r.fence = f
      /\ r.code = code /\ r.replaced = sub[s].replaced
  BY <1>0, <1>1, <1>9, FencedMade
<1> HIDE DEF r
<1>3. Entry(s)'
  <2>1. RunTied(s)'
    BY <1>0, <1>1, <1>2 DEF Entry, RunTied, Absent, ReadPhases, SameEntry
  <2>2. ChangesDue(s)'
    BY <1>0, <1>1, <1>2 DEF Entry, ChangesDue, Due, SentPhases, SameEntry
  <2>3. Covers(s)'
    <3> SUFFICES ASSUME request[s] # None
                 PROVE  /\ \A k \in Keys : request[s][k] <= rev[k]
                        /\ p = "matched" => Reaches(f, request[s])
      BY <1>0, <1>1, <1>2 DEF Covers, SentPhases, Reaches
    <3>1. \A k \in Keys : request[s][k] <= rev[k] /\ request[s][k] \in Int /\ rev[k] \in Int
      BY <1>0, SubscriptionsAssumption DEF Entry, Covers, StateTyped, Revisions
    <3> QED
      BY <1>1, <3>1 DEF Reaches
  <2>4. VectorsInOrder(s)'
    <3>1. p = "matched" => f = view[s].vector
      BY <1>0, <1>1 DEF Entry, VectorsInOrder, Older, Current
    <3> QED
      BY <1>0, <1>1, <1>2, <3>1
      DEF Entry, VectorsInOrder, ReadPhases, Snapped, Older, Current, SameEntry
  <2>5. ResultsAgree(s)'
    BY <1>0, <1>2 DEF Entry, ResultsAgree, Agree, Parity, SameEntry
  <2> QED
    BY <2>1, <2>2, <2>3, <2>4, <2>5 DEF Entry
<1> QED
  BY <1>0, <1>1, <1>2, <1>3, StepKeeps DEF SameEntry

LEMMA SnapshotKeeps ==
  ASSUME SubscriptionsInvariant, NEW s \in Subs, Snapshot(s)
  PROVE  SubscriptionsInvariant'
<1> DEFINE v == Now(Depends(rev))
           r == [sub[s] EXCEPT !.phase = "observing", !.read = v]
<1>0. /\ StateTyped /\ Entry(s) /\ sub[s] \in Sub /\ sub[s].phase = "reading"
      /\ sub' = [sub EXCEPT ![s] = r] /\ sub'[s] = r
      /\ UNCHANGED <<rev, code, wakes, ready, order, used, ghosts, view, behind, request>>
  BY EntryTyped DEF SubscriptionsInvariant, StateTyped, Snapshot, Step, SendsNothing
<1>1. /\ v \in Vectors /\ v # None /\ DOMAIN v = Depends(rev) /\ Depends(rev) \subseteq Keys
      /\ \A k \in DOMAIN v : v[k] = rev[k] /\ rev[k] \in Int
  <2>1. Depends(rev) \subseteq Keys
    BY <1>0, DependsAssumption DEF StateTyped
  <2> QED
    BY <1>0, <2>1, NowVector, SubscriptionsAssumption DEF StateTyped, Revisions
<1> HIDE DEF v
<1>2. /\ r \in Sub /\ SameEntry(r, sub[s]) /\ r.phase = "observing" /\ r.read = v
      /\ r.code = sub[s].code /\ r.replaced = sub[s].replaced
  BY <1>0, <1>1 DEF Sub, SameEntry, Phases
<1> HIDE DEF r
<1>3. Entry(s)'
  <2>1. RunTied(s)'
    BY <1>0, <1>1, <1>2 DEF Entry, RunTied, Absent, ReadPhases, SameEntry
  <2>2. ChangesDue(s)'
    BY <1>0, <1>1, <1>2 DEF Entry, ChangesDue, Due, SentPhases, SameEntry
  <2>3. Covers(s)'
    <3> SUFFICES ASSUME request[s] # None
                 PROVE  /\ \A k \in Keys : request[s][k] <= rev[k]
                        /\ Reaches(v, request[s])
      BY <1>0, <1>1, <1>2 DEF Covers, SentPhases, Reaches
    <3>1. \A k \in Keys : request[s][k] <= rev[k] /\ request[s][k] \in Int
      BY <1>0, SubscriptionsAssumption DEF Entry, Covers, StateTyped, Revisions
    <3> QED
      BY <1>1, <3>1 DEF Reaches
  <2>4. VectorsInOrder(s)'
    <3>1. Snapped(v)
      BY <1>1 DEF Snapped
    <3>2. Older(view[s].vector, v)
      <4> SUFFICES ASSUME view[s].vector # None, Current(view[s].vector)
                   PROVE  v = view[s].vector
        BY DEF Older
      <4>1. /\ DOMAIN view[s].vector = DOMAIN v
            /\ \A k \in DOMAIN v : view[s].vector[k] = v[k]
        BY <1>0, <1>1 DEF Entry, VectorsInOrder, Snapped, Current
      <4>2. /\ view[s].vector \in [DOMAIN view[s].vector -> Revisions]
            /\ v \in [DOMAIN v -> Revisions]
        BY <1>0, <1>1, EntryTyped, VectorsAre
      <4> QED
        BY <4>1, <4>2
    <3> QED
      BY <1>0, <1>2, <3>1, <3>2
      DEF Entry, VectorsInOrder, ReadPhases, Snapped, Older, Current, SameEntry
  <2>5. ResultsAgree(s)'
    BY <1>0, <1>2 DEF Entry, ResultsAgree, Agree, Parity, SameEntry
  <2> QED
    BY <2>1, <2>2, <2>3, <2>4, <2>5 DEF Entry
<1> QED
  BY <1>0, <1>2, <1>3, StepKeeps DEF SameEntry

LEMMA ObserveKeeps ==
  ASSUME SubscriptionsInvariant, NEW s \in Subs, Observe(s)
  PROVE  SubscriptionsInvariant'
<1> DEFINE d == sub[s].deps \cup DOMAIN sub[s].read
           r == [sub[s] EXCEPT !.phase = "read", !.deps = d]
<1>0. /\ StateTyped /\ Entry(s) /\ sub[s] \in Sub /\ sub[s].phase = "observing"
      /\ sub' = [sub EXCEPT ![s] = r] /\ sub'[s] = r
      /\ UNCHANGED <<rev, code, wakes, ready, order, used, ghosts, view, behind, request>>
  BY EntryTyped DEF SubscriptionsInvariant, StateTyped, Observe, Step, SendsNothing
<1>1. d \subseteq Keys /\ DOMAIN sub[s].read \subseteq d
  <2>1. sub[s].read # None
    BY <1>0 DEF Entry, RunTied, ReadPhases
  <2> QED
    BY <1>0, <2>1, EntryTyped, VectorsAre
<1> HIDE DEF d
<1>2. /\ r \in Sub /\ SameEntry(r, sub[s]) /\ r.phase = "read" /\ r.read = sub[s].read
      /\ r.code = sub[s].code /\ r.replaced = sub[s].replaced /\ r.deps = d
  BY <1>0, <1>1 DEF Sub, SameEntry, Phases
<1> HIDE DEF r
<1>3. Entry(s)'
  <2>1. RunTied(s)'
    BY <1>0, <1>1, <1>2 DEF Entry, RunTied, Absent, ReadPhases, SameEntry
  <2>2. ChangesDue(s)'
    BY <1>0, <1>2 DEF Entry, ChangesDue, Due, SentPhases, SameEntry
  <2>3. Covers(s)'
    BY <1>0, <1>2 DEF Entry, Covers, SentPhases, Reaches, Answerable, SameEntry
  <2>4. VectorsInOrder(s)'
    BY <1>0, <1>2
    DEF Entry, VectorsInOrder, ReadPhases, Snapped, Older, Current, SameEntry
  <2>5. ResultsAgree(s)'
    BY <1>0, <1>2 DEF Entry, ResultsAgree, Agree, Parity, SameEntry
  <2> QED
    BY <2>1, <2>2, <2>3, <2>4, <2>5 DEF Entry
<1> QED
  BY <1>0, <1>2, <1>3, StepKeeps DEF SameEntry

LEMMA VerifyKeeps ==
  ASSUME SubscriptionsInvariant, NEW s \in Subs, Verify(s)
  PROVE  SubscriptionsInvariant'
<1> DEFINE r == [sub[s] EXCEPT !.phase = "verifying", !.replaced = FALSE]
<1>0. /\ StateTyped /\ Entry(s) /\ sub[s] \in Sub /\ sub[s].phase = "read"
      /\ sub[s].replaced
      /\ sub' = [sub EXCEPT ![s] = r] /\ sub'[s] = r
      /\ UNCHANGED <<rev, code, wakes, ready, order, used, ghosts, view, behind, request>>
  BY EntryTyped DEF SubscriptionsInvariant, StateTyped, Verify, Step, SendsNothing
<1>2. /\ r \in Sub /\ SameEntry(r, sub[s]) /\ r.phase = "verifying" /\ r.read = sub[s].read
      /\ r.code = sub[s].code /\ ~r.replaced /\ r.deps = sub[s].deps
  BY <1>0 DEF Sub, SameEntry, Phases
<1> HIDE DEF r
<1>3. Entry(s)'
  <2>1. RunTied(s)'
    BY <1>0, <1>2 DEF Entry, RunTied, Absent, ReadPhases, SameEntry
  <2>2. ChangesDue(s)' /\ Covers(s)'
    BY <1>0, <1>2 DEF Entry, ChangesDue, Covers, SentPhases
  <2>4. VectorsInOrder(s)'
    BY <1>0, <1>2
    DEF Entry, VectorsInOrder, ReadPhases, Snapped, Older, Current, SameEntry
  <2>5. ResultsAgree(s)'
    BY <1>0, <1>2 DEF Entry, ResultsAgree, Agree, Parity, SameEntry
  <2> QED
    BY <2>1, <2>2, <2>4, <2>5 DEF Entry
<1> QED
  BY <1>0, <1>2, <1>3, StepKeeps DEF SameEntry

(* What still is so is no older than any question asked until now.         *)
LEMMA VerifyFenceKeeps ==
  ASSUME SubscriptionsInvariant, NEW s \in Subs, VerifyFence(s)
  PROVE  SubscriptionsInvariant'
<1> DEFINE r == [sub[s] EXCEPT !.phase = "verified"]
           v == sub[s].read
<1>0. /\ StateTyped /\ Entry(s) /\ sub[s] \in Sub /\ sub[s].phase = "verifying"
      /\ sub' = [sub EXCEPT ![s] = r] /\ sub'[s] = r /\ v = Now(DOMAIN v)
      /\ UNCHANGED <<rev, code, wakes, ready, order, used, ghosts, view, behind, request>>
  BY EntryTyped
  DEF SubscriptionsInvariant, StateTyped, VerifyFence, Step, SendsNothing, Matches
<1>1. /\ v # None /\ DOMAIN v \subseteq Keys
      /\ \A k \in DOMAIN v : v[k] = rev[k] /\ rev[k] \in Int
  <2>1. v \in Vectors /\ v # None
    BY <1>0, EntryTyped DEF Entry, RunTied, ReadPhases
  <2>2. DOMAIN v \subseteq Keys
    BY <2>1, VectorsAre
  <2> QED
    BY <1>0, <2>1, <2>2, NowVector, SubscriptionsAssumption DEF StateTyped, Revisions
<1>2. /\ r \in Sub /\ SameEntry(r, sub[s]) /\ r.phase = "verified" /\ r.read = v
      /\ r.code = sub[s].code /\ r.replaced = sub[s].replaced /\ r.deps = sub[s].deps
  BY <1>0 DEF Sub, SameEntry, Phases
<1> HIDE DEF r, v
<1>3. Entry(s)'
  <2>1. RunTied(s)'
    BY <1>0, <1>1, <1>2 DEF Entry, RunTied, Absent, ReadPhases, SameEntry, v
  <2>2. ChangesDue(s)'
    BY <1>0, <1>1, <1>2 DEF Entry, ChangesDue, Due, SentPhases, SameEntry
  <2>3. Covers(s)'
    <3> SUFFICES ASSUME request[s] # None
                 PROVE  /\ \A k \in Keys : request[s][k] <= rev[k]
                        /\ Reaches(v, request[s])
      BY <1>0, <1>1, <1>2 DEF Covers, SentPhases, Reaches
    <3>1. \A k \in Keys : request[s][k] <= rev[k] /\ request[s][k] \in Int
      BY <1>0, SubscriptionsAssumption DEF Entry, Covers, StateTyped, Revisions
    <3> QED
      BY <1>1, <3>1 DEF Reaches
  <2>4. VectorsInOrder(s)'
    BY <1>0, <1>2
    DEF Entry, VectorsInOrder, ReadPhases, Snapped, Older, Current, SameEntry, v
  <2>5. ResultsAgree(s)'
    BY <1>0, <1>2 DEF Entry, ResultsAgree, Agree, Parity, SameEntry
  <2> QED
    BY <2>1, <2>2, <2>3, <2>4, <2>5 DEF Entry
<1> QED
  BY <1>0, <1>2, <1>3, StepKeeps DEF SameEntry

LEMMA BackoffEndsKeeps ==
  ASSUME SubscriptionsInvariant, NEW s \in Subs, BackoffEnds(s)
  PROVE  SubscriptionsInvariant'
<1> DEFINE r == [sub[s] EXCEPT !.backoff = FALSE]
<1>0. /\ StateTyped /\ Entry(s) /\ sub[s] \in Sub /\ sub[s].backoff
      /\ sub' = [sub EXCEPT ![s] = r] /\ sub'[s] = r
      /\ UNCHANGED <<rev, code, wakes, ready, order, used, ghosts, view, behind, request>>
  BY EntryTyped DEF SubscriptionsInvariant, StateTyped, BackoffEnds, SendsNothing
<1>1. sub[s].present
  BY <1>0 DEF Entry, RunTied, Absent
<1>2. /\ r \in Sub /\ SameEntry(r, sub[s]) /\ r.phase = sub[s].phase /\ r.read = sub[s].read
      /\ r.code = sub[s].code /\ r.replaced = sub[s].replaced /\ r.deps = sub[s].deps
      /\ r.fence = sub[s].fence
  BY <1>0 DEF Sub, SameEntry
<1> HIDE DEF r
<1>3. Entry(s)'
  <2>1. RunTied(s)'
    BY <1>0, <1>1, <1>2 DEF Entry, RunTied, SameEntry
  <2>2. ChangesDue(s)'
    BY <1>0, <1>2 DEF Entry, ChangesDue, Due, Answer, SameEntry
  <2>3. Covers(s)'
    BY <1>0, <1>2 DEF Entry, Covers, Reaches, Answerable, SameEntry
  <2>4. VectorsInOrder(s)'
    BY <1>0, <1>2
    DEF Entry, VectorsInOrder, Snapped, Older, Current, Answerable, SameEntry
  <2>5. ResultsAgree(s)'
    BY <1>0, <1>2 DEF Entry, ResultsAgree, Agree, Parity, SameEntry
  <2> QED
    BY <2>1, <2>2, <2>3, <2>4, <2>5 DEF Entry
<1> QED
  BY <1>0, <1>2, <1>3, StepKeeps DEF SameEntry

-----------------------------------------------------------------------------
(* A run's end. *)

LEMMA OverMade ==
  ASSUME NEW b \in Sub
  PROVE  /\ Over(b) \in Sub /\ Over(b).present = b.present /\ Over(b).phase = "idle"
         /\ Over(b).vector = b.vector /\ Over(b).result = b.result /\ Over(b).deps = b.deps
         /\ Over(b).woken = {} /\ ~Over(b).replaced /\ ~Over(b).swapped /\ ~Over(b).owed
         /\ Over(b).backoff = b.backoff
         /\ Over(b).dirty <=> (b.dirty \/ b.owed \/ b.woken \cap b.deps # {})
<1> DEFINE d == b.dirty \/ b.owed \/ b.woken \cap b.deps # {}
<1>1. d \in BOOLEAN
  OBVIOUS
<1>2. Over(b) =
        [b EXCEPT !.phase = "idle", !.asked = {}, !.fence = None, !.read = None, !.code = 0,
                  !.dirty = d, !.woken = {}, !.replaced = FALSE, !.swapped = FALSE,
                  !.owed = FALSE]
  BY DEF Over
<1>3. 0 \in 0..MaxCode
  BY SubscriptionsAssumption
<1>4. ASSUME NEW e \in BOOLEAN, NEW o,
             o = [b EXCEPT !.phase = "idle", !.asked = {}, !.fence = None, !.read = None,
                    !.code = 0, !.dirty = e, !.woken = {}, !.replaced = FALSE,
                    !.swapped = FALSE, !.owed = FALSE]
      PROVE  /\ o \in Sub /\ o.present = b.present /\ o.phase = "idle"
             /\ o.vector = b.vector /\ o.result = b.result /\ o.deps = b.deps
             /\ o.woken = {} /\ ~o.replaced /\ ~o.swapped /\ ~o.owed
             /\ o.backoff = b.backoff /\ o.dirty = e
  BY <1>3, <1>4 DEF Sub, Phases
<1> HIDE DEF d
<1>5. /\ Over(b) \in Sub /\ Over(b).present = b.present /\ Over(b).phase = "idle"
      /\ Over(b).vector = b.vector /\ Over(b).result = b.result /\ Over(b).deps = b.deps
      /\ Over(b).woken = {} /\ ~Over(b).replaced /\ ~Over(b).swapped /\ ~Over(b).owed
      /\ Over(b).backoff = b.backoff /\ Over(b).dirty = d
  BY <1>1, <1>2, <1>4
<1> QED
  BY <1>5 DEF d

(* What a run's end needs: it is told apart by what the client gets of it. *)
Settles(s) ==
  /\ view' \in [Subs -> View] /\ behind' \in [Subs -> Held \cup {None}]
  /\ request' \in [Subs -> [Keys -> Revisions] \cup {None}]
  /\ \A x \in Subs \ {s} : /\ view'[x] = view[x] /\ behind'[x] = behind[x]
                           /\ request'[x] = request[x]

LEMMA RotatedOrder ==
  ASSUME OrderHolds, NEW s \in Subs, sub[s].present
  PROVE  /\ Rotated(s) \in Seq(Subs) /\ Range(Rotated(s)) = Range(order)
         /\ IsInjective(Rotated(s))
<1>1. /\ Without(s) \in Seq(Subs) /\ Range(Without(s)) = Range(order) \ {s}
      /\ IsInjective(Without(s))
  BY WithoutOne
<1>2. s \notin Range(Without(s)) /\ s \in Range(order)
  BY <1>1 DEF OrderHolds
<1>3. /\ Append(Without(s), s) \in Seq(Subs) /\ IsInjective(Append(Without(s), s))
      /\ Range(Append(Without(s), s)) = Range(Without(s)) \cup {s}
  BY <1>1, <1>2, AppendOne
<1>4. Range(Without(s)) \cup {s} = Range(order)
  BY <1>1, <1>2
<1> QED
  BY <1>3, <1>4 DEF Rotated

LEMMA EndsKeeps ==
  ASSUME SubscriptionsInvariant, NEW s \in Subs, NEW b \in Sub, EndsRun(s, b),
         Running(s), b.present, Settles(s), Entry(s)'
  PROVE  SubscriptionsInvariant'
<1>1. /\ StateTyped /\ OrderHolds /\ SlotsCounted /\ Entry(s) /\ sub[s].phase # "idle"
      /\ Over(b) \in Sub /\ Over(b).present /\ Over(b).phase = "idle"
      /\ sub' = [sub EXCEPT ![s] = Over(b)] /\ sub'[s] = Over(b)
      /\ \A x \in Subs \ {s} : sub'[x] = sub[x]
      /\ order' = Rotated(s) /\ used' = used - 1
      /\ UNCHANGED <<rev, code, wakes, ready, ghosts>>
  BY OverMade DEF SubscriptionsInvariant, StateTyped, EndsRun, Running
<1>2. sub[s].present
  BY <1>1 DEF Entry, RunTied, Absent
<1>3. SlotsCounted' /\ used' \in 0..Slots
  BY <1>1, RunsEnd
<1>4. OrderHolds'
  <2>1. {x \in Subs : sub'[x].present} = {x \in Subs : sub[x].present}
    BY <1>1, <1>2
  <2> QED
    BY <1>1, <1>2, <2>1, RotatedOrder DEF OrderHolds
<1>5. StateTyped'
  BY <1>1, <1>3 DEF StateTyped, Settles
<1>6. OneEntry(s)
  BY <1>1 DEF OneEntry, Settles
<1> QED
  BY <1>3, <1>4, <1>5, <1>6, OneEntryKeeps

(* An end without an answer leaves the entry dirty.                        *)
LEMMA QuietEndKeeps ==
  ASSUME SubscriptionsInvariant, NEW s \in Subs, EndsRun(s, sub[s]), SendsNothing,
         Running(s), sub[s].dirty \/ sub[s].owed
  PROVE  SubscriptionsInvariant'
<1> DEFINE r == Over(sub[s])
<1>0. /\ StateTyped /\ Entry(s) /\ sub[s] \in Sub /\ sub[s].phase # "idle"
      /\ sub'[s] = r
      /\ UNCHANGED <<rev, code, wakes, view, behind, request>>
  BY EntryTyped DEF SubscriptionsInvariant, StateTyped, EndsRun, SendsNothing, Running
<1>1. sub[s].present
  BY <1>0 DEF Entry, RunTied, Absent
<1>2. /\ r.present /\ r.phase = "idle" /\ r.vector = sub[s].vector
      /\ r.result = sub[s].result /\ r.woken = {} /\ ~r.replaced /\ ~r.swapped /\ ~r.owed
      /\ r.dirty
  BY <1>0, <1>1, OverMade
<1> HIDE DEF r
<1>3. Entry(s)'
  <2>1. RunTied(s)'
    BY <1>0, <1>2 DEF RunTied, ReadPhases
  <2>2. ChangesDue(s)' /\ Covers(s)'
    BY <1>0, <1>2 DEF Entry, ChangesDue, Covers, SentPhases
  <2>3. VectorsInOrder(s)'
    BY <1>0, <1>2 DEF Entry, VectorsInOrder, ReadPhases, Snapped, Older, Current
  <2>4. ResultsAgree(s)'
    BY <1>0, <1>2 DEF Entry, ResultsAgree, Agree, Parity
  <2> QED
    BY <2>1, <2>2, <2>3, <2>4 DEF Entry
<1>4. Settles(s)
  BY <1>0 DEF Settles, StateTyped
<1> QED
  BY <1>0, <1>1, <1>3, <1>4, EndsKeeps

LEMMA DiscardKeeps ==
  ASSUME SubscriptionsInvariant, NEW s \in Subs, Discard(s)
  PROVE  SubscriptionsInvariant'
<1>1. sub[s].dirty \/ sub[s].owed
  BY DEF SubscriptionsInvariant, Entry, RunTied, Discard, Answerable
<1> QED
  BY <1>1, QuietEndKeeps DEF Discard

LEMMA VerifyFailsKeeps ==
  ASSUME SubscriptionsInvariant, NEW s \in Subs, VerifyFails(s)
  PROVE  SubscriptionsInvariant'
<1>1. sub[s].owed /\ Running(s)
  BY DEF SubscriptionsInvariant, Entry, RunTied, VerifyFails, Running
<1> QED
  BY <1>1, QuietEndKeeps DEF VerifyFails

(* What a frame needs: it follows what the client was sent before, goes    *)
(* with what the entry keeps, and leaves nothing unknown to an entry that  *)
(* comes to rest.                                                          *)
Tells(s, b, v) ==
  /\ v.lost = view[s].lost
  /\ Snapped(v.vector) /\ Older(view[s].vector, v.vector)
  /\ Snapped(b.vector) /\ Older(b.vector, v.vector)
  /\ Agree(v)
  /\ b.result # None => v.result = b.result
  /\ LET a == IF v.refused # None THEN v.refused ELSE v.vector IN
     ~Over(b).dirty =>
       /\ a # None /\ DOMAIN a \subseteq b.deps
       /\ \A k \in DOMAIN a : a[k] # rev[k] => k \in wakes \cup v.lost

(* What the client has received is behind what it was sent.                *)
LEMMA HasFollows ==
  ASSUME StateTyped, NEW s \in Subs, Entry(s)
  PROVE  Snapped(Has(s).vector) /\ Older(Has(s).vector, view[s].vector) /\ Agree(Has(s))
<1>1. CASE behind[s] = None
  <2>1. Has(s).vector = view[s].vector /\ Has(s).result = view[s].result
    BY <1>1, EntryTyped
  <2> QED
    BY <2>1 DEF Entry, VectorsInOrder, ResultsAgree, Agree, Older
<1>2. CASE behind[s] # None
  <2>1. Has(s) = behind[s]
    BY <1>2 DEF Has
  <2> QED
    BY <1>2, <2>1 DEF Entry, VectorsInOrder, ResultsAgree
<1> QED
  BY <1>1, <1>2

LEMMA TellsKeeps ==
  ASSUME SubscriptionsInvariant, NEW s \in Subs, NEW b \in Sub, NEW v \in View,
         EndsRun(s, b), Sends(s, v), Running(s), b.present, Tells(s, b, v)
  PROVE  SubscriptionsInvariant'
<1> DEFINE r == Over(b)
           a == IF v.refused # None THEN v.refused ELSE v.vector
           h == Has(s)
<1>0. /\ StateTyped /\ Entry(s) /\ sub'[s] = r
      /\ h \in Held /\ view'[s] = v /\ behind'[s] \in {None, h} /\ request'[s] = None
      /\ view' \in [Subs -> View] /\ behind' \in [Subs -> Held \cup {None}]
      /\ request' \in [Subs -> [Keys -> Revisions] \cup {None}]
      /\ \A x \in Subs \ {s} : /\ view'[x] = view[x] /\ behind'[x] = behind[x]
                               /\ request'[x] = request[x]
      /\ UNCHANGED <<rev, code, wakes>>
  <2>1. StateTyped /\ Entry(s) /\ h \in Held
    BY EntryTyped DEF SubscriptionsInvariant
  <2> HIDE DEF h
  <2>2. /\ view' = [view EXCEPT ![s] = v] /\ request' = [request EXCEPT ![s] = None]
        /\ \E g \in {None, h} : behind' = [behind EXCEPT ![s] = g]
    BY DEF Sends, h
  <2>3. sub'[s] = r /\ UNCHANGED <<rev, code, wakes>>
    BY <2>1 DEF EndsRun, StateTyped
  <2> QED
    BY <2>1, <2>2, <2>3 DEF StateTyped
<1>1. /\ r.present /\ r.phase = "idle" /\ r.vector = b.vector /\ r.deps = b.deps
      /\ r.result = b.result /\ r.woken = {} /\ ~r.replaced /\ ~r.swapped /\ ~r.owed
  BY OverMade
<1>2. /\ v.lost = view[s].lost
      /\ Snapped(v.vector) /\ Older(view[s].vector, v.vector)
      /\ Snapped(b.vector) /\ Older(b.vector, v.vector)
      /\ Agree(v)
      /\ b.result # None => v.result = b.result
      /\ ~r.dirty => /\ a # None /\ DOMAIN a \subseteq b.deps
                     /\ \A k \in DOMAIN a : a[k] # rev[k] => k \in wakes \cup v.lost
  BY DEF Tells
<1>3. /\ Snapped(h.vector) /\ Older(h.vector, v.vector) /\ Agree(h)
  <2>1. Snapped(h.vector) /\ Older(h.vector, view[s].vector) /\ Agree(h)
    BY <1>0, HasFollows
  <2> QED
    BY <1>2, <2>1 DEF Older
<1> HIDE DEF r, h
<1>4. Entry(s)'
  <2>1. RunTied(s)'
    BY <1>0, <1>1 DEF RunTied, ReadPhases
  <2>2. ChangesDue(s)'
    <3>1. Answer(s)' = a
      BY <1>0 DEF Answer
    <3> HIDE DEF a
    <3> QED
      BY <1>0, <1>1, <1>2, <3>1 DEF ChangesDue, Due, SentPhases
  <2>3. Covers(s)'
    BY <1>0 DEF Covers
  <2>4. VectorsInOrder(s)'
    BY <1>0, <1>1, <1>2, <1>3 DEF VectorsInOrder, ReadPhases, Snapped, Older, Current
  <2>5. ResultsAgree(s)'
    BY <1>0, <1>1, <1>2, <1>3 DEF ResultsAgree, Agree, Parity
  <2> QED
    BY <2>1, <2>2, <2>3, <2>4, <2>5 DEF Entry
<1>5. Settles(s)
  BY <1>0 DEF Settles
<1> QED
  BY <1>4, <1>5, EndsKeeps

(* The second check found the client's vector to be the fence: the frame   *)
(* says again what it was sent last.                                       *)
LEMMA UpToDateKeeps ==
  ASSUME SubscriptionsInvariant, NEW s \in Subs, UpToDate(s)
  PROVE  SubscriptionsInvariant'
<1> DEFINE f == sub[s].fence
           b == [sub[s] EXCEPT !.deps = DOMAIN f, !.owed = FALSE]
           v == [view[s] EXCEPT !.vector = f, !.refused = None]
<1>0. /\ StateTyped /\ Entry(s) /\ sub[s] \in Sub /\ view[s] \in View
      /\ sub[s].phase = "matched" /\ Answerable(s) /\ Running(s)
      /\ EndsRun(s, b) /\ Sends(s, v)
  BY EntryTyped DEF SubscriptionsInvariant, UpToDate, Running
<1>1. f \in Vectors /\ f # None /\ DOMAIN f \subseteq Keys /\ f = view[s].vector
  BY <1>0, EntryTyped, VectorsAre DEF Entry, RunTied, VectorsInOrder
<1>2. sub[s].present
  BY <1>0 DEF Entry, RunTied, Absent
<1> HIDE DEF f
<1>3. /\ b \in Sub /\ b.present /\ b.vector = sub[s].vector /\ b.result = sub[s].result
      /\ b.deps = DOMAIN f /\ b.dirty = sub[s].dirty /\ b.woken = sub[s].woken
  BY <1>0, <1>1, <1>2 DEF Sub
<1>4. /\ v \in View /\ v.vector = f /\ v.refused = None /\ v.result = view[s].result
      /\ v.lost = view[s].lost
  BY <1>0, <1>1 DEF View
<1> HIDE DEF b, v
<1>5. Tells(s, b, v)
  <2>1. /\ Snapped(v.vector) /\ Older(view[s].vector, v.vector)
        /\ Snapped(b.vector) /\ Older(b.vector, v.vector)
    BY <1>0, <1>1, <1>3, <1>4 DEF Entry, VectorsInOrder, Older
  <2>2. Agree(v) /\ (b.result # None => v.result = b.result)
    BY <1>0, <1>1, <1>3, <1>4 DEF Entry, ResultsAgree, Agree
  <2>3. ASSUME ~Over(b).dirty
        PROVE  \A k \in DOMAIN f : f[k] # rev[k] => k \in wakes \cup v.lost
    <3>1. ~sub[s].dirty /\ sub[s].woken \cap DOMAIN f = {}
      BY <1>3, <2>3, OverMade
    <3>2. Due(s, f)
      BY <1>0, <3>1 DEF Entry, ChangesDue, Answerable, f
    <3> QED
      BY <1>4, <3>1, <3>2 DEF Due
  <2> QED
    BY <1>1, <1>3, <1>4, <2>1, <2>2, <2>3 DEF Tells
<1> QED
  BY <1>0, <1>3, <1>4, <1>5, TellsKeeps

(* The snapshot is sent, whole or as a vector: the client then has the     *)
(* result of just that snapshot.                                           *)
LEMMA DeliverKeeps ==
  ASSUME SubscriptionsInvariant, NEW s \in Subs, Deliver(s)
  PROVE  SubscriptionsInvariant'
<1> DEFINE w == sub[s].read
           c == Result(w, sub[s].code)
           t == IF sub[s].result = c THEN view[s].result ELSE c
           b == [sub[s] EXCEPT !.deps = DOMAIN w, !.vector = w, !.result = c,
                               !.failed = FALSE, !.backoff = FALSE, !.owed = FALSE]
           v == [view[s] EXCEPT !.vector = w, !.refused = None, !.result = t]
<1>0. /\ StateTyped /\ Entry(s) /\ sub[s] \in Sub /\ view[s] \in View
      /\ sub[s].phase \in {"read", "verified"} /\ Answerable(s) /\ Running(s)
      /\ EndsRun(s, b) /\ Sends(s, v)
  BY EntryTyped DEF SubscriptionsInvariant, Deliver, Deliverable, Running
<1>1. w \in Vectors /\ w # None /\ DOMAIN w \subseteq Keys
  BY <1>0, EntryTyped, VectorsAre DEF Entry, RunTied, ReadPhases
<1>2. sub[s].present
  BY <1>0 DEF Entry, RunTied, Absent
<1>3. c \in Results /\ c # None /\ c[1] = Parity(w)
  BY <1>0, <1>1, EntryTyped, ResultTyped
<1>4. t = c
  BY <1>0, <1>3 DEF Entry, ResultsAgree
<1> HIDE DEF w, c, t
<1>5. /\ b \in Sub /\ b.present /\ b.vector = w /\ b.result = c
      /\ b.deps = DOMAIN w /\ b.dirty = sub[s].dirty /\ b.woken = sub[s].woken
  BY <1>0, <1>1, <1>2, <1>3 DEF Sub
<1>6. /\ v \in View /\ v.vector = w /\ v.refused = None /\ v.result = c
      /\ v.lost = view[s].lost
  BY <1>0, <1>1, <1>3, <1>4 DEF View
<1> HIDE DEF b, v
<1>7. Tells(s, b, v)
  <2>1. /\ Snapped(w) /\ Older(view[s].vector, w) /\ Older(w, w)
    BY <1>0 DEF Entry, VectorsInOrder, Older, ReadPhases, w
  <2>2. Agree(v) /\ (b.result # None => v.result = b.result)
    BY <1>3, <1>5, <1>6 DEF Agree
  <2>3. ASSUME ~Over(b).dirty
        PROVE  \A k \in DOMAIN w : w[k] # rev[k] => k \in wakes \cup v.lost
    <3>1. ~sub[s].dirty /\ sub[s].woken \cap DOMAIN w = {}
      BY <1>5, <2>3, OverMade
    <3>2. Due(s, w)
      BY <1>0, <3>1 DEF Entry, ChangesDue, Answerable, SentPhases, w
    <3> QED
      BY <1>6, <3>1, <3>2 DEF Due
  <2> QED
    BY <1>1, <1>5, <1>6, <2>1, <2>2, <2>3 DEF Tells
<1> QED
  BY <1>0, <1>5, <1>6, <1>7, TellsKeeps

LEMMA FailsKeeps ==
  ASSUME SubscriptionsInvariant, NEW s \in Subs, Fails(s)
  PROVE  SubscriptionsInvariant'
<1> DEFINE b == [sub[s] EXCEPT !.failed = TRUE, !.backoff = TRUE, !.dirty = TRUE,
                               !.owed = FALSE]
<1>0. /\ Entry(s) /\ sub[s] \in Sub /\ view[s] \in View /\ Running(s)
      /\ EndsRun(s, b) /\ Sends(s, view[s])
  BY EntryTyped DEF SubscriptionsInvariant, Fails
<1>1. sub[s].present
  BY <1>0 DEF Entry, RunTied, Absent, Running
<1>2. /\ b \in Sub /\ b.present /\ b.vector = sub[s].vector /\ b.result = sub[s].result
      /\ b.dirty
  BY <1>0, <1>1 DEF Sub
<1> HIDE DEF b
<1>3. Over(b).dirty
  BY <1>2, OverMade
<1>4. Tells(s, b, view[s])
  BY <1>0, <1>2, <1>3 DEF Tells, Entry, VectorsInOrder, ResultsAgree, Older
<1> QED
  BY <1>0, <1>2, <1>4, TellsKeeps

LEMMA RefusesKeeps ==
  ASSUME SubscriptionsInvariant, NEW s \in Subs, Refuses(s)
  PROVE  SubscriptionsInvariant'
<1> DEFINE w == sub[s].read
           b == [sub[s] EXCEPT !.failed = TRUE, !.owed = FALSE]
           v == [view[s] EXCEPT !.refused = w]
<1>0. /\ StateTyped /\ Entry(s) /\ sub[s] \in Sub /\ view[s] \in View
      /\ sub[s].phase = "read" /\ Answerable(s) /\ Running(s)
      /\ EndsRun(s, b) /\ Sends(s, v)
  BY EntryTyped DEF SubscriptionsInvariant, Refuses, Running
<1>1. w \in Vectors /\ w # None /\ DOMAIN w \subseteq sub[s].deps
  BY <1>0, EntryTyped DEF Entry, RunTied, ReadPhases
<1>2. sub[s].present
  BY <1>0 DEF Entry, RunTied, Absent
<1> HIDE DEF w
<1>3. /\ b \in Sub /\ b.present /\ b.vector = sub[s].vector /\ b.result = sub[s].result
      /\ b.deps = sub[s].deps /\ b.dirty = sub[s].dirty /\ b.woken = sub[s].woken
  BY <1>0, <1>2 DEF Sub
<1>4. /\ v \in View /\ v.vector = view[s].vector /\ v.refused = w
      /\ v.result = view[s].result /\ v.lost = view[s].lost
  BY <1>0, <1>1 DEF View
<1> HIDE DEF b, v
<1>5. Tells(s, b, v)
  <2>1. /\ Snapped(v.vector) /\ Older(view[s].vector, v.vector)
        /\ Snapped(b.vector) /\ Older(b.vector, v.vector)
    BY <1>0, <1>3, <1>4 DEF Entry, VectorsInOrder, Older
  <2>2. Agree(v) /\ (b.result # None => v.result = b.result)
    BY <1>0, <1>3, <1>4 DEF Entry, ResultsAgree, Agree
  <2>3. ASSUME ~Over(b).dirty
        PROVE  \A k \in DOMAIN w : w[k] # rev[k] => k \in wakes \cup v.lost
    <3>1. ~sub[s].dirty /\ sub[s].woken \cap sub[s].deps = {}
      BY <1>3, <2>3, OverMade
    <3>2. Due(s, w)
      BY <1>0, <3>1 DEF Entry, ChangesDue, Answerable, SentPhases, w
    <3> QED
      BY <1>1, <1>4, <3>1, <3>2 DEF Due
  <2> QED
    BY <1>1, <1>3, <1>4, <2>1, <2>2, <2>3 DEF Tells
<1> QED
  BY <1>0, <1>3, <1>4, <1>5, TellsKeeps

-----------------------------------------------------------------------------
(* The desired set. *)

SubscribedOf(b, w) == [b EXCEPT !.present = TRUE, !.dirty = TRUE, !.vector = w]

LEMMA SubscribedOfMade ==
  ASSUME NEW b \in Sub, NEW w \in Vectors \cup {None}, NEW o, o = SubscribedOf(b, w)
  PROVE  /\ o \in Sub /\ o.present /\ o.dirty /\ o.vector = w /\ o.result = b.result
         /\ o.phase = b.phase /\ o.woken = b.woken /\ o.replaced = b.replaced
         /\ o.swapped = b.swapped /\ o.owed = b.owed
  BY DEF SubscribedOf, Sub

LEMMA SubscribeKeeps ==
  ASSUME SubscriptionsInvariant, NEW s \in Subs, Subscribe(s)
  PROVE  SubscriptionsInvariant'
<1> DEFINE w == view[s].vector
           r == SubscribedOf(Absent, w)
           v == [view[s] EXCEPT !.lost = {}]
<1>0. /\ StateTyped /\ OrderHolds /\ SlotsCounted /\ Entry(s) /\ view[s] \in View
      /\ w \in Vectors \cup {None} /\ ~sub[s].present /\ behind[s] = None
      /\ sub' = [sub EXCEPT ![s] = r] /\ order' = Append(order, s)
      /\ request' = [request EXCEPT ![s] = rev] /\ view' = [view EXCEPT ![s] = v]
      /\ UNCHANGED <<rev, code, wakes, ready, used, ghosts, behind>>
  BY EntryTyped DEF SubscriptionsInvariant, Subscribe, SubscribedOf
<1>1. /\ r \in Sub /\ r.present /\ r.dirty /\ r.vector = w /\ r.result = None
      /\ r.phase = "idle" /\ r.woken = {} /\ ~r.replaced /\ ~r.swapped /\ ~r.owed
  <2> HIDE DEF w
  <2>1. /\ r \in Sub /\ r.present /\ r.dirty /\ r.vector = w /\ r.result = Absent.result
        /\ r.phase = Absent.phase /\ r.woken = Absent.woken
        /\ r.replaced = Absent.replaced /\ r.swapped = Absent.swapped
        /\ r.owed = Absent.owed
    BY <1>0, AbsentTyped, SubscribedOfMade
  <2> HIDE DEF r
  <2> QED
    BY <2>1 DEF Absent
<1>2. v \in View /\ v.vector = w /\ v.result = view[s].result
  BY <1>0 DEF View
<1> HIDE DEF w, r, v
<1>3. /\ sub'[s] = r /\ view'[s] = v /\ request'[s] = rev /\ rev \in [Keys -> Revisions]
      /\ \A x \in Subs \ {s} : /\ sub'[x] = sub[x] /\ view'[x] = view[x]
                               /\ request'[x] = request[x]
  BY <1>0 DEF StateTyped
<1>4. sub[s].phase = "idle"
  BY <1>0 DEF Entry, RunTied, Absent
<1>5. SlotsCounted'
  BY <1>0, <1>1, <1>3, <1>4, RunsSame
<1>6. OrderHolds'
  <2>1. s \notin Range(order) /\ order \in Seq(Subs) /\ IsInjective(order)
    BY <1>0 DEF OrderHolds
  <2>2. /\ order' \in Seq(Subs) /\ Range(order') = Range(order) \cup {s}
        /\ IsInjective(order')
    BY <1>0, <2>1, AppendOne
  <2>3. {x \in Subs : sub'[x].present} = {x \in Subs : sub[x].present} \cup {s}
    BY <1>1, <1>3
  <2>4. Range(order)' = {x \in Subs : sub'[x].present}
    BY <1>0, <2>2, <2>3 DEF OrderHolds
  <2> QED
    BY <2>2, <2>4 DEF OrderHolds
<1>7. StateTyped'
  BY <1>0, <1>1, <1>2, <1>3 DEF StateTyped
<1>8. OneEntry(s)
  BY <1>0, <1>3 DEF OneEntry
<1>9. Entry(s)'
  <2>1. RunTied(s)' /\ ChangesDue(s)'
    BY <1>0, <1>1, <1>3 DEF RunTied, ChangesDue, ReadPhases, SentPhases
  <2>2. Covers(s)'
    <3>1. \A k \in Keys : rev[k] <= rev[k]
      BY <1>3, SubscriptionsAssumption DEF Revisions
    <3> QED
      BY <1>0, <1>1, <1>3, <3>1 DEF Covers, SentPhases
  <2>3. VectorsInOrder(s)'
    BY <1>0, <1>1, <1>2, <1>3
    DEF Entry, VectorsInOrder, ReadPhases, Snapped, Older, Current, w
  <2>4. ResultsAgree(s)'
    BY <1>0, <1>1, <1>2, <1>3 DEF Entry, ResultsAgree, Agree, Parity, w
  <2> QED
    BY <2>1, <2>2, <2>3, <2>4 DEF Entry
<1> QED
  BY <1>0, <1>5, <1>6, <1>7, <1>8, <1>9, OneEntryKeeps

ReplacedOf(b, w, t, g, d) ==
  [b EXCEPT !.vector = w, !.result = t, !.replaced = g, !.owed = g, !.dirty = d,
            !.backoff = FALSE]

LEMMA ReplacedOfMade ==
  ASSUME NEW b \in Sub, NEW w \in Vectors \cup {None}, NEW t \in Results \cup {None},
         NEW g \in BOOLEAN, NEW d \in BOOLEAN, NEW o, o = ReplacedOf(b, w, t, g, d)
  PROVE  /\ o \in Sub /\ o.present = b.present /\ o.phase = b.phase /\ o.code = b.code
         /\ o.deps = b.deps /\ o.fence = b.fence /\ o.read = b.read /\ o.woken = b.woken
         /\ o.swapped = b.swapped /\ o.vector = w /\ o.result = t /\ o.replaced = g
         /\ o.owed = g /\ o.dirty = d
<1>1. /\ o.present = b.present /\ o.phase = b.phase /\ o.code = b.code
      /\ o.deps = b.deps /\ o.fence = b.fence /\ o.read = b.read /\ o.woken = b.woken
      /\ o.swapped = b.swapped /\ o.asked = b.asked /\ o.failed = b.failed
  BY DEF ReplacedOf, Sub
<1>2. /\ o.vector = w /\ o.result = t /\ o.replaced = g /\ o.owed = g /\ o.dirty = d
      /\ o.backoff = FALSE
  BY DEF ReplacedOf, Sub
<1>3. o = [present |-> b.present, dirty |-> d, backoff |-> FALSE, failed |-> b.failed,
           deps |-> b.deps, vector |-> w, result |-> t, phase |-> b.phase,
           asked |-> b.asked, fence |-> b.fence, read |-> b.read, code |-> b.code,
           woken |-> b.woken, replaced |-> g, swapped |-> b.swapped, owed |-> g]
  BY DEF ReplacedOf, Sub
<1>4. o \in Sub
  BY <1>3 DEF Sub
<1> QED
  BY <1>1, <1>2, <1>4

(* A run that goes on may answer no more as it is, and owes the answer.    *)
LEMMA ReplaceKeeps ==
  ASSUME SubscriptionsInvariant, NEW s \in Subs, Replace(s)
  PROVE  SubscriptionsInvariant'
<1> DEFINE h == Has(s)
           t == IF h.result = view[s].result THEN sub[s].result ELSE None
           g == Running(s)
           w == h.vector
           d == sub[s].dirty \/ ~g
           r == ReplacedOf(sub[s], w, t, g, d)
           v == [view[s] EXCEPT !.lost = {}]
<1>0. /\ StateTyped /\ OrderHolds /\ SlotsCounted /\ Entry(s)
      /\ sub[s] \in Sub /\ view[s] \in View /\ sub[s].present
      /\ w \in Vectors \cup {None} /\ t \in Results \cup {None}
      /\ g \in BOOLEAN /\ d \in BOOLEAN
      /\ sub' = [sub EXCEPT ![s] = r]
      /\ request' = [request EXCEPT ![s] = rev] /\ view' = [view EXCEPT ![s] = v]
      /\ UNCHANGED <<rev, code, wakes, ready, order, used, ghosts, behind>>
  BY EntryTyped
  DEF SubscriptionsInvariant, Replace, Replaced, ReplacedOf, Running, Held
<1>1. Snapped(w) /\ Older(w, view[s].vector)
  BY <1>0, HasFollows
<1>2. t # None => t = sub[s].result
  OBVIOUS
<1> HIDE DEF h, w, t, g, d
<1>11. r = ReplacedOf(sub[s], w, t, g, d)
  OBVIOUS
<1> HIDE DEF r
<1>3. /\ r \in Sub /\ r.present /\ r.phase = sub[s].phase /\ r.code = sub[s].code
      /\ r.deps = sub[s].deps /\ r.fence = sub[s].fence /\ r.read = sub[s].read
      /\ r.woken = sub[s].woken /\ r.swapped = sub[s].swapped
      /\ r.vector = w /\ r.result = t /\ r.replaced = g /\ r.owed = g /\ r.dirty = d
  <2>1. sub[s] \in Sub /\ w \in Vectors \cup {None} /\ t \in Results \cup {None}
        /\ g \in BOOLEAN /\ d \in BOOLEAN
    BY <1>0
  <2>2. /\ r \in Sub /\ r.present = sub[s].present /\ r.phase = sub[s].phase
        /\ r.code = sub[s].code /\ r.deps = sub[s].deps /\ r.fence = sub[s].fence
        /\ r.read = sub[s].read /\ r.woken = sub[s].woken /\ r.swapped = sub[s].swapped
        /\ r.vector = w /\ r.result = t /\ r.replaced = g /\ r.owed = g /\ r.dirty = d
    BY <2>1, <1>11, ReplacedOfMade
  <2> QED
    BY <1>0, <2>2
<1>4. v \in View /\ v.vector = view[s].vector /\ v.result = view[s].result
  BY <1>0 DEF View
<1> HIDE DEF v
<1>5. /\ sub'[s] = r /\ view'[s] = v /\ request'[s] = rev /\ rev \in [Keys -> Revisions]
      /\ \A x \in Subs \ {s} : /\ sub'[x] = sub[x] /\ view'[x] = view[x]
                               /\ request'[x] = request[x]
  BY <1>0 DEF StateTyped
<1>6. SlotsCounted'
  BY <1>0, <1>3, <1>5, RunsSame
<1>7. OrderHolds'
  BY <1>0, <1>3, <1>5 DEF OrderHolds
<1>8. StateTyped'
  BY <1>0, <1>3, <1>4, <1>5 DEF StateTyped
<1>9. OneEntry(s)
  BY <1>0, <1>5 DEF OneEntry
<1>10. Entry(s)'
  <2>0. g <=> r.phase # "idle"
    BY <1>3 DEF g, Running
  <2>1. RunTied(s)'
    BY <1>0, <1>3, <1>5, <2>0 DEF Entry, RunTied, ReadPhases, d
  <2>2. ChangesDue(s)'
    BY <1>3, <1>5, <2>0 DEF ChangesDue, SentPhases, d
  <2>3. Covers(s)'
    <3>1. \A k \in Keys : rev[k] <= rev[k]
      BY <1>5, SubscriptionsAssumption DEF Revisions
    <3>2. r.phase = "idle" \/ ~Answerable(s)'
      BY <1>3, <1>5, <2>0 DEF Answerable
    <3> QED
      BY <1>0, <1>5, <3>1, <3>2 DEF Covers, SentPhases
  <2>4. VectorsInOrder(s)'
    <3>1. r.phase = "idle" \/ ~Answerable(s)'
      BY <1>3, <1>5, <2>0 DEF Answerable
    <3> QED
      BY <1>0, <1>1, <1>3, <1>4, <1>5, <3>1
      DEF Entry, VectorsInOrder, Snapped, Older, Current
  <2>5. ResultsAgree(s)'
    BY <1>0, <1>2, <1>3, <1>4, <1>5 DEF Entry, ResultsAgree, Agree, Parity
  <2> QED
    BY <2>1, <2>2, <2>3, <2>4, <2>5 DEF Entry
<1> QED
  BY <1>0, <1>6, <1>7, <1>8, <1>9, <1>10, OneEntryKeeps

(* The client keeps what it had received, and a run of the entry its slot. *)
LEMMA LeaveKeeps ==
  ASSUME SubscriptionsInvariant, NEW s \in Subs, Leave(s)
  PROVE  SubscriptionsInvariant'
<1> DEFINE h == Has(s)
           v == [view[s] EXCEPT !.vector = h.vector, !.result = h.result]
<1>0. /\ StateTyped /\ OrderHolds /\ SlotsCounted /\ Entry(s) /\ view[s] \in View
      /\ sub[s].present /\ Absent \in Sub
      /\ h.vector \in Vectors \cup {None} /\ h.result \in Results \cup {None}
      /\ sub' = [sub EXCEPT ![s] = Absent] /\ order' = Without(s)
      /\ ghosts' = ghosts + IF Running(s) THEN 1 ELSE 0
      /\ request' = [request EXCEPT ![s] = None] /\ view' = [view EXCEPT ![s] = v]
      /\ behind' = [behind EXCEPT ![s] = None]
      /\ UNCHANGED <<rev, code, wakes, ready, used>>
  BY EntryTyped, AbsentTyped DEF SubscriptionsInvariant, Leave, Departs, Held
<1>1. Snapped(h.vector) /\ Agree(h)
  BY <1>0, HasFollows
<1> HIDE DEF h
<1>2. v \in View /\ v.vector = h.vector /\ v.result = h.result
  BY <1>0 DEF View
<1> HIDE DEF v
<1>3. /\ sub'[s] = Absent /\ view'[s] = v /\ request'[s] = None /\ behind'[s] = None
      /\ \A x \in Subs \ {s} : /\ sub'[x] = sub[x] /\ view'[x] = view[x]
                               /\ behind'[x] = behind[x] /\ request'[x] = request[x]
  BY <1>0 DEF StateTyped
<1>4. /\ ~Absent.present /\ Absent.phase = "idle" /\ Absent.woken = {} /\ ~Absent.replaced
      /\ ~Absent.swapped /\ ~Absent.owed /\ Absent.vector = None /\ Absent.result = None
  BY DEF Absent
<1>5. SlotsCounted' /\ ghosts' \in Nat
  <2>1. CASE Running(s)
    <3>1. /\ sub[s].phase # "idle" /\ sub'[s].phase = "idle"
          /\ ghosts' = ghosts + 1 /\ used' = used
      BY <1>0, <1>3, <1>4, <2>1 DEF Running
    <3> QED
      BY <1>0, <1>3, <3>1, RunsEnd
  <2>2. CASE ~Running(s)
    <3>1. ghosts' = ghosts
      BY <1>0, <2>2 DEF StateTyped
    <3> QED
      BY <1>0, <1>3, <1>4, <2>2, <3>1, RunsSame DEF Running, StateTyped
  <2> QED
    BY <2>1, <2>2
<1>6. OrderHolds'
  <2>1. {x \in Subs : sub'[x].present} = {x \in Subs : sub[x].present} \ {s}
    BY <1>3, <1>4
  <2>2. /\ order' \in Seq(Subs) /\ Range(order') = Range(order) \ {s}
        /\ IsInjective(order')
    BY <1>0, WithoutOne
  <2>3. Range(order)' = {x \in Subs : sub'[x].present}
    BY <1>0, <2>1, <2>2 DEF OrderHolds
  <2> QED
    BY <2>2, <2>3 DEF OrderHolds
<1>7. StateTyped'
  BY <1>0, <1>2, <1>3, <1>5 DEF StateTyped
<1>8. OneEntry(s)
  BY <1>0, <1>3 DEF OneEntry
<1>9. Entry(s)'
  <2>1. RunTied(s)' /\ ChangesDue(s)' /\ Covers(s)'
    BY <1>3, <1>4 DEF RunTied, ChangesDue, Covers, ReadPhases, SentPhases
  <2>2. VectorsInOrder(s)'
    BY <1>0, <1>1, <1>2, <1>3, <1>4
    DEF VectorsInOrder, ReadPhases, Snapped, Older, Current
  <2>3. ResultsAgree(s)'
    BY <1>1, <1>2, <1>3, <1>4 DEF ResultsAgree, Agree, Parity
  <2> QED
    BY <2>1, <2>2, <2>3 DEF Entry
<1> QED
  BY <1>0, <1>5, <1>6, <1>7, <1>8, <1>9, OneEntryKeeps

LEMMA ReceivedKeeps ==
  ASSUME SubscriptionsInvariant, NEW s \in Subs, Received(s)
  PROVE  SubscriptionsInvariant'
<1>0. /\ StateTyped /\ OrderHolds /\ SlotsCounted /\ Entry(s) /\ behind[s] # None
      /\ behind' = [behind EXCEPT ![s] = None]
      /\ UNCHANGED <<rev, code, wakes, ready, sub, order, used, ghosts, view, request>>
  BY DEF SubscriptionsInvariant, Received
<1>1. behind'[s] = None /\ \A x \in Subs \ {s} : behind'[x] = behind[x]
  BY <1>0 DEF StateTyped
<1>2. StateTyped' /\ OrderHolds'
  BY <1>0 DEF StateTyped, OrderHolds, Range, IsInjective
<1>3. SlotsCounted'
  BY <1>0, RunsSame
<1>4. OneEntry(s)
  BY <1>0, <1>1 DEF OneEntry
<1>5. Entry(s)'
  <2>1. RunTied(s)'
    BY <1>0, <1>1 DEF Entry, RunTied
  <2>2. ChangesDue(s)'
    BY <1>0 DEF Entry, ChangesDue, Due, Answer
  <2>3. Covers(s)'
    BY <1>0 DEF Entry, Covers, Answerable, Reaches
  <2>4. VectorsInOrder(s)'
    BY <1>0, <1>1 DEF Entry, VectorsInOrder, Answerable, Snapped, Older, Current
  <2>5. ResultsAgree(s)'
    BY <1>0, <1>1 DEF Entry, ResultsAgree, Agree, Parity
  <2> QED
    BY <2>1, <2>2, <2>3, <2>4, <2>5 DEF Entry
<1> QED
  BY <1>0, <1>2, <1>3, <1>4, <1>5, OneEntryKeeps

LEMMA GhostEndsKeeps ==
  ASSUME SubscriptionsInvariant, GhostEnds
  PROVE  SubscriptionsInvariant'
<1>0. /\ StateTyped /\ OrderHolds /\ SlotsCounted /\ \A s \in Subs : Entry(s)
      /\ ghosts > 0 /\ ghosts' = ghosts - 1 /\ used' = used - 1
      /\ UNCHANGED <<rev, code, wakes, ready, sub, order, view, behind, request>>
  BY DEF SubscriptionsInvariant, GhostEnds
<1>1. Runs' = Runs
  BY <1>0 DEF Runs
<1>2. /\ used = ghosts + Cardinality(Runs) /\ used \in Nat /\ used <= Slots
      /\ ghosts \in Nat /\ Slots \in Nat /\ Cardinality(Runs) \in Nat
  BY <1>0, RunsFinite, SubscriptionsAssumption DEF SlotsCounted, Runs, StateTyped
<1>3. used' = ghosts' + Cardinality(Runs') /\ used' \in 0..Slots /\ ghosts' \in Nat
  BY <1>0, <1>1, <1>2
<1>4. StateTyped' /\ OrderHolds'
  BY <1>0, <1>3 DEF StateTyped, OrderHolds, Range, IsInjective
<1>5. SlotsCounted'
  BY <1>3 DEF SlotsCounted, Runs
<1>6. \A s \in Subs : Entry(s)'
  BY <1>0, EntrySame
<1> QED
  BY <1>4, <1>5, <1>6 DEF SubscriptionsInvariant

-----------------------------------------------------------------------------
(* Steps of all entries together. *)

LEMMA EntriesKeep ==
  ASSUME SubscriptionsInvariant, StateTyped', UNCHANGED <<order, used, ghosts>>,
         \A x \in Subs : /\ sub'[x].present = sub[x].present
                         /\ (sub'[x].phase = "idle") <=> (sub[x].phase = "idle"),
         \A x \in Subs : Entry(x)'
  PROVE  SubscriptionsInvariant'
<1>1. OrderHolds'
  BY DEF SubscriptionsInvariant, OrderHolds, Range, IsInjective
<1>2. SlotsCounted'
  BY RunsSame DEF SubscriptionsInvariant
<1> QED
  BY <1>1, <1>2 DEF SubscriptionsInvariant

ReboundOf(b, g) ==
  [b EXCEPT !.swapped = g, !.vector = None, !.dirty = TRUE, !.backoff = FALSE]

LEMMA ReboundOfMade ==
  ASSUME NEW b \in Sub, NEW g \in BOOLEAN
  PROVE  /\ ReboundOf(b, g) \in Sub /\ ReboundOf(b, g).dirty
         /\ ReboundOf(b, g).present = b.present /\ ReboundOf(b, g).phase = b.phase
         /\ ReboundOf(b, g).deps = b.deps /\ ReboundOf(b, g).result = b.result
         /\ ReboundOf(b, g).fence = b.fence /\ ReboundOf(b, g).read = b.read
         /\ ReboundOf(b, g).woken = b.woken /\ ReboundOf(b, g).replaced = b.replaced
         /\ ReboundOf(b, g).owed = b.owed /\ ReboundOf(b, g).vector = None
         /\ ReboundOf(b, g).swapped = g
  BY DEF ReboundOf, Sub

(* No run begun before a swap may answer, and every entry runs again.      *)
LEMMA RebindKeeps ==
  ASSUME SubscriptionsInvariant, Rebind
  PROVE  SubscriptionsInvariant'
<1>0. /\ StateTyped /\ \A x \in Subs : Entry(x)
      /\ code' \in 0..MaxCode
      /\ sub' = [x \in Subs |-> IF sub[x].present THEN ReboundOf(sub[x], Running(x))
                                ELSE sub[x]]
      /\ request' = [x \in Subs |-> IF sub[x].present THEN rev ELSE request[x]]
      /\ UNCHANGED <<rev, wakes, ready, order, used, ghosts, view, behind>>
  <2>1. code' = code + 1 /\ code < MaxCode
    BY DEF Rebind
  <2>2. code \in 0..MaxCode
    BY DEF SubscriptionsInvariant, StateTyped
  <2>3. code' \in 0..MaxCode
    BY <2>1, <2>2, SubscriptionsAssumption
  <2> QED
    BY <2>3 DEF SubscriptionsInvariant, Rebind, ReboundOf
<1>1. ASSUME NEW x \in Subs
      PROVE  /\ sub'[x] \in Sub /\ sub'[x].present = sub[x].present
             /\ sub'[x].phase = sub[x].phase
             /\ Entry(x)'
  <2>0. /\ sub[x] \in Sub /\ Running(x) \in BOOLEAN
        /\ sub'[x] = IF sub[x].present THEN ReboundOf(sub[x], Running(x)) ELSE sub[x]
        /\ request'[x] = IF sub[x].present THEN rev ELSE request[x]
        /\ Entry(x) /\ rev \in [Keys -> Revisions]
        /\ UNCHANGED <<rev, wakes, view, behind>>
    BY <1>0, EntryTyped DEF Running, StateTyped
  <2>1. CASE ~sub[x].present
    <3>1. sub'[x] = sub[x] /\ request'[x] = request[x] /\ sub[x] = Absent
      BY <2>0, <2>1 DEF Entry, RunTied
    <3>2. sub[x].phase = "idle" /\ ~sub[x].present
      BY <3>1 DEF Absent
    <3>3. RunTied(x)'
      BY <2>0, <3>1, <3>2 DEF Entry, RunTied, ReadPhases
    <3>4. ChangesDue(x)'
      BY <3>1, <3>2 DEF ChangesDue, SentPhases
    <3>5. Covers(x)'
      BY <2>0, <3>1, <3>2 DEF Entry, Covers, SentPhases
    <3>6. VectorsInOrder(x)'
      BY <2>0, <3>1, <3>2 DEF Entry, VectorsInOrder, ReadPhases, Snapped, Older, Current
    <3>7. ResultsAgree(x)'
      BY <2>0, <3>1 DEF Entry, ResultsAgree, Agree, Parity
    <3> QED
      BY <2>0, <3>1, <3>3, <3>4, <3>5, <3>6, <3>7 DEF Entry
  <2>2. CASE sub[x].present
    <3> DEFINE b == sub[x]
               g == Running(x)
               r == ReboundOf(b, g)
    <3>0. sub'[x] = r /\ request'[x] = rev /\ b.present
      BY <2>0, <2>2
    <3>1. /\ r \in Sub /\ r.dirty /\ r.present = b.present /\ r.phase = b.phase
          /\ r.deps = b.deps /\ r.result = b.result /\ r.fence = b.fence /\ r.read = b.read
          /\ r.woken = b.woken /\ r.replaced = b.replaced /\ r.owed = b.owed
          /\ r.vector = None /\ r.swapped = g
      BY <2>0, ReboundOfMade
    <3>2. g <=> r.phase # "idle"
      BY <3>1 DEF Running
    <3> HIDE DEF b, g, r
    <3>3. RunTied(x)'
      <4>1. RunTied(x)
        BY <2>0 DEF Entry
      <4> QED
        BY <3>0, <3>1, <3>2, <4>1 DEF RunTied, ReadPhases, b
    <3>4. ChangesDue(x)'
      BY <3>0, <3>1 DEF ChangesDue
    <3>5. r.phase = "idle" \/ ~Answerable(x)'
      BY <3>0, <3>1, <3>2 DEF Answerable
    <3>6. Covers(x)'
      <4>1. \A k \in Keys : rev[k] <= rev[k]
        BY <2>0, SubscriptionsAssumption DEF Revisions
      <4> QED
        BY <2>0, <3>0, <3>5, <4>1 DEF Covers, SentPhases
    <3>7. VectorsInOrder(x)'
      BY <2>0, <3>0, <3>1, <3>5 DEF Entry, VectorsInOrder, Snapped, Older, Current, b
    <3>8. ResultsAgree(x)'
      BY <2>0, <3>0, <3>1 DEF Entry, ResultsAgree, Agree, Parity, b
    <3> QED
      BY <3>0, <3>1, <3>3, <3>4, <3>6, <3>7, <3>8 DEF Entry, b
  <2> QED
    BY <2>1, <2>2
<1>2. StateTyped'
  <2>1. sub' \in [Subs -> Sub]
    BY <1>0, <1>1
  <2>2. request' \in [Subs -> [Keys -> Revisions] \cup {None}]
    BY <1>0 DEF StateTyped
  <2> QED
    BY <1>0, <2>1, <2>2 DEF StateTyped
<1> QED
  BY <1>0, <1>1, <1>2, EntriesKeep

DirtiedOf(b) == [b EXCEPT !.dirty = TRUE, !.backoff = FALSE]

LEMMA DirtiedOfMade ==
  ASSUME NEW b \in Sub
  PROVE  /\ DirtiedOf(b) \in Sub /\ DirtiedOf(b).dirty
         /\ DirtiedOf(b).present = b.present /\ DirtiedOf(b).phase = b.phase
         /\ DirtiedOf(b).deps = b.deps /\ DirtiedOf(b).result = b.result
         /\ DirtiedOf(b).fence = b.fence /\ DirtiedOf(b).read = b.read
         /\ DirtiedOf(b).woken = b.woken /\ DirtiedOf(b).replaced = b.replaced
         /\ DirtiedOf(b).owed = b.owed /\ DirtiedOf(b).vector = b.vector
         /\ DirtiedOf(b).swapped = b.swapped /\ DirtiedOf(b).code = b.code
  BY DEF DirtiedOf, Sub

LEMMA ReconcileKeeps ==
  ASSUME SubscriptionsInvariant, Reconcile
  PROVE  SubscriptionsInvariant'
<1>0. /\ StateTyped /\ \A x \in Subs : Entry(x)
      /\ ready' = TRUE
      /\ sub' = [x \in Subs |-> IF sub[x].present THEN DirtiedOf(sub[x]) ELSE sub[x]]
      /\ view' = [x \in Subs |-> [view[x] EXCEPT !.lost = {}]]
      /\ UNCHANGED <<rev, code, wakes, order, used, ghosts, behind, request>>
  BY DEF SubscriptionsInvariant, Reconcile, DirtiedOf
<1>1. ASSUME NEW x \in Subs
      PROVE  /\ sub'[x] \in Sub /\ sub'[x].present = sub[x].present
             /\ sub'[x].phase = sub[x].phase /\ view'[x] \in View
             /\ Entry(x)'
  <2>0. /\ sub[x] \in Sub /\ Entry(x)
        /\ sub'[x] = IF sub[x].present THEN DirtiedOf(sub[x]) ELSE sub[x]
        /\ view'[x] = [view[x] EXCEPT !.lost = {}] /\ view[x] \in View
        /\ UNCHANGED <<rev, code, wakes, behind, request>>
    BY <1>0, EntryTyped
  <2>1. /\ view'[x].vector = view[x].vector /\ view'[x].result = view[x].result
        /\ view'[x] \in View
    BY <2>0 DEF View
  <2>2. sub[x].present => sub'[x].dirty
    BY <2>0, DirtiedOfMade
  <2>3. /\ sub'[x] \in Sub /\ sub'[x].present = sub[x].present
        /\ sub'[x].phase = sub[x].phase /\ sub'[x].deps = sub[x].deps
        /\ sub'[x].result = sub[x].result /\ sub'[x].fence = sub[x].fence
        /\ sub'[x].read = sub[x].read /\ sub'[x].woken = sub[x].woken
        /\ sub'[x].replaced = sub[x].replaced /\ sub'[x].owed = sub[x].owed
        /\ sub'[x].vector = sub[x].vector /\ sub'[x].swapped = sub[x].swapped
        /\ sub'[x].code = sub[x].code
    BY <2>0, DirtiedOfMade
  <2>4. ~sub[x].present => sub'[x] = sub[x] /\ sub[x].phase = "idle"
    BY <2>0 DEF Entry, RunTied, Absent
  <2>5. RunTied(x)'
    BY <2>0, <2>2, <2>3, <2>4 DEF Entry, RunTied
  <2>6. ChangesDue(x)'
    BY <2>2, <2>3, <2>4 DEF ChangesDue, SentPhases
  <2>7. Covers(x)'
    BY <2>0, <2>3 DEF Entry, Covers, Answerable, Reaches
  <2>8. VectorsInOrder(x)'
    <3>1. VectorsInOrder(x)
      BY <2>0 DEF Entry
    <3> QED
      BY <2>0, <2>1, <2>3, <3>1 DEF VectorsInOrder, Answerable, Snapped, Older, Current
  <2>9. ResultsAgree(x)'
    BY <2>0, <2>1, <2>3 DEF Entry, ResultsAgree, Agree, Parity
  <2> QED
    BY <2>1, <2>3, <2>5, <2>6, <2>7, <2>8, <2>9 DEF Entry
<1>2. StateTyped'
  <2>1. sub' \in [Subs -> Sub] /\ view' \in [Subs -> View]
    BY <1>0, <1>1
  <2> QED
    BY <1>0, <2>1 DEF StateTyped
<1> QED
  BY <1>0, <1>1, <1>2, EntriesKeep

WokenOf(b, W, d, g) == [b EXCEPT !.woken = W, !.dirty = d, !.backoff = g]

LEMMA WokenOfMade ==
  ASSUME NEW b \in Sub, NEW W \in SUBSET Keys, NEW d \in BOOLEAN, NEW g \in BOOLEAN
  PROVE  /\ WokenOf(b, W, d, g) \in Sub
         /\ WokenOf(b, W, d, g).present = b.present
         /\ WokenOf(b, W, d, g).phase = b.phase /\ WokenOf(b, W, d, g).deps = b.deps
         /\ WokenOf(b, W, d, g).result = b.result /\ WokenOf(b, W, d, g).fence = b.fence
         /\ WokenOf(b, W, d, g).read = b.read /\ WokenOf(b, W, d, g).owed = b.owed
         /\ WokenOf(b, W, d, g).replaced = b.replaced
         /\ WokenOf(b, W, d, g).vector = b.vector /\ WokenOf(b, W, d, g).code = b.code
         /\ WokenOf(b, W, d, g).swapped = b.swapped
         /\ WokenOf(b, W, d, g).woken = W /\ WokenOf(b, W, d, g).dirty = d
  BY DEF WokenOf, Sub

(* A wake is remembered by the run it comes into, and by the entry if it   *)
(* is known to matter.                                                     *)
LEMMA WokenMade ==
  ASSUME NEW b \in Sub, NEW k \in Keys
  PROVE  /\ Woken(b, k) \in Sub
         /\ Woken(b, k).present = b.present /\ Woken(b, k).phase = b.phase
         /\ Woken(b, k).deps = b.deps /\ Woken(b, k).result = b.result
         /\ Woken(b, k).fence = b.fence /\ Woken(b, k).read = b.read
         /\ Woken(b, k).owed = b.owed /\ Woken(b, k).replaced = b.replaced
         /\ Woken(b, k).vector = b.vector /\ Woken(b, k).code = b.code
         /\ Woken(b, k).swapped = b.swapped
         /\ b.phase = "idle" => Woken(b, k).woken = b.woken
         /\ b.phase # "idle" => Woken(b, k).woken = b.woken \cup {k}
         /\ Woken(b, k).dirty <=> (b.dirty \/ k \in b.deps)
<1> DEFINE W == IF b.phase = "idle" THEN b.woken ELSE b.woken \cup {k}
           d == b.dirty \/ k \in b.deps
           g == b.backoff /\ k \notin b.deps
           o == Woken(b, k)
<1>0. b.woken \subseteq Keys
  BY DEF Sub
<1>1. W \in SUBSET Keys /\ d \in BOOLEAN /\ g \in BOOLEAN
  BY <1>0
<1>2. o = WokenOf(b, W, d, g)
  BY DEF Woken, WokenOf
<1> HIDE DEF W, d, g, o
<1>3. /\ o \in Sub /\ o.present = b.present /\ o.phase = b.phase /\ o.deps = b.deps
      /\ o.result = b.result /\ o.fence = b.fence /\ o.read = b.read /\ o.owed = b.owed
      /\ o.replaced = b.replaced /\ o.vector = b.vector /\ o.code = b.code
      /\ o.swapped = b.swapped /\ o.woken = W /\ o.dirty = d
  BY <1>1, <1>2, WokenOfMade
<1> QED
  BY <1>3 DEF W, d, o

LEMMA WakeKeeps ==
  ASSUME SubscriptionsInvariant, NEW k \in Keys, Wake(k)
  PROVE  SubscriptionsInvariant'
<1>0. /\ StateTyped /\ \A x \in Subs : Entry(x)
      /\ wakes' = wakes \ {k}
      /\ sub' = [x \in Subs |-> IF sub[x].present THEN Woken(sub[x], k) ELSE sub[x]]
      /\ view' = [x \in Subs |-> [view[x] EXCEPT !.lost = @ \ {k}]]
      /\ UNCHANGED <<rev, code, ready, order, used, ghosts, behind, request>>
  BY DEF SubscriptionsInvariant, Wake
<1>1. ASSUME NEW x \in Subs
      PROVE  /\ sub'[x] \in Sub /\ sub'[x].present = sub[x].present
             /\ sub'[x].phase = sub[x].phase /\ view'[x] \in View
             /\ Entry(x)'
  <2> DEFINE L == view[x].lost \ {k}
  <2>0. /\ sub[x] \in Sub /\ Entry(x)
        /\ sub'[x] = IF sub[x].present THEN Woken(sub[x], k) ELSE sub[x]
        /\ view'[x] = [view[x] EXCEPT !.lost = L] /\ view[x] \in View
        /\ L \subseteq Keys
        /\ wakes' = wakes \ {k}
        /\ UNCHANGED <<rev, code, behind, request>>
    BY <1>0, EntryTyped
  <2>1. /\ view'[x].vector = view[x].vector /\ view'[x].result = view[x].result
        /\ view'[x].refused = view[x].refused /\ view'[x].lost = view[x].lost \ {k}
        /\ view'[x] \in View
    <3>1. view'[x].lost = L
      BY <2>0 DEF View
    <3> HIDE DEF L
    <3>2. /\ view'[x].vector = view[x].vector /\ view'[x].result = view[x].result
          /\ view'[x].refused = view[x].refused /\ view'[x] \in View
      BY <2>0 DEF View
    <3> QED
      BY <3>1, <3>2 DEF L
  <2> HIDE DEF L
  <2>2. /\ sub'[x] \in Sub /\ sub'[x].present = sub[x].present
        /\ sub'[x].phase = sub[x].phase /\ sub'[x].deps = sub[x].deps
        /\ sub'[x].result = sub[x].result /\ sub'[x].fence = sub[x].fence
        /\ sub'[x].read = sub[x].read
        /\ sub'[x].replaced = sub[x].replaced /\ sub'[x].owed = sub[x].owed
        /\ sub'[x].vector = sub[x].vector /\ sub'[x].swapped = sub[x].swapped
        /\ sub'[x].code = sub[x].code
    BY <2>0, WokenMade
  <2>3. ~sub[x].present => sub'[x] = sub[x] /\ sub[x].phase = "idle"
    BY <2>0 DEF Entry, RunTied, Absent
  <2>4. /\ sub[x].phase = "idle" => sub'[x].woken = sub[x].woken
        /\ sub[x].phase # "idle" => sub'[x].woken = sub[x].woken \cup {k}
        /\ sub[x].dirty => sub'[x].dirty
        /\ sub[x].present /\ ~sub'[x].dirty => k \notin sub[x].deps
    BY <2>0, <2>3, WokenMade
  <2>5. RunTied(x)'
    BY <2>0, <2>2, <2>3, <2>4 DEF Entry, RunTied
  <2>6. ChangesDue(x)'
    <3>1. Answer(x)' = Answer(x)
      BY <2>1 DEF Answer
    <3>2. ChangesDue(x)
      BY <2>0 DEF Entry
    <3>3. ASSUME sub[x].present, sub[x].phase = "idle", ~sub'[x].dirty
          PROVE  Due(x, Answer(x))'
      BY <2>0, <2>1, <2>4, <3>1, <3>2, <3>3 DEF ChangesDue, Due
    <3>4. ASSUME sub[x].phase # "idle", Due(x, sub[x].fence)
          PROVE  Due(x, sub[x].fence)'
      BY <2>0, <2>1, <2>2, <2>4, <3>4 DEF Due
    <3>5. ASSUME sub[x].phase # "idle", Due(x, sub[x].read)
          PROVE  Due(x, sub[x].read)'
      BY <2>0, <2>1, <2>2, <2>4, <3>5 DEF Due
    <3> QED
      BY <2>2, <2>4, <3>1, <3>2, <3>3, <3>4, <3>5 DEF ChangesDue, SentPhases
  <2>7. Covers(x)'
    BY <2>0, <2>2 DEF Entry, Covers, Answerable, Reaches
  <2>8. VectorsInOrder(x)'
    <3>1. VectorsInOrder(x)
      BY <2>0 DEF Entry
    <3> QED
      BY <2>0, <2>1, <2>2, <3>1 DEF VectorsInOrder, Answerable, Snapped, Older, Current
  <2>9. ResultsAgree(x)'
    BY <2>0, <2>1, <2>2 DEF Entry, ResultsAgree, Agree, Parity
  <2> QED
    BY <2>1, <2>2, <2>5, <2>6, <2>7, <2>8, <2>9 DEF Entry
<1>2. StateTyped'
  <2>1. sub' \in [Subs -> Sub] /\ view' \in [Subs -> View]
    BY <1>0, <1>1
  <2> QED
    BY <1>0, <2>1 DEF StateTyped
<1> QED
  BY <1>0, <1>1, <1>2, EntriesKeep

LEMMA WakeLostKeeps ==
  ASSUME SubscriptionsInvariant, NEW k \in Keys, WakeLost(k)
  PROVE  SubscriptionsInvariant'
<1>0. /\ StateTyped /\ \A x \in Subs : Entry(x)
      /\ wakes' = wakes \ {k}
      /\ view' = [x \in Subs |-> [view[x] EXCEPT !.lost = @ \cup {k}]]
      /\ UNCHANGED <<rev, code, ready, sub, order, used, ghosts, behind, request>>
  BY DEF SubscriptionsInvariant, WakeLost
<1>1. ASSUME NEW x \in Subs
      PROVE  view'[x] \in View /\ Entry(x)'
  <2> DEFINE L == view[x].lost \cup {k}
  <2>0. /\ Entry(x)
        /\ view'[x] = [view[x] EXCEPT !.lost = L] /\ view[x] \in View
        /\ L \subseteq Keys
        /\ wakes' = wakes \ {k}
        /\ UNCHANGED <<rev, code, sub, behind, request>>
    BY <1>0, EntryTyped
  <2>1. /\ view'[x].vector = view[x].vector /\ view'[x].result = view[x].result
        /\ view'[x].refused = view[x].refused /\ view'[x].lost = view[x].lost \cup {k}
        /\ view'[x] \in View
    <3>1. view'[x].lost = L
      BY <2>0 DEF View
    <3> HIDE DEF L
    <3>2. /\ view'[x].vector = view[x].vector /\ view'[x].result = view[x].result
          /\ view'[x].refused = view[x].refused /\ view'[x] \in View
      BY <2>0 DEF View
    <3> QED
      BY <3>1, <3>2 DEF L
  <2> HIDE DEF L
  <2>2. RunTied(x)'
    BY <2>0 DEF Entry, RunTied
  <2>3. ChangesDue(x)'
    <3>1. Answer(x)' = Answer(x)
      BY <2>1 DEF Answer
    <3>2. \A v : Due(x, v) => \A j \in DOMAIN v : v[j] # rev[j] =>
                                j \in wakes' \cup sub[x].woken \cup view'[x].lost
      BY <2>0, <2>1 DEF Due
    <3> QED
      BY <2>0, <3>1, <3>2 DEF Entry, ChangesDue, Due
  <2>4. Covers(x)'
    BY <2>0 DEF Entry, Covers, Answerable, Reaches
  <2>5. VectorsInOrder(x)'
    <3>1. VectorsInOrder(x)
      BY <2>0 DEF Entry
    <3> QED
      BY <2>0, <2>1, <3>1 DEF VectorsInOrder, Answerable, Snapped, Older, Current
  <2>6. ResultsAgree(x)'
    BY <2>0, <2>1 DEF Entry, ResultsAgree, Agree, Parity
  <2> QED
    BY <2>1, <2>2, <2>3, <2>4, <2>5, <2>6 DEF Entry
<1>2. StateTyped'
  <2>1. view' \in [Subs -> View]
    BY <1>0, <1>1
  <2> QED
    BY <1>0, <2>1 DEF StateTyped
<1> QED
  BY <1>0, <1>1, <1>2, EntriesKeep

(* A write's bound: no revision passes the number of writes.               *)
LEMMA WriteBounded ==
  ASSUME StateTyped, NEW k \in Keys, Cardinality(Written) < MaxWrites
  PROVE  rev[k] \in Nat /\ rev[k] + 1 \in Revisions
<1>1. rev[k] \in 0..MaxWrites /\ MaxWrites \in Nat
  BY SubscriptionsAssumption DEF StateTyped, Revisions
<1>2. SUFFICES ASSUME rev[k] = MaxWrites PROVE FALSE
  BY <1>1 DEF Revisions
<1> DEFINE all == {k} \X (1..MaxWrites)
<1>3. IsFiniteSet(1..MaxWrites) /\ Cardinality(1..MaxWrites) = MaxWrites
  BY <1>1, FS_Interval
<1>4. IsFiniteSet({k}) /\ Cardinality({k}) = 1
  BY FS_Singleton
<1>5. Cardinality(all) = MaxWrites
  <2>1. Cardinality(all) = 1 * MaxWrites
    BY <1>3, <1>4, FS_Product
  <2> QED
    BY <1>1, <2>1
<1>6. IsFiniteSet(Keys \X (1..MaxWrites))
  BY <1>3, FS_Product, SubscriptionsAssumption
<1>7. Written \subseteq Keys \X (1..MaxWrites)
  BY DEF Written
<1>8. IsFiniteSet(Written)
  BY <1>6, <1>7, FS_Subset
<1>9. all \subseteq Written
  <2>1. \A w \in all : w[1] = k /\ w[2] \in 1..MaxWrites
    OBVIOUS
  <2>2. \A w \in all : w \in Keys \X (1..MaxWrites)
    OBVIOUS
  <2>3. \A w \in all : w[2] <= rev[w[1]]
    BY <1>1, <1>2, <2>1
  <2> HIDE DEF all
  <2> QED
    BY <2>2, <2>3 DEF Written
<1>10. Cardinality(all) <= Cardinality(Written) /\ Cardinality(Written) \in Nat
  BY <1>8, <1>9, FS_Subset, FS_CardinalityType
<1> HIDE DEF all
<1> QED
  BY <1>1, <1>5, <1>10

(* A write makes old every vector that has its key.                        *)
LEMMA WriteAges ==
  ASSUME StateTyped, NEW k \in Keys, rev' = [rev EXCEPT ![k] = @ + 1],
         rev' \in [Keys -> Revisions],
         NEW v \in Vectors \cup {None}, Snapped(v)
  PROVE  /\ v # None => /\ \A j \in DOMAIN v : v[j] <= rev'[j]
                        /\ Current(v)' => DOMAIN v = Depends(rev')
         /\ v # None /\ Current(v)' => Current(v)
<1> SUFFICES ASSUME v # None
             PROVE  /\ \A j \in DOMAIN v : v[j] <= rev'[j]
                    /\ Current(v)' => DOMAIN v = Depends(rev') /\ Current(v)
  OBVIOUS
<1>1. /\ DOMAIN v \subseteq Keys
      /\ \A j \in DOMAIN v : v[j] <= rev[j] /\ v[j] \in Int
      /\ Current(v) => DOMAIN v = Depends(rev)
  BY VectorsAre, SubscriptionsAssumption DEF Snapped, Revisions
<1>2. /\ rev'[k] = rev[k] + 1 /\ \A j \in Keys \ {k} : rev'[j] = rev[j]
      /\ \A j \in Keys : rev[j] \in Int /\ rev[j] <= rev'[j]
  BY SubscriptionsAssumption DEF StateTyped, Revisions
<1>3. \A j \in DOMAIN v : v[j] <= rev'[j]
  BY <1>1, <1>2
<1>4. ASSUME Current(v)'
      PROVE  DOMAIN v = Depends(rev') /\ Current(v)
  <2>1. \A j \in DOMAIN v : v[j] = rev'[j]
    BY <1>4 DEF Current
  <2>2. k \notin DOMAIN v
    BY <1>1, <1>2, <2>1
  <2>3. \A j \in DOMAIN v : v[j] = rev[j] /\ rev'[j] = rev[j]
    BY <1>1, <1>2, <2>1, <2>2
  <2>4. Current(v) /\ DOMAIN v = Depends(rev)
    BY <1>1, <2>3 DEF Current
  <2>5. Depends(rev') = Depends(rev)
    BY <2>3, <2>4, DependsAssumption DEF StateTyped
  <2> QED
    BY <2>4, <2>5
<1> QED
  BY <1>3, <1>4

LEMMA WriteKeeps ==
  ASSUME SubscriptionsInvariant, NEW k \in Keys, Write(k)
  PROVE  SubscriptionsInvariant'
<1>0. /\ StateTyped /\ \A x \in Subs : Entry(x)
      /\ rev' = [rev EXCEPT ![k] = @ + 1] /\ wakes' = wakes \cup {k}
      /\ UNCHANGED <<code, ready, sub, order, used, ghosts, view, behind, request>>
  BY DEF SubscriptionsInvariant, Write
<1>1. rev[k] \in Nat /\ rev[k] + 1 \in Revisions
  BY <1>0, WriteBounded DEF Write
<1>2. /\ rev' \in [Keys -> Revisions] /\ rev \in [Keys -> Revisions]
      /\ \A j \in Keys \ {k} : rev'[j] = rev[j]
      /\ \A j \in Keys : rev[j] \in Int /\ rev'[j] \in Int /\ rev[j] <= rev'[j]
  BY <1>0, <1>1, SubscriptionsAssumption DEF StateTyped, Revisions
<1>3. StateTyped'
  BY <1>0, <1>2 DEF StateTyped
<1>4. ASSUME NEW x \in Subs
      PROVE  Entry(x)'
  <2>0. /\ Entry(x) /\ wakes' = wakes \cup {k}
        /\ UNCHANGED <<code, sub, view, behind, request>>
    BY <1>0
  <2>1. RunTied(x)'
    BY <2>0 DEF Entry, RunTied
  <2>2. ASSUME NEW v \in Vectors \cup {None}, v # None, Due(x, v)
        PROVE  \A j \in DOMAIN v : v[j] # rev'[j] =>
                 j \in wakes' \cup sub[x].woken \cup view[x].lost
    <3>1. DOMAIN v \subseteq Keys
      BY <2>2, VectorsAre
    <3> QED
      BY <1>2, <2>0, <2>2, <3>1 DEF Due
  <2>3. ChangesDue(x)'
    <3>1. /\ Answer(x)' = Answer(x) /\ Answer(x) \in Vectors \cup {None}
          /\ sub[x].fence \in Vectors \cup {None} /\ sub[x].read \in Vectors \cup {None}
      BY <1>0, <2>0, EntryTyped DEF Answer
    <3>2. /\ sub[x].phase = "matched" => sub[x].fence # None
          /\ sub[x].phase \in SentPhases => sub[x].read # None
      BY <2>0 DEF Entry, RunTied, ReadPhases, SentPhases
    <3>3. sub[x].present /\ sub[x].phase = "idle" /\ ~sub[x].dirty =>
            /\ Answer(x) # None /\ DOMAIN Answer(x) \subseteq sub[x].deps
            /\ Due(x, Answer(x))'
      BY <2>0, <2>2, <3>1 DEF Entry, ChangesDue, Due
    <3>4. sub[x].phase = "matched" /\ ~sub[x].replaced /\ ~sub[x].dirty =>
            Due(x, sub[x].fence)'
      BY <2>0, <2>2, <3>1, <3>2 DEF Entry, ChangesDue, Due
    <3>5. sub[x].phase \in SentPhases /\ ~sub[x].replaced /\ ~sub[x].dirty =>
            Due(x, sub[x].read)'
      BY <2>0, <2>2, <3>1, <3>2 DEF Entry, ChangesDue, Due
    <3> QED
      BY <2>0, <3>1, <3>3, <3>4, <3>5 DEF ChangesDue
  <2>4. Covers(x)'
    <3>1. request[x] # None => \A j \in Keys : request[x][j] <= rev'[j]
      <4> SUFFICES ASSUME request[x] # None, NEW j \in Keys
                   PROVE  request[x][j] <= rev'[j]
        OBVIOUS
      <4>1. request[x][j] \in Int /\ request[x][j] <= rev[j]
        BY <1>0, <2>0, SubscriptionsAssumption DEF Entry, Covers, StateTyped, Revisions
      <4> QED
        BY <1>2, <4>1
    <3> QED
      BY <2>0, <3>1 DEF Entry, Covers, Answerable, Reaches
  <2>5. VectorsInOrder(x)'
    <3>1. \A v \in Vectors \cup {None} : Snapped(v) =>
            /\ v # None => /\ DOMAIN v \subseteq Keys
                           /\ \A j \in DOMAIN v : v[j] <= rev'[j]
                           /\ Current(v)' => DOMAIN v = Depends(rev')
            /\ v # None /\ Current(v)' => Current(v)
      BY <1>0, <1>2, WriteAges DEF Snapped
    <3>2. VectorsInOrder(x)
      BY <2>0 DEF Entry
    <3>3. /\ view[x].vector \in Vectors \cup {None} /\ sub[x].vector \in Vectors \cup {None}
          /\ sub[x].read \in Vectors \cup {None}
          /\ behind[x] # None => behind[x].vector \in Vectors \cup {None}
      BY <1>0, EntryTyped
    <3>4. Snapped(view[x].vector)' /\ Snapped(sub[x].vector)'
      BY <2>0, <3>1, <3>2, <3>3 DEF VectorsInOrder, Snapped, Current
    <3>5. Older(sub[x].vector, view[x].vector)'
      BY <2>0, <3>1, <3>2, <3>3 DEF VectorsInOrder, Older, Current
    <3>6. behind[x] # None => /\ Snapped(behind[x].vector)'
                              /\ Older(behind[x].vector, view[x].vector)'
      BY <2>0, <3>1, <3>2, <3>3 DEF VectorsInOrder, Snapped, Older, Current
    <3>7. sub[x].phase \in ReadPhases => /\ Snapped(sub[x].read)'
                                         /\ Older(view[x].vector, sub[x].read)'
      BY <2>0, <3>1, <3>2, <3>3 DEF VectorsInOrder, Snapped, Older, Current
    <3> QED
      BY <2>0, <3>2, <3>4, <3>5, <3>6, <3>7 DEF VectorsInOrder, Answerable
  <2>6. ResultsAgree(x)'
    BY <2>0 DEF Entry, ResultsAgree, Agree, Parity
  <2> QED
    BY <2>1, <2>3, <2>4, <2>5, <2>6 DEF Entry
<1> QED
  BY <1>0, <1>3, <1>4, EntriesKeep

-----------------------------------------------------------------------------
(* All steps. *)

LEMMA InitHolds == Init => SubscriptionsInvariant
<1> SUFFICES ASSUME Init PROVE SubscriptionsInvariant
  OBVIOUS
<1>0. /\ rev = [k \in Keys |-> 0] /\ code = 0 /\ wakes = {} /\ ready = FALSE
      /\ sub = [s \in Subs |-> Absent] /\ order = <<>> /\ used = 0 /\ ghosts = 0
      /\ behind = [s \in Subs |-> None] /\ request = [s \in Subs |-> None]
      /\ view = [s \in Subs |-> [vector |-> None, result |-> None, refused |-> None,
                                 lost |-> {}]]
  BY DEF Init
<1>1. 0 \in Revisions /\ 0 \in 0..MaxCode /\ 0 \in 0..Slots /\ 0 \in Nat
  BY SubscriptionsAssumption DEF Revisions
<1>2. StateTyped
  BY <1>0, <1>1, AbsentTyped DEF StateTyped, View
<1>3. /\ ~Absent.present /\ Absent.phase = "idle" /\ Absent.woken = {} /\ ~Absent.replaced
      /\ ~Absent.swapped /\ ~Absent.owed /\ Absent.vector = None /\ Absent.result = None
  BY DEF Absent
<1>4. OrderHolds
  <2>1. {s \in Subs : sub[s].present} = {}
    BY <1>0, <1>3
  <2>2. order \in Seq(Subs) /\ DOMAIN order = {}
    BY <1>0
  <2> QED
    BY <2>1, <2>2 DEF OrderHolds, Range, IsInjective
<1>5. SlotsCounted
  <2>1. {s \in Subs : sub[s].phase # "idle"} = {}
    BY <1>0, <1>3
  <2>2. Cardinality({s \in Subs : sub[s].phase # "idle"}) = 0
    BY <2>1, FS_EmptySet
  <2> QED
    BY <1>0, <2>2 DEF SlotsCounted
<1>6. ASSUME NEW s \in Subs PROVE Entry(s)
  <2>1. /\ sub[s] = Absent /\ behind[s] = None /\ request[s] = None
        /\ view[s].vector = None
    BY <1>0
  <2>2. RunTied(s) /\ ChangesDue(s) /\ Covers(s)
    BY <1>3, <2>1 DEF RunTied, ChangesDue, Covers, ReadPhases, SentPhases
  <2>3. VectorsInOrder(s) /\ ResultsAgree(s)
    BY <1>3, <2>1 DEF VectorsInOrder, ResultsAgree, Agree, Snapped, Older, ReadPhases
  <2> QED
    BY <2>2, <2>3 DEF Entry
<1> QED
  BY <1>2, <1>4, <1>5, <1>6 DEF SubscriptionsInvariant

LEMMA ProceedKeeps ==
  ASSUME SubscriptionsInvariant, NEW s \in Subs, Proceed(s)
  PROVE  SubscriptionsInvariant'
<1>1. CASE Discard(s) \/ VerifyFails(s) \/ UpToDate(s) \/ Deliver(s)
  BY <1>1, DiscardKeeps, VerifyFailsKeeps, UpToDateKeeps, DeliverKeeps
<1>2. CASE Fails(s) \/ Refuses(s) \/ TakeFence(s) \/ Snapshot(s)
  BY <1>2, FailsKeeps, RefusesKeeps, TakeFenceKeeps, SnapshotKeeps
<1>3. CASE Observe(s) \/ Verify(s) \/ VerifyFence(s)
  BY <1>3, ObserveKeeps, VerifyKeeps, VerifyFenceKeeps
<1> QED
  BY <1>1, <1>2, <1>3 DEF Proceed

LEMMA NextKeeps ==
  ASSUME SubscriptionsInvariant, [Next]_vars
  PROVE  SubscriptionsInvariant'
<1>1. ASSUME NEW k \in Keys, Write(k) \/ Wake(k) \/ WakeLost(k)
      PROVE  SubscriptionsInvariant'
  BY <1>1, WriteKeeps, WakeKeeps, WakeLostKeeps
<1>2. CASE Reconcile \/ Rebind \/ GhostEnds
  BY <1>2, ReconcileKeeps, RebindKeeps, GhostEndsKeeps
<1>3. ASSUME NEW s \in Subs, Subscribe(s) \/ Replace(s) \/ Leave(s) \/ Received(s)
      PROVE  SubscriptionsInvariant'
  BY <1>3, SubscribeKeeps, ReplaceKeeps, LeaveKeeps, ReceivedKeeps
<1>4. ASSUME NEW s \in Subs, Start(s) \/ BackoffEnds(s) \/ Proceed(s)
      PROVE  SubscriptionsInvariant'
  BY <1>4, StartKeeps, BackoffEndsKeeps, ProceedKeeps
<1>5. CASE UNCHANGED vars
  <2>1. /\ UNCHANGED <<rev, code, wakes, ready, sub, order, used, ghosts, view, behind,
                       request>>
    BY <1>5 DEF vars
  <2>2. StateTyped'
    BY <2>1 DEF SubscriptionsInvariant, StateTyped
  <2>3. \A s \in Subs : Entry(s)'
    BY <2>1, EntrySame DEF SubscriptionsInvariant
  <2> QED
    BY <2>1, <2>2, <2>3, EntriesKeep
<1> QED
  BY <1>1, <1>2, <1>3, <1>4, <1>5 DEF Next

(* In every reachable state, for any subscriptions, keys, slots and        *)
(* writes: what a run was woken by is remembered until its end decides     *)
(* (Subscriptions.ts 860-868, 573-588), a replace it does not cover is     *)
(* owed (727-738), and no vector a client may fall back to is one that     *)
(* could still be the company's while it was sent another.                 *)
THEOREM SubscriptionsInvariantAlways == Spec => []SubscriptionsInvariant
<1>1. Init => SubscriptionsInvariant
  BY InitHolds
<1>2. SubscriptionsInvariant /\ [Next]_vars => SubscriptionsInvariant'
  BY NextKeeps
<1> QED
  BY <1>1, <1>2, PTL DEF Spec

(* Every entry, view and slot keeps its type: the order of the pump is of  *)
(* the entries that are present, each once, and the slots taken are just   *)
(* those of the runs, gone entries' included (pump and release).           *)
THEOREM SubscriptionsTyped == Spec => []TypeOK
<1>1. SubscriptionsInvariant => TypeOK
  BY DEF SubscriptionsInvariant, StateTyped, OrderHolds, SlotsCounted, TypeOK
<1> QED
  BY <1>1, SubscriptionsInvariantAlways, PTL

(* What a client holds is one true state of the data: the result it was    *)
(* sent goes with the vector it was sent last, also when a frame carried   *)
(* the vector alone (the up-to-date and unchanged-result frames).          *)
THEOREM ResultMatchesVectorAlways == Spec => []ResultMatchesVector
<1>1. SubscriptionsInvariant => ResultMatchesVector
  BY DEF SubscriptionsInvariant, Entry, ResultsAgree, Agree, Parity, ResultMatchesVector,
         Result
<1> QED
  BY <1>1, SubscriptionsInvariantAlways, PTL

(* No write is forgotten: an entry at rest whose client has an old answer  *)
(* is about to be woken, or has lost exactly the wakes that would tell it, *)
(* whenever they came in its runs (reconcile, and a run's finally).        *)
THEOREM StaleIsDueAlways == Spec => []StaleIsDue
<1>1. SubscriptionsInvariant => StaleIsDue
  <2> SUFFICES ASSUME SubscriptionsInvariant, NEW s \in Subs,
                      sub[s].present, ~Running(s), ~sub[s].dirty
               PROVE  /\ Answer(s) # None
                      /\ \A k \in DOMAIN Answer(s) :
                           Answer(s)[k] # rev[k] => k \in wakes \cup view[s].lost
    BY DEF StaleIsDue
  <2>1. sub[s].phase = "idle" /\ sub[s].woken = {}
    BY DEF SubscriptionsInvariant, Entry, RunTied, Running
  <2> QED
    BY <2>1 DEF SubscriptionsInvariant, Entry, ChangesDue, Due
<1> QED
  BY <1>1, SubscriptionsInvariantAlways, PTL

-----------------------------------------------------------------------------
(* What a frame answers. *)

AnswersCover(s) ==
  /\ request[s] # None /\ request'[s] = None /\ sub'[s].present /\ ~sub'[s].backoff
       => \A k \in DOMAIN Answer(s)' : Answer(s)'[k] >= request[s][k]
  /\ sub'[s].present /\ view'[s].result # view[s].result => view'[s].result[2] = code

LEMMA QuietCovers ==
  ASSUME NEW s \in Subs,
         ((request'[s] = request[s]) \/ (request'[s] # None)) \/ ~sub'[s].present,
         view'[s].result = view[s].result \/ ~sub'[s].present
  PROVE  AnswersCover(s)
  BY DEF AnswersCover

LEMMA RevisionsAsked ==
  ASSUME StateTyped
  PROVE  rev # None
<1>1. rev \in [Keys -> Revisions]
  BY DEF StateTyped
<1>2. rev \in Vectors
  BY <1>1 DEF Vectors
<1> QED
  BY <1>2, NoneAssumption

(* A frame of a run that covers the request, with the handlers of now.     *)
LEMMA TellsCovers ==
  ASSUME SubscriptionsInvariant, NEW s \in Subs, NEW b \in Sub, NEW v \in View,
         EndsRun(s, b), Sends(s, v),
         request[s] # None /\ ~b.backoff =>
           Reaches(IF v.refused # None THEN v.refused ELSE v.vector, request[s]),
         v.result # view[s].result => v.result[2] = code
  PROVE  \A x \in Subs : AnswersCover(x)
<1> DEFINE a == IF v.refused # None THEN v.refused ELSE v.vector
<1>0. /\ view' = [view EXCEPT ![s] = v] /\ request' = [request EXCEPT ![s] = None]
      /\ sub' = [sub EXCEPT ![s] = Over(b)]
      /\ view \in [Subs -> View] /\ sub \in [Subs -> Sub]
      /\ request \in [Subs -> [Keys -> Revisions] \cup {None}]
  BY DEF SubscriptionsInvariant, StateTyped, EndsRun, Sends
<1>1. /\ view'[s] = v /\ sub'[s].backoff = b.backoff
      /\ \A x \in Subs \ {s} : view'[x] = view[x] /\ request'[x] = request[x]
  BY <1>0, OverMade
<1>2. Answer(s)' = a
  BY <1>1 DEF Answer
<1> HIDE DEF a
<1>3. request[s] # None /\ ~b.backoff => \A k \in DOMAIN a : a[k] >= request[s][k]
  BY DEF Reaches, a
<1>4. AnswersCover(s)
  BY <1>1, <1>2, <1>3 DEF AnswersCover
<1>5. ASSUME NEW x \in Subs \ {s} PROVE AnswersCover(x)
  BY <1>1, QuietCovers
<1> QED
  BY <1>4, <1>5

LEMMA UpToDateCovers ==
  ASSUME SubscriptionsInvariant, NEW s \in Subs, UpToDate(s)
  PROVE  \A x \in Subs : AnswersCover(x)
<1> DEFINE f == sub[s].fence
           b == [sub[s] EXCEPT !.deps = DOMAIN f, !.owed = FALSE]
           v == [view[s] EXCEPT !.vector = f, !.refused = None]
<1>0. /\ Entry(s) /\ sub[s] \in Sub /\ view[s] \in View
      /\ sub[s].phase = "matched" /\ Answerable(s) /\ EndsRun(s, b) /\ Sends(s, v)
  BY EntryTyped DEF SubscriptionsInvariant, UpToDate
<1>1. f \in Vectors /\ f # None /\ DOMAIN f \subseteq Keys
  BY <1>0, EntryTyped, VectorsAre DEF SubscriptionsInvariant, Entry, RunTied
<1>2. request[s] # None => Reaches(f, request[s])
  BY <1>0 DEF Entry, Covers
<1> HIDE DEF f
<1>3. /\ b \in Sub /\ v \in View /\ v.vector = f /\ v.refused = None
      /\ v.result = view[s].result
  BY <1>0, <1>1 DEF Sub, View
<1> HIDE DEF b, v
<1> QED
  BY <1>0, <1>2, <1>3, TellsCovers

LEMMA DeliverCovers ==
  ASSUME SubscriptionsInvariant, NEW s \in Subs, Deliver(s)
  PROVE  \A x \in Subs : AnswersCover(x)
<1> DEFINE w == sub[s].read
           c == Result(w, sub[s].code)
           t == IF sub[s].result = c THEN view[s].result ELSE c
           b == [sub[s] EXCEPT !.deps = DOMAIN w, !.vector = w, !.result = c,
                               !.failed = FALSE, !.backoff = FALSE, !.owed = FALSE]
           v == [view[s] EXCEPT !.vector = w, !.refused = None, !.result = t]
<1>0. /\ StateTyped /\ Entry(s) /\ sub[s] \in Sub /\ view[s] \in View
      /\ sub[s].phase \in {"read", "verified"} /\ Answerable(s)
      /\ EndsRun(s, b) /\ Sends(s, v)
  BY EntryTyped DEF SubscriptionsInvariant, Deliver, Deliverable
<1>1. w \in Vectors /\ w # None /\ DOMAIN w \subseteq Keys
  BY <1>0, EntryTyped, VectorsAre DEF Entry, RunTied, ReadPhases
<1>2. request[s] # None => Reaches(w, request[s])
  BY <1>0 DEF Entry, Covers, SentPhases
<1>3. sub[s].code = code
  BY <1>0 DEF Entry, RunTied, Answerable
<1>4. c \in Results /\ c[2] = code
  BY <1>0, <1>1, <1>3, EntryTyped, ResultTyped
<1>5. t # view[s].result => t[2] = code
  BY <1>4
<1>6. t \in Results \cup {None}
  BY <1>0, <1>4, EntryTyped
<1> HIDE DEF w, c, t
<1>7. b \in Sub
  BY <1>0, <1>1, <1>4 DEF Sub
<1>8. v \in View /\ v.vector = w /\ v.refused = None /\ v.result = t
  BY <1>0, <1>1, <1>6 DEF View
<1> HIDE DEF b, v
<1> QED
  BY <1>0, <1>2, <1>5, <1>6, <1>7, <1>8, TellsCovers

LEMMA FailsCovers ==
  ASSUME SubscriptionsInvariant, NEW s \in Subs, Fails(s)
  PROVE  \A x \in Subs : AnswersCover(x)
<1> DEFINE b == [sub[s] EXCEPT !.failed = TRUE, !.backoff = TRUE, !.dirty = TRUE,
                               !.owed = FALSE]
<1>0. sub[s] \in Sub /\ view[s] \in View /\ EndsRun(s, b) /\ Sends(s, view[s])
  BY EntryTyped DEF SubscriptionsInvariant, Fails
<1>1. b \in Sub /\ b.backoff
  BY <1>0 DEF Sub
<1> HIDE DEF b
<1> QED
  BY <1>0, <1>1, TellsCovers

LEMMA RefusesCovers ==
  ASSUME SubscriptionsInvariant, NEW s \in Subs, Refuses(s)
  PROVE  \A x \in Subs : AnswersCover(x)
<1> DEFINE w == sub[s].read
           b == [sub[s] EXCEPT !.failed = TRUE, !.owed = FALSE]
           v == [view[s] EXCEPT !.refused = w]
<1>0. /\ StateTyped /\ Entry(s) /\ sub[s] \in Sub /\ view[s] \in View
      /\ sub[s].phase = "read" /\ Answerable(s) /\ EndsRun(s, b) /\ Sends(s, v)
  BY EntryTyped DEF SubscriptionsInvariant, Refuses
<1>1. w \in Vectors /\ w # None
  BY <1>0, EntryTyped DEF Entry, RunTied, ReadPhases
<1>2. request[s] # None => Reaches(w, request[s])
  BY <1>0 DEF Entry, Covers, SentPhases
<1> HIDE DEF w
<1>3. b \in Sub /\ v \in View /\ v.refused = w /\ v.result = view[s].result
  BY <1>0, <1>1 DEF Sub, View
<1> HIDE DEF b, v
<1> QED
  BY <1>0, <1>1, <1>2, <1>3, TellsCovers

(* Nothing else answers: a request stays, is asked anew, or its entry goes.*)
LEMMA OthersCover ==
  ASSUME SubscriptionsInvariant, NEW x \in Subs
  PROVE  /\ \A k \in Keys : Write(k) \/ Wake(k) \/ WakeLost(k) => AnswersCover(x)
         /\ Reconcile \/ Rebind \/ GhostEnds => AnswersCover(x)
         /\ \A s \in Subs :
              (\/ Subscribe(s) \/ Replace(s) \/ Leave(s) \/ Received(s) \/ Start(s)
               \/ BackoffEnds(s) \/ Discard(s) \/ TakeFence(s) \/ Snapshot(s)
               \/ Observe(s) \/ Verify(s) \/ VerifyFence(s) \/ VerifyFails(s))
                => AnswersCover(x)
<1>0. /\ StateTyped /\ view \in [Subs -> View] /\ sub \in [Subs -> Sub]
      /\ request \in [Subs -> [Keys -> Revisions] \cup {None}] /\ rev # None
      /\ view[x] \in View
  BY RevisionsAsked DEF SubscriptionsInvariant, StateTyped
<1>1. ASSUME UNCHANGED <<request, view>>
      PROVE  AnswersCover(x)
  BY <1>1, QuietCovers
<1>2. ASSUME NEW s \in Subs, request' = [request EXCEPT ![s] = rev],
             view' = [view EXCEPT ![s].lost = {}]
      PROVE  AnswersCover(x)
  <2>1. view'[x].result = view[x].result
    BY <1>0, <1>2 DEF View
  <2>2. (request'[x] = request[x]) \/ (request'[x] # None)
    BY <1>0, <1>2
  <2> QED
    BY <2>1, <2>2, QuietCovers
<1>3. ASSUME NEW k \in Keys, Write(k) \/ Wake(k) \/ WakeLost(k)
      PROVE  AnswersCover(x)
  <2>1. CASE Write(k)
    BY <1>1, <2>1 DEF Write
  <2>2. CASE Wake(k) \/ WakeLost(k)
    <3>1. view'[x].result = view[x].result
      BY <1>0, <2>2 DEF Wake, WakeLost, View
    <3>2. UNCHANGED request
      BY <2>2 DEF Wake, WakeLost
    <3> QED
      BY <3>1, <3>2, QuietCovers
  <2> QED
    BY <1>3, <2>1, <2>2
<1>4. ASSUME Reconcile \/ Rebind \/ GhostEnds
      PROVE  AnswersCover(x)
  <2>1. CASE Reconcile
    <3>1. view'[x].result = view[x].result /\ UNCHANGED request
      BY <1>0, <2>1 DEF Reconcile, View
    <3> QED
      BY <3>1, QuietCovers
  <2>2. CASE Rebind
    <3>1. UNCHANGED view /\ ((request'[x] = request[x]) \/ (request'[x] # None))
      BY <1>0, <2>2 DEF Rebind
    <3> QED
      BY <3>1, QuietCovers
  <2>3. CASE GhostEnds
    BY <1>1, <2>3 DEF GhostEnds
  <2> QED
    BY <1>4, <2>1, <2>2, <2>3
<1>5. ASSUME NEW s \in Subs, Subscribe(s) \/ Replace(s)
      PROVE  AnswersCover(x)
  BY <1>2, <1>5 DEF Subscribe, Replace
<1>6. ASSUME NEW s \in Subs, Leave(s)
      PROVE  AnswersCover(x)
  <2>1. /\ x = s => ~sub'[x].present
        /\ x # s => view'[x] = view[x] /\ request'[x] = request[x]
    BY <1>0, <1>6 DEF Leave, Departs, Absent
  <2> QED
    BY <2>1, QuietCovers
<1>7. ASSUME NEW s \in Subs, \/ Received(s) \/ Start(s) \/ BackoffEnds(s) \/ Discard(s)
                             \/ VerifyFails(s)
      PROVE  AnswersCover(x)
  BY <1>1, <1>7 DEF Received, Start, BackoffEnds, Discard, VerifyFails, SendsNothing
<1>8. ASSUME NEW s \in Subs, \/ TakeFence(s) \/ Snapshot(s) \/ Observe(s) \/ Verify(s)
                             \/ VerifyFence(s)
      PROVE  AnswersCover(x)
  BY <1>1, <1>8 DEF TakeFence, Snapshot, Observe, Verify, VerifyFence, Step, SendsNothing
<1> QED
  BY <1>3, <1>4, <1>5, <1>6, <1>7, <1>8

LEMMA NextCovers ==
  ASSUME SubscriptionsInvariant, [Next]_vars, NEW x \in Subs
  PROVE  AnswersCover(x) \/ UNCHANGED vars
<1>1. ASSUME NEW s \in Subs, UpToDate(s) \/ Deliver(s) \/ Fails(s) \/ Refuses(s)
      PROVE  AnswersCover(x)
  BY <1>1, UpToDateCovers, DeliverCovers, FailsCovers, RefusesCovers
<1> QED
  BY <1>1, OthersCover DEF Next, Proceed

(* A client is never told something older than its question: what answers  *)
(* a subscribe, a replace or a handler swap was true when that was         *)
(* admitted or later, though a run begun before may be what answers it,    *)
(* and no result read by the handlers before a swap is sent after it       *)
(* (answerable, and the second fence of a run a replace came into).        *)
THEOREM AnswersCoverRequestsAlways == Spec => AnswersCoverRequests
<1>1. SubscriptionsInvariant /\ [Next]_vars => [\A s \in Subs : AnswersCover(s)]_vars
  BY NextCovers
<1>2. SubscriptionsInvariant /\ [Next]_vars =>
        [\A s \in Subs :
           /\ request[s] # None /\ request'[s] = None /\ sub'[s].present /\ ~sub'[s].backoff
                => \A k \in DOMAIN Answer(s)' : Answer(s)'[k] >= request[s][k]
           /\ sub'[s].present /\ view'[s].result # view[s].result
                => view'[s].result[2] = code]_vars
  BY <1>1 DEF AnswersCover
<1> QED
  BY <1>2, SubscriptionsInvariantAlways, PTL DEF Spec, AnswersCoverRequests
=============================================================================
