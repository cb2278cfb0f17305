-------------------------- MODULE CompanyPoolProofs --------------------------
(***************************************************************************)
(* Theorems about CompanyPool, for any companies, requests, connections,   *)
(* entries, limits and bounds: the host's budget and every company's       *)
(* maximum hold, leases are exclusive, the counters say what is there and  *)
(* no wake-up is lost.                                                     *)
(***************************************************************************)
EXTENDS CompanyPool, TLAPS, FiniteSetTheorems

-----------------------------------------------------------------------------
(* The invariant. *)

(* An entry some fiber may still come back to.                             *)
InUse(e) == ~closed[e] \/ \E r \in Requests : entry[r] = e

(* What a fiber has at each place.                                         *)
RequestTied(r) ==
  /\ pc[r] \in {"out", "read"} => entry[r] = NoEntry
  /\ pc[r] = "read" => seen[r] >= 1
  /\ pc[r] \notin {"out", "read"} =>
       entry[r] # NoEntry /\ 1 <= seen[r] /\ seen[r] <= target[entry[r]]
  /\ held[r] # NoSlot <=> pc[r] \in {"opening", "leased"}
  /\ pc[r] \notin {"draining", "evicting"} => closes[r] = {}
  /\ from[r] # NoEntry <=> pc[r] = "evicting"
  /\ pc[r] = "evicting" => \E v \in Slots : closes[r] = {v}

(* A retained entry is open, its company's and has a target.               *)
RetainedOpen ==
  \A c \in Companies : registry[c] # NoEntry =>
    ~closed[registry[c]] /\ company[registry[c]] = c /\ target[registry[c]] >= 1

(* A connection's place: among an entry's idle ones, held, awaited by who  *)
(* closes it, or gone from all of these.                                   *)
SlotTied(s) ==
  /\ Live(s) <=> owner[s] # NoEntry
  /\ s \in candidates =>
       conn[s] = "open" /\ s \in idle[owner[s]] /\ \A r \in Requests : held[r] # s
  /\ s \in doomed => Live(s) /\ closed[owner[s]]
  /\ Live(s) /\ closed[owner[s]] => conn[s] = "closing" \/ s \in doomed

ClosesTied(r) ==
  \A s \in closes[r] :
    /\ conn[s] \in {"closing", "none"}
    /\ \A q \in Requests : held[q] # s /\ (q # r => s \notin closes[q])

HeldTied(r) ==
  held[r] # NoSlot =>
    /\ Live(held[r]) => owner[held[r]] = entry[r]
    /\ \A q \in Requests \ {r} : held[q] # held[r]
    /\ pc[r] = "leased" /\ ~closed[entry[r]] => conn[held[r]] = "open"

IdleTied(e) ==
  InUse(e) => \A s \in idle[e] :
    /\ Live(s) => owner[s] = e
    /\ \A r \in Requests : held[r] # s /\ s \notin closes[r]
    /\ \A f \in Entries \ {e} : InUse(f) => s \notin idle[f]
    /\ ~closed[e] => conn[s] = "open" /\ s \in candidates

Places ==
  /\ \A s \in Slots : SlotTied(s)
  /\ \A r \in Requests : ClosesTied(r) /\ HeldTied(r)
  /\ \A e \in Entries : IdleTied(e)

(* The counters. *)
LiveSlots == {s \in Slots : Live(s)}
Evicting == {r \in Requests : pc[r] = "evicting"}
AdmittedTo(e) == {r \in Requests : entry[r] = e /\ pc[r] \in Admitted}
EvictsFrom(e) == {r \in Requests : from[r] = e}

CountsHold ==
  /\ openBackends = Cardinality(LiveSlots) + Cardinality(Evicting)
  /\ \A e \in Entries : /\ active[e] = Cardinality(AdmittedTo(e))
                        /\ retiring[e] = Cardinality(EvictsFrom(e))

OneDrains ==
  /\ \A e \in Entries :
       draining[e] = (\E r \in Requests : entry[r] = e /\ pc[r] = "draining")
  /\ \A r, q \in Requests :
       pc[r] = "draining" /\ pc[q] = "draining" /\ entry[r] = entry[q] => r = q

(* A newcomer whose victim has closed has its room already.                *)
Promised == {r \in Evicting : \A s \in closes[r] : ~Live(s)}

BudgetHolds == Cardinality(LiveSlots) + Cardinality(Promised) <= MaxBackends

(* Where a connection of an open entry is.                                 *)
Accounted(e, s) ==
  \/ s \in idle[e]
  \/ \E r \in Requests : \/ held[r] = s /\ entry[r] = e
                         \/ s \in closes[r] /\ from[r] = e
                         \/ s \in closes[r] /\ pc[r] = "draining" /\ entry[r] = e

(* What is idle, admitted and being evicted stays within the pool, and it  *)
(* is all there is.  The pool is replaced only when nothing of it is left, *)
(* or when one fiber closes all that is left.                              *)
Ceiling(e) ==
  ~closed[e] =>
    /\ Cardinality(idle[e]) + active[e] + retiring[e] <= pool[e]
    /\ \A s \in Owned(e) : Accounted(e, s)
    /\ ~draining[e] => \A s \in Owned(e) : gen[s] = pool[e]
    /\ draining[e] => /\ idle[e] = {} /\ active[e] = 0 /\ retiring[e] = 0
                      /\ \A s \in Owned(e) : Cardinality(Owned(e)) <= gen[s]
                      /\ \A s, t \in Owned(e) : gen[s] = gen[t]

(* Who sleeps on its company is blocked, and by what.                      *)
Waits(r) ==
  /\ pc[r] = "onCompany" =>
       \/ draining[entry[r]] \/ active[entry[r]] + retiring[entry[r]] > 0
       \/ r \in Reserving /\ (target[entry[r]] # seen[r] \/ Wanted(entry[r]) < 2)
  /\ pc[r] = "onHost" =>
       openBackends >= MaxBackends /\ candidates = {} /\ idle[entry[r]] = {}

PoolInvariant ==
  /\ TypeOK
  /\ \A r \in Requests : RequestTied(r)
  /\ RetainedOpen /\ Places /\ CountsHold /\ OneDrains /\ BudgetHolds
  /\ \A e \in Entries : Ceiling(e)
  /\ \A r \in Requests : Waits(r)

-----------------------------------------------------------------------------
(* Finite sets and what they count. *)

LEMMA SmallSets ==
  ASSUME NEW S, S \subseteq Slots \/ S \subseteq Requests
  PROVE  IsFiniteSet(S) /\ Cardinality(S) \in Nat
<1>1. IsFiniteSet(S)
  BY FS_Subset, PoolAssumption
<1>. QED BY <1>1, FS_CardinalityType

LEMMA CardAdd ==
  ASSUME NEW S, IsFiniteSet(S), NEW T, NEW x, T = S \cup {x}, x \notin S
  PROVE  Cardinality(T) = Cardinality(S) + 1
  BY FS_AddElement

LEMMA CardDrop ==
  ASSUME NEW S, IsFiniteSet(S), NEW T, NEW x, T = S \ {x}, x \in S
  PROVE  Cardinality(T) = Cardinality(S) - 1
  BY FS_RemoveElement

(* A set that may have gained one member.                                  *)
LEMMA CardGains ==
  ASSUME NEW S, IsFiniteSet(S), NEW T, NEW x, T \subseteq S \cup {x}
  PROVE  Cardinality(T) <= Cardinality(S) + 1
<1>1. /\ IsFiniteSet(S \cup {x})
      /\ \/ Cardinality(S \cup {x}) = Cardinality(S)
         \/ Cardinality(S \cup {x}) = Cardinality(S) + 1
  BY FS_AddElement
<1>2. IsFiniteSet(T) /\ Cardinality(T) <= Cardinality(S \cup {x})
  BY <1>1, FS_Subset
<1>3. /\ Cardinality(T) \in Nat /\ Cardinality(S) \in Nat
      /\ Cardinality(S \cup {x}) \in Nat
  BY <1>1, <1>2, FS_CardinalityType
<1>. QED BY <1>1, <1>2, <1>3

(* The sets the counters count are finite.                                 *)
LEMMA Counted ==
  ASSUME TypeOK, NEW e \in Entries
  PROVE  /\ IsFiniteSet(LiveSlots) /\ Cardinality(LiveSlots) \in Nat
         /\ IsFiniteSet(Evicting) /\ Cardinality(Evicting) \in Nat
         /\ IsFiniteSet(Promised) /\ Cardinality(Promised) \in Nat
         /\ IsFiniteSet(AdmittedTo(e)) /\ Cardinality(AdmittedTo(e)) \in Nat
         /\ IsFiniteSet(EvictsFrom(e)) /\ Cardinality(EvictsFrom(e)) \in Nat
         /\ IsFiniteSet(Owned(e)) /\ Cardinality(Owned(e)) \in Nat
         /\ IsFiniteSet(idle[e]) /\ Cardinality(idle[e]) \in Nat
<1>1. /\ LiveSlots \subseteq Slots /\ Owned(e) \subseteq Slots /\ idle[e] \subseteq Slots
      /\ Evicting \subseteq Requests /\ Promised \subseteq Requests
      /\ AdmittedTo(e) \subseteq Requests /\ EvictsFrom(e) \subseteq Requests
  BY DEF TypeOK, LiveSlots, Owned, Evicting, Promised, AdmittedTo, EvictsFrom
<1>. QED BY <1>1, SmallSets

(* An admission is counted, and so is an eviction.                         *)
LEMMA AdmissionCounted ==
  ASSUME TypeOK, CountsHold, NEW r \in Requests, entry[r] # NoEntry, pc[r] \in Admitted
  PROVE  active[entry[r]] >= 1
<1>1. entry[r] \in Entries /\ r \in AdmittedTo(entry[r])
  BY DEF TypeOK, AdmittedTo
<1>2. Cardinality(AdmittedTo(entry[r])) # 0
  BY <1>1, Counted, FS_EmptySet
<1>. QED BY <1>1, <1>2, Counted DEF CountsHold

LEMMA EvictionCounted ==
  ASSUME TypeOK, CountsHold, NEW r \in Requests, from[r] # NoEntry
  PROVE  retiring[from[r]] >= 1
<1>1. from[r] \in Entries /\ r \in EvictsFrom(from[r])
  BY DEF TypeOK, EvictsFrom
<1>2. Cardinality(EvictsFrom(from[r])) # 0
  BY <1>1, Counted, FS_EmptySet
<1>. QED BY <1>1, <1>2, Counted DEF CountsHold

(* An open entry without admissions or evictions, and which no fiber       *)
(* drains, has idle connections only.                                      *)
LEMMA OnlyIdle ==
  ASSUME TypeOK, \A q \in Requests : RequestTied(q), CountsHold, OneDrains,
         NEW e \in Entries, Ceiling(e), ~closed[e],
         active[e] = 0, retiring[e] = 0, ~draining[e]
  PROVE  Owned(e) \subseteq idle[e]
<1>1. SUFFICES ASSUME NEW s \in Owned(e), s \notin idle[e] PROVE FALSE
  OBVIOUS
<1>2. PICK q \in Requests :
        \/ held[q] = s /\ entry[q] = e
        \/ s \in closes[q] /\ from[q] = e
        \/ s \in closes[q] /\ pc[q] = "draining" /\ entry[q] = e
  BY <1>1 DEF Ceiling, Accounted
<1>3. s \in Slots /\ s # NoSlot /\ e # NoEntry
  BY PoolAssumption DEF Owned
<1>4. CASE held[q] = s /\ entry[q] = e
  <2>1. pc[q] \in Admitted
    BY <1>3, <1>4 DEF RequestTied, Admitted
  <2>. QED BY <1>3, <1>4, <2>1, AdmissionCounted
<1>5. CASE from[q] = e
  BY <1>3, <1>5, EvictionCounted
<1>6. CASE pc[q] = "draining" /\ entry[q] = e
  BY <1>6 DEF OneDrains
<1>. QED BY <1>2, <1>4, <1>5, <1>6

-----------------------------------------------------------------------------
(* What leaves each part of the invariant as it is. *)

(* A fiber goes on as it was, or is woken.                                 *)
LEMMA TiedKept ==
  ASSUME TypeOK, TypeOK', NEW q \in Requests, RequestTied(q),
         entry'[q] = entry[q], seen'[q] = seen[q], held'[q] = held[q],
         closes'[q] = closes[q], from'[q] = from[q],
         pc'[q] = pc[q] \/ (pc[q] \in Sleeping /\ pc'[q] = "trying"),
         entry[q] # NoEntry => target'[entry[q]] >= target[entry[q]]
  PROVE  RequestTied(q)'
<1>1. entry[q] # NoEntry => /\ entry[q] \in Entries
                            /\ target[entry[q]] \in Int /\ target'[entry[q]] \in Int
  BY PoolAssumption DEF TypeOK
<1>2. seen[q] \in Int
  BY PoolAssumption DEF TypeOK
<1>. QED BY <1>1, <1>2 DEF RequestTied, Sleeping

(* Nothing that a sleeper waits for has come.                              *)
Undisturbed(q) ==
  pc'[q] \in Sleeping =>
    /\ pc'[q] = pc[q] /\ entry'[q] = entry[q] /\ seen'[q] = seen[q]
    /\ target'[entry[q]] >= target[entry[q]]
    /\ pc[q] = "onCompany" =>
         /\ draining[entry[q]] => draining'[entry[q]]
         /\ active'[entry[q]] >= active[entry[q]]
         /\ retiring'[entry[q]] >= retiring[entry[q]]
    /\ pc[q] = "onHost" =>
         /\ openBackends' >= openBackends /\ candidates' \subseteq candidates
         /\ idle'[entry[q]] \subseteq idle[entry[q]]

LEMMA WaitsKept ==
  ASSUME TypeOK, TypeOK', NEW q \in Requests, RequestTied(q), Waits(q), Undisturbed(q)
  PROVE  Waits(q)'
<1>. SUFFICES ASSUME pc'[q] \in Sleeping PROVE Waits(q)'
  BY DEF Waits, Sleeping
<1>1. /\ pc'[q] = pc[q] /\ entry'[q] = entry[q] /\ seen'[q] = seen[q]
      /\ pc[q] \in Sleeping
  BY DEF Undisturbed
<1>2. entry[q] \in Entries /\ seen[q] <= target[entry[q]] /\ seen[q] \in Int
  BY <1>1, PoolAssumption DEF RequestTied, Sleeping, TypeOK
<1>3. /\ target[entry[q]] \in Int /\ target'[entry[q]] \in Int
      /\ active[entry[q]] \in Nat /\ active'[entry[q]] \in Nat
      /\ retiring[entry[q]] \in Nat /\ retiring'[entry[q]] \in Nat
      /\ openBackends \in Nat /\ openBackends' \in Nat /\ MaxBackends \in Nat
  BY <1>2, PoolAssumption DEF TypeOK
<1>4. CASE pc[q] = "onCompany"
  <2>1. /\ target'[entry[q]] >= target[entry[q]]
        /\ draining[entry[q]] => draining'[entry[q]]
        /\ active'[entry[q]] + retiring'[entry[q]] >= active[entry[q]] + retiring[entry[q]]
    BY <1>1, <1>3, <1>4 DEF Undisturbed
  <2>2. \/ draining[entry[q]] \/ active[entry[q]] + retiring[entry[q]] > 0
        \/ q \in Reserving /\ (target[entry[q]] # seen[q] \/ Wanted(entry[q]) < 2)
    BY <1>4 DEF Waits
  <2>0. target'[entry[q]] = seen[q] =>
          target[entry[q]] = seen[q] /\ target'[entry[q]] = target[entry[q]]
    BY <1>2, <1>3, <2>1
  <2>3. target'[entry[q]] = seen[q] =>
          target[entry[q]] = seen[q] /\ Wanted(entry[q])' = Wanted(entry[q])
    BY <1>1, <2>0 DEF Wanted
  <2>4. target'[entry[q]] = seen[q] =>
          \/ draining'[entry[q]] \/ active'[entry[q]] + retiring'[entry[q]] > 0
          \/ q \in Reserving /\ Wanted(entry[q])' < 2
    BY <1>1, <1>3, <2>1, <2>2, <2>3
  <2>5. target'[entry[q]] # seen[q] =>
          \/ draining'[entry[q]] \/ active'[entry[q]] + retiring'[entry[q]] > 0
          \/ q \in Reserving
    BY <1>1, <1>3, <2>1, <2>2
  <2>. QED BY <1>1, <1>4, <2>4, <2>5 DEF Waits
<1>5. CASE pc[q] = "onHost"
  BY <1>1, <1>3, <1>5 DEF Waits, Undisturbed
<1>. QED BY <1>1, <1>4, <1>5 DEF Sleeping

(* Admissions and evictions are those that were.                           *)
AdmissionsKept ==
  \A q \in Requests :
    /\ pc'[q] \in Admitted <=> pc[q] \in Admitted
    /\ pc'[q] = "evicting" <=> pc[q] = "evicting"
    /\ pc[q] \in Admitted => entry'[q] = entry[q]

LivesKept == \A s \in Slots : Live(s)' <=> Live(s)

LEMMA CountsKept ==
  ASSUME CountsHold, AdmissionsKept, LivesKept,
         UNCHANGED <<openBackends, active, retiring, from>>
  PROVE  CountsHold'
<1>1. LiveSlots' = LiveSlots
  BY DEF LiveSlots, LivesKept
<1>2. Evicting' = Evicting
  BY DEF Evicting, AdmissionsKept
<1>3. \A e \in Entries : AdmittedTo(e)' = AdmittedTo(e) /\ EvictsFrom(e)' = EvictsFrom(e)
  BY DEF AdmittedTo, EvictsFrom, AdmissionsKept
<1>. QED BY <1>1, <1>2, <1>3 DEF CountsHold

LEMMA BudgetKept ==
  ASSUME BudgetHolds, AdmissionsKept, LivesKept, closes \in [Requests -> SUBSET Slots],
         \A q \in Requests : pc[q] = "evicting" => closes'[q] = closes[q]
  PROVE  BudgetHolds'
<1>1. LiveSlots' = LiveSlots
  BY DEF LiveSlots, LivesKept
<1>2. \A q \in Requests : q \in Promised' <=> q \in Promised
  BY DEF Promised, Evicting, AdmissionsKept, LivesKept
<1>3. Promised' = Promised
  BY <1>2 DEF Promised, Evicting
<1>. QED BY <1>1, <1>3 DEF BudgetHolds

LEMMA DrainsKept ==
  ASSUME OneDrains, draining' = draining,
         \A q \in Requests : /\ pc'[q] = "draining" <=> pc[q] = "draining"
                             /\ pc[q] = "draining" => entry'[q] = entry[q]
  PROVE  OneDrains'
<1>1. \A e \in Entries :
        (\E q \in Requests : entry[q] = e /\ pc[q] = "draining") <=>
        (\E q \in Requests : entry'[q] = e /\ pc'[q] = "draining")
  OBVIOUS
<1>2. \A e \in Entries :
        draining'[e] = (\E q \in Requests : entry'[q] = e /\ pc'[q] = "draining")
  BY <1>1, Zenon DEF OneDrains
<1>3. \A q, p \in Requests :
        pc'[q] = "draining" /\ pc'[p] = "draining" /\ entry'[q] = entry'[p] => q = p
  BY DEF OneDrains
<1>. QED BY <1>2, <1>3, Zenon DEF OneDrains

(* An entry that keeps its pool, and only loses connections.               *)
CeilingEased(e) ==
  /\ closed'[e] = closed[e] /\ pool'[e] = pool[e] /\ draining'[e] = draining[e]
  /\ active'[e] <= active[e] /\ retiring'[e] <= retiring[e] /\ idle'[e] = idle[e]
  /\ \A s \in Slots : s \in Owned(e)' =>
       s \in Owned(e) /\ gen'[s] = gen[s] /\ (Accounted(e, s) => Accounted(e, s)')

LEMMA CeilingKept ==
  ASSUME TypeOK, TypeOK', NEW e \in Entries, Ceiling(e),
         closed'[e] \/ CeilingEased(e)
  PROVE  Ceiling(e)'
<1>. SUFFICES ASSUME ~closed'[e], CeilingEased(e) PROVE Ceiling(e)'
  BY DEF Ceiling
<1>1. Owned(e)' \subseteq Owned(e)
  BY DEF CeilingEased, Owned
<1>2. /\ Cardinality(Owned(e)) \in Nat /\ Cardinality(Owned(e)') \in Nat
      /\ Cardinality(Owned(e)') <= Cardinality(Owned(e))
  BY <1>1, Counted, FS_Subset, FS_CardinalityType
<1>3. /\ active[e] \in Nat /\ active'[e] \in Nat /\ retiring[e] \in Nat /\ retiring'[e] \in Nat
      /\ pool[e] \in Nat /\ Cardinality(idle[e]) \in Nat
  BY Counted DEF TypeOK
<1>4. ~closed[e]
  BY DEF CeilingEased
<1>5. Cardinality(idle[e])' + active'[e] + retiring'[e] <= pool'[e]
  BY <1>3, <1>4 DEF CeilingEased, Ceiling
<1>6. \A s \in Owned(e)' : Accounted(e, s)' /\ gen'[s] = gen[s] /\ s \in Slots /\ gen[s] \in Nat
  BY <1>1, <1>4 DEF CeilingEased, Ceiling, Owned, TypeOK
<1>7. ~draining'[e] => \A s \in Owned(e)' : gen'[s] = pool'[e]
  BY <1>1, <1>4, <1>6 DEF CeilingEased, Ceiling
<1>8. draining'[e] => /\ idle'[e] = {} /\ active'[e] = 0 /\ retiring'[e] = 0
  BY <1>3, <1>4 DEF CeilingEased, Ceiling
<1>9. draining'[e] => /\ \A s \in Owned(e)' : Cardinality(Owned(e)') <= gen'[s]
                      /\ \A s, t \in Owned(e)' : gen'[s] = gen'[t]
  <2>1. draining'[e] => /\ \A s \in Owned(e) : Cardinality(Owned(e)) <= gen[s]
                        /\ \A s, t \in Owned(e) : gen[s] = gen[t]
    BY <1>4 DEF CeilingEased, Ceiling
  <2>. QED BY <1>1, <1>2, <1>6, <2>1
<1>. QED BY <1>5, <1>6, <1>7, <1>8, <1>9 DEF Ceiling

(* Fibers may let go of what they hold or await.                           *)
LEMMA PlacesKept ==
  ASSUME Places, UNCHANGED <<conn, owner, candidates, idle, doomed, closed>>,
         idle \in [Entries -> SUBSET Slots],
         \A q \in Requests : closes'[q] \subseteq closes[q] /\ closes[q] \subseteq Slots,
         \A q \in Requests : held'[q] # NoSlot =>
           /\ held'[q] = held[q] /\ entry'[q] = entry[q]
           /\ pc'[q] = "leased" => pc[q] = "leased",
         \A e \in Entries : InUse(e)' => InUse(e)
  PROVE  Places'
<1>1. \A s \in Slots : SlotTied(s)'
  BY PoolAssumption DEF Places, SlotTied, Live
<1>2. \A q \in Requests : ClosesTied(q)'
  BY PoolAssumption DEF Places, ClosesTied
<1>3. \A q \in Requests : HeldTied(q)'
  BY DEF Places, HeldTied, Live
<1>4. \A e \in Entries : IdleTied(e)'
  <2>1. ASSUME NEW e \in Entries, InUse(e)'
        PROVE  \A s \in idle[e] :
                 /\ Live(s)' => owner[s] = e
                 /\ \A r \in Requests : held'[r] # s /\ s \notin closes'[r]
                 /\ \A f \in Entries \ {e} : InUse(f)' => s \notin idle[f]
                 /\ ~closed[e] => conn[s] = "open" /\ s \in candidates
    BY <2>1, PoolAssumption DEF Places, IdleTied, Live
  <2>. QED BY <2>1 DEF IdleTied
<1>. QED BY <1>1, <1>2, <1>3, <1>4 DEF Places

LEMMA RetainedKept ==
  ASSUME TypeOK, TypeOK', RetainedOpen, UNCHANGED <<registry, closed, company>>,
         \A e \in Entries : target'[e] >= target[e]
  PROVE  RetainedOpen'
<1>. SUFFICES ASSUME NEW c \in Companies, registry[c] # NoEntry
              PROVE  target'[registry[c]] >= 1
  BY DEF RetainedOpen
<1>1. registry[c] \in Entries
  BY DEF TypeOK
<1>2. target[registry[c]] \in Int /\ target'[registry[c]] \in Int
  BY <1>1, PoolAssumption DEF TypeOK
<1>. QED BY <1>1, <1>2 DEF RetainedOpen

(* Fibers move that have nothing: no lease, slot, close or admission.      *)
Busy == Admitted \cup {"draining"}

BusyKept ==
  \A q \in Requests :
    pc[q] \in Busy \/ pc'[q] \in Busy => pc'[q] = pc[q] /\ entry'[q] = entry[q]

QuietStep ==
  /\ UNCHANGED <<closed, doomed, idle, draining, retiring, active, slots, host,
                 held, closes, from>>
  /\ BusyKept
  /\ \A e \in Entries : InUse(e)' => InUse(e)

LEMMA QuietKeeps ==
  ASSUME PoolInvariant, QuietStep
  PROVE  Places' /\ CountsHold' /\ OneDrains' /\ BudgetHolds'
<1>1. /\ TypeOK /\ Places /\ CountsHold /\ OneDrains /\ BudgetHolds
      /\ \A q \in Requests : RequestTied(q)
  BY DEF PoolInvariant
<1>2. /\ UNCHANGED <<closed, doomed, idle, draining, retiring, active, conn, owner, gen,
                     openBackends, candidates, held, closes, from>>
      /\ BusyKept
  BY DEF QuietStep, slots, host
<1>3. \A q \in Requests : held[q] # NoSlot =>
        entry'[q] = entry[q] /\ (pc'[q] = "leased" => pc[q] = "leased")
  BY <1>1, <1>2 DEF RequestTied, BusyKept, Busy, Admitted
<1>4. Places'
  BY <1>1, <1>2, <1>3, PlacesKept DEF QuietStep, TypeOK
<1>5. AdmissionsKept /\ LivesKept
  BY <1>2 DEF AdmissionsKept, LivesKept, BusyKept, Busy, Admitted, Live
<1>6. CountsHold' /\ BudgetHolds'
  BY <1>1, <1>2, <1>5, CountsKept, BudgetKept DEF TypeOK
<1>7. OneDrains'
  BY <1>1, <1>2, DrainsKept DEF BusyKept, Busy
<1>. QED BY <1>4, <1>6, <1>7

LEMMA QuietAccounts ==
  ASSUME PoolInvariant, QuietStep, NEW e \in Entries, NEW s \in Slots, Accounted(e, s)
  PROVE  Accounted(e, s)'
<1>1. /\ UNCHANGED <<idle, held, closes, from>> /\ BusyKept
      /\ \A q \in Requests : RequestTied(q)
  BY DEF QuietStep, PoolInvariant
<1>2. CASE s \in idle[e]
  BY <1>1, <1>2 DEF Accounted
<1>3. ASSUME NEW q \in Requests,
             \/ held[q] = s /\ entry[q] = e
             \/ s \in closes[q] /\ from[q] = e
             \/ s \in closes[q] /\ pc[q] = "draining" /\ entry[q] = e
      PROVE  Accounted(e, s)'
  <2>1. held[q] = s => entry'[q] = entry[q]
    BY <1>1, PoolAssumption DEF RequestTied, BusyKept, Busy, Admitted
  <2>2. pc[q] = "draining" => pc'[q] = "draining" /\ entry'[q] = entry[q]
    BY <1>1 DEF BusyKept, Busy
  <2>. QED BY <1>1, <1>3, <2>1, <2>2 DEF Accounted
<1>. QED BY <1>2, <1>3 DEF Accounted

LEMMA QuietCeilings ==
  ASSUME PoolInvariant, QuietStep, TypeOK', UNCHANGED pool
  PROVE  \A e \in Entries : Ceiling(e)'
<1>. SUFFICES ASSUME NEW e \in Entries PROVE Ceiling(e)'
  OBVIOUS
<1>1. TypeOK /\ Ceiling(e)
  BY DEF PoolInvariant
<1>2. UNCHANGED <<closed, idle, draining, retiring, active, conn, owner, gen>>
  BY DEF QuietStep, slots
<1>3. \A s \in Slots : s \in Owned(e)' =>
        s \in Owned(e) /\ gen'[s] = gen[s] /\ (Accounted(e, s) => Accounted(e, s)')
  BY <1>2, QuietAccounts DEF Owned, Live
<1>4. /\ closed'[e] = closed[e] /\ pool'[e] = pool[e] /\ draining'[e] = draining[e]
      /\ active'[e] <= active[e] /\ retiring'[e] <= retiring[e] /\ idle'[e] = idle[e]
  BY <1>1, <1>2 DEF TypeOK
<1>5. CeilingEased(e)
  BY <1>3, <1>4 DEF CeilingEased
<1>. QED BY <1>1, <1>5, CeilingKept

-----------------------------------------------------------------------------
(* Asking, entering, queueing and leaving without a connection. *)

LEMMA AskKeeps ==
  ASSUME PoolInvariant, NEW r \in Requests, Ask(r)
  PROVE  PoolInvariant'
<1>1. /\ TypeOK /\ RetainedOpen /\ \A q \in Requests : RequestTied(q) /\ Waits(q)
  BY DEF PoolInvariant
<1>2. /\ UNCHANGED <<service, entries, counts, slots, host, entry, queued, held, closes,
                     from, failures>>
      /\ pc[r] = "out" /\ pc' = [pc EXCEPT ![r] = "read"]
      /\ seen' = [seen EXCEPT ![r] = revision[CompanyOf[r]]]
      /\ rounds[r] < Rounds /\ rounds' = [rounds EXCEPT ![r] = @ + 1]
  BY DEF Ask
<1>3. revision[CompanyOf[r]] \in 1 .. Revisions
  BY <1>1, PoolAssumption DEF TypeOK
<1>4. TypeOK'
  <2>1. /\ seen' \in [Requests -> 0 .. Revisions]
        /\ rounds' \in [Requests -> 0 .. Rounds]
    BY <1>1, <1>2, <1>3, PoolAssumption DEF TypeOK
  <2>2. pc' \in [Requests -> {"out", "read", "trying", "queueing", "draining"}
                               \cup Sleeping \cup Admitted]
    BY <1>1, <1>2 DEF TypeOK
  <2>. QED BY <1>1, <1>2, <2>1, <2>2 DEF TypeOK, service, entries, counts, slots, host
<1>5. QuietStep
  BY <1>1, <1>2 DEF QuietStep, TypeOK, service, entries, counts, BusyKept, Busy, Admitted, InUse
<1>6. \A q \in Requests : RequestTied(q)'
  <2>1. RequestTied(r)'
    BY <1>1, <1>2, <1>3 DEF RequestTied, TypeOK
  <2>2. \A q \in Requests \ {r} : RequestTied(q)'
    BY <1>1, <1>2, <1>4, TiedKept DEF entries, TypeOK
  <2>. QED BY <2>1, <2>2
<1>7. \A q \in Requests : Undisturbed(q)
  BY <1>1, <1>2 DEF Undisturbed, Sleeping, entries, counts, host, TypeOK, RequestTied
<1>8. RetainedOpen'
  BY <1>1, <1>2 DEF RetainedOpen, entries
<1>. QED BY <1>1, <1>2, <1>4, <1>5, <1>6, <1>7, <1>8, QuietKeeps, QuietCeilings, WaitsKept
         DEF PoolInvariant, entries

(* A fiber without a connection leaves.                                    *)
LEMMA LeavingKeeps ==
  ASSUME PoolInvariant, NEW r \in Requests, pc[r] \notin Busy,
         pc' = [pc EXCEPT ![r] = "out"], Leave(r),
         UNCHANGED <<service, entries, counts, slots, host, closes, from, bounds>>
  PROVE  PoolInvariant'
<1>1. /\ TypeOK /\ RetainedOpen /\ \A q \in Requests : RequestTied(q) /\ Waits(q)
  BY DEF PoolInvariant
<1>2. /\ entry' = [entry EXCEPT ![r] = NoEntry] /\ queued' = queued \ {r}
      /\ held' = [held EXCEPT ![r] = NoSlot] /\ seen' = [seen EXCEPT ![r] = 0]
  BY DEF Leave
<1>3. held[r] = NoSlot /\ closes[r] = {} /\ from[r] = NoEntry
  BY <1>1 DEF RequestTied, Busy, Admitted
<1>4. held' = held
  BY <1>1, <1>2, <1>3 DEF TypeOK
<1>5. TypeOK'
  <2>1. /\ seen' \in [Requests -> 0 .. Revisions] /\ queued' \subseteq Requests
        /\ entry' \in [Requests -> Entries \cup {NoEntry}]
    BY <1>1, <1>2, PoolAssumption DEF TypeOK
  <2>2. pc' \in [Requests -> {"out", "read", "trying", "queueing", "draining"}
                               \cup Sleeping \cup Admitted]
    BY <1>1 DEF TypeOK
  <2>. QED BY <1>1, <1>4, <2>1, <2>2 DEF TypeOK, service, entries, counts, slots, host, bounds
<1>6. QuietStep
  <2>1. BusyKept
    BY <1>1, <1>2 DEF BusyKept, Busy, Admitted, TypeOK
  <2>2. \A e \in Entries : InUse(e)' => InUse(e)
    BY <1>1, <1>2, PoolAssumption DEF InUse, TypeOK, entries
  <2>. QED BY <1>4, <2>1, <2>2 DEF QuietStep, service, entries, counts
<1>7. \A q \in Requests : RequestTied(q)'
  <2>1. RequestTied(r)'
    BY <1>1, <1>2, <1>3, <1>4 DEF RequestTied, TypeOK, Busy, Admitted
  <2>2. \A q \in Requests \ {r} : RequestTied(q)'
    BY <1>1, <1>2, <1>5, TiedKept DEF entries, TypeOK
  <2>. QED BY <2>1, <2>2
<1>8. \A q \in Requests : Undisturbed(q)
  BY <1>1, <1>2 DEF Undisturbed, Sleeping, entries, counts, host, TypeOK, RequestTied
<1>9. RetainedOpen'
  BY <1>1 DEF RetainedOpen, entries
<1>. QED BY <1>1, <1>5, <1>6, <1>7, <1>8, <1>9, QuietKeeps, QuietCeilings, WaitsKept
         DEF PoolInvariant, entries

LEMMA EnterRefusedKeeps ==
  ASSUME PoolInvariant, NEW r \in Requests, EnterRefused(r)
  PROVE  PoolInvariant'
  BY LeavingKeeps DEF EnterRefused, Busy, Admitted

LEMMA QueueFullKeeps ==
  ASSUME PoolInvariant, NEW r \in Requests, QueueFull(r)
  PROVE  PoolInvariant'
  BY LeavingKeeps DEF QueueFull, Busy, Admitted

LEMMA GiveUpKeeps ==
  ASSUME PoolInvariant, NEW r \in Requests, GiveUp(r)
  PROVE  PoolInvariant'
  BY LeavingKeeps DEF GiveUp, Interruptible, Sleeping, Busy, Admitted

LEMMA JoinQueueKeeps ==
  ASSUME PoolInvariant, NEW r \in Requests, JoinQueue(r)
  PROVE  PoolInvariant'
<1>1. /\ TypeOK /\ RetainedOpen /\ \A q \in Requests : RequestTied(q) /\ Waits(q)
  BY DEF PoolInvariant
<1>2. /\ UNCHANGED <<service, entries, counts, slots, host, seen, entry, held, closes,
                     from, bounds>>
      /\ pc[r] = "queueing" /\ pc' = [pc EXCEPT ![r] = "trying"]
      /\ queued' = queued \cup {r}
  BY DEF JoinQueue
<1>3. TypeOK'
  <2>1. pc' \in [Requests -> {"out", "read", "trying", "queueing", "draining"}
                               \cup Sleeping \cup Admitted]
    BY <1>1, <1>2 DEF TypeOK
  <2>. QED BY <1>1, <1>2, <2>1 DEF TypeOK, service, entries, counts, slots, host, bounds
<1>4. QuietStep
  BY <1>1, <1>2 DEF QuietStep, TypeOK, service, entries, counts, BusyKept, Busy, Admitted, InUse
<1>5. \A q \in Requests : RequestTied(q)'
  <2>1. RequestTied(r)'
    BY <1>1, <1>2 DEF RequestTied, TypeOK, entries
  <2>2. \A q \in Requests \ {r} : RequestTied(q)'
    BY <1>1, <1>2, <1>3, TiedKept DEF entries, TypeOK
  <2>. QED BY <2>1, <2>2
<1>6. \A q \in Requests : Undisturbed(q)
  BY <1>1, <1>2 DEF Undisturbed, Sleeping, entries, counts, host, TypeOK, RequestTied
<1>7. RetainedOpen'
  BY <1>1, <1>2 DEF RetainedOpen, entries
<1>. QED BY <1>1, <1>2, <1>3, <1>4, <1>5, <1>6, <1>7, QuietKeeps, QuietCeilings, WaitsKept
         DEF PoolInvariant, entries

LEMMA ReconfigureKeeps ==
  ASSUME PoolInvariant, NEW c \in Companies, Reconfigure(c)
  PROVE  PoolInvariant'
<1>1. TypeOK /\ UNCHANGED <<up, doomed, entries, counts, slots, host, pc, fibers, bounds>>
  BY DEF PoolInvariant, Reconfigure
<1>2. TypeOK'
  <2>1. revision[c] + 1 \in 1 .. Revisions
    BY <1>1, PoolAssumption DEF Reconfigure, TypeOK
  <2>. QED BY <1>1, <2>1
           DEF Reconfigure, TypeOK, entries, counts, slots, host, fibers, bounds
<1>3. (\A q \in Requests : RequestTied(q)') /\ RetainedOpen' /\ \A q \in Requests : Waits(q)'
  BY <1>1 DEF PoolInvariant, RequestTied, RetainedOpen, Waits, Wanted, entries, counts, host,
              fibers
<1>4. QuietStep
  BY <1>1 DEF QuietStep, BusyKept, InUse, entries, counts, fibers
<1>. QED BY <1>1, <1>2, <1>3, <1>4, QuietKeeps, QuietCeilings DEF PoolInvariant, entries

-----------------------------------------------------------------------------
(* tryAcquire's checks and refusals. *)

LEMMA WantedTyped ==
  ASSUME TypeOK, NEW r \in Requests, RequestTied(r), pc[r] \notin {"out", "read"}
  PROVE  entry[r] \in Entries /\ Wanted(entry[r]) \in Nat /\ Wanted(entry[r]) >= 1
<1>1. /\ entry[r] \in Entries /\ seen[r] \in Int
      /\ target[entry[r]] >= seen[r] /\ seen[r] >= 1
  BY DEF TypeOK, RequestTied
<1>2. target[entry[r]] \in 1 .. Revisions
  BY <1>1, PoolAssumption DEF TypeOK
<1>3. LimitAt[target[entry[r]]] \in Nat \ {0}
  BY <1>2, PoolAssumption
<1>. QED BY <1>1, <1>3 DEF Wanted

(* What the checks leave true for whoever goes on.                         *)
LEMMA Acquiring ==
  ASSUME PoolInvariant, NEW r \in Requests, MayAcquire(r)
  PROVE  /\ ~draining[entry[r]]
         /\ active[entry[r]] + retiring[entry[r]] + 1 <= Wanted(entry[r])
         /\ pool[entry[r]] # Wanted(entry[r]) =>
              /\ active[entry[r]] = 0 /\ retiring[entry[r]] = 0 /\ idle[entry[r]] = {}
<1>1. /\ entry[r] \in Entries /\ Wanted(entry[r]) \in Nat
      /\ active[entry[r]] \in Nat /\ retiring[entry[r]] \in Nat
  BY WantedTyped DEF PoolInvariant, MayAcquire, TypeOK
<1>2. ~draining[entry[r]] /\ Room(r)
  BY DEF MayAcquire, Blocked
<1>3. active[entry[r]] + retiring[entry[r]] + 1 <= Wanted(entry[r])
  BY <1>1, <1>2 DEF Room
<1>4. pool[entry[r]] # Wanted(entry[r]) =>
        /\ ~(active[entry[r]] > 0) /\ ~(retiring[entry[r]] > 0) /\ idle[entry[r]] = {}
  BY DEF MayAcquire, Blocked, NeedsDrain
<1>. QED BY <1>1, <1>2, <1>3, <1>4

(* Whoever may switch the pool finds no connection of another maximum.     *)
LEMMA Switching ==
  ASSUME PoolInvariant, NEW r \in Requests, MayAcquire(r), ~closed[entry[r]],
         NEW s \in Owned(entry[r])
  PROVE  gen[s] = Wanted(entry[r])
<1>1. /\ TypeOK /\ CountsHold /\ OneDrains /\ \A q \in Requests : RequestTied(q)
      /\ entry[r] \in Entries /\ Ceiling(entry[r])
  BY WantedTyped DEF PoolInvariant, MayAcquire
<1>2. CASE pool[entry[r]] = Wanted(entry[r])
  BY <1>1, <1>2, Acquiring DEF Ceiling
<1>3. CASE pool[entry[r]] # Wanted(entry[r])
  BY <1>1, <1>3, Acquiring, OnlyIdle
<1>. QED BY <1>2, <1>3

LEMMA RefusedMade ==
  ASSUME TypeOK, NEW r \in Requests, NEW where \in Sleeping
  PROVE  /\ \A q \in Requests : Refused(r, where)[q] =
                IF q = r THEN (IF r \in queued THEN where ELSE "queueing") ELSE pc[q]
         /\ Refused(r, where) \in [Requests -> {"out", "read", "trying", "queueing", "draining"}
                                                \cup Sleeping \cup Admitted]
  BY DEF Refused, TypeOK

LEMMA CompanyFullKeeps ==
  ASSUME PoolInvariant, NEW r \in Requests, CompanyFull(r)
  PROVE  PoolInvariant'
<1>1. /\ TypeOK /\ RetainedOpen /\ \A q \in Requests : RequestTied(q) /\ Waits(q)
  BY DEF PoolInvariant
<1>2. /\ UNCHANGED <<service, entries, counts, slots, host, fibers, bounds>>
      /\ pc[r] = "trying" /\ Blocked(r)
      /\ \A q \in Requests : pc'[q] =
           IF q = r THEN (IF r \in queued THEN "onCompany" ELSE "queueing") ELSE pc[q]
      /\ pc' \in [Requests -> {"out", "read", "trying", "queueing", "draining"}
                              \cup Sleeping \cup Admitted]
  BY <1>1, RefusedMade DEF CompanyFull, Sleeping
<1>3. TypeOK'
  BY <1>1, <1>2 DEF TypeOK, service, entries, counts, slots, host, fibers, bounds
<1>4. QuietStep
  BY <1>1, <1>2
     DEF QuietStep, service, entries, counts, fibers, BusyKept, Busy, Admitted, InUse
<1>5. \A q \in Requests : RequestTied(q)'
  BY <1>1, <1>2 DEF RequestTied, entries, fibers
<1>6. Waits(r)'
  <2>1. /\ entry[r] \in Entries /\ Wanted(entry[r]) \in Nat /\ Wanted(entry[r]) >= 1
        /\ active[entry[r]] \in Nat /\ retiring[entry[r]] \in Nat
    BY <1>1, <1>2, WantedTyped DEF TypeOK
  <2>2. \/ draining[entry[r]] \/ active[entry[r]] + retiring[entry[r]] > 0
        \/ r \in Reserving /\ Wanted(entry[r]) < 2
    BY <1>2, <2>1 DEF Blocked, Room
  <2>. QED BY <1>2, <2>2 DEF Waits, Wanted, entries, counts, fibers
<1>7. \A q \in Requests \ {r} : Waits(q)'
  BY <1>1, <1>2 DEF Waits, Wanted, entries, counts, host, fibers
<1>8. RetainedOpen'
  BY <1>1, <1>2 DEF RetainedOpen, entries
<1>. QED BY <1>2, <1>3, <1>4, <1>5, <1>6, <1>7, <1>8, QuietKeeps, QuietCeilings
         DEF PoolInvariant, entries

LEMMA HostFullKeeps ==
  ASSUME PoolInvariant, NEW r \in Requests, HostFull(r)
  PROVE  PoolInvariant'
<1>1. /\ TypeOK /\ RetainedOpen /\ \A q \in Requests : RequestTied(q) /\ Waits(q)
  BY DEF PoolInvariant
<1>2. /\ UNCHANGED <<service, registry, company, closed, target, counts, slots, host,
                     fibers, bounds>>
      /\ pool' = [pool EXCEPT ![entry[r]] = Wanted(entry[r])]
      /\ MayAcquire(r) /\ pc[r] = "trying" /\ idle[entry[r]] = {}
      /\ openBackends >= MaxBackends /\ candidates = {}
      /\ \A q \in Requests : pc'[q] =
           IF q = r THEN (IF r \in queued THEN "onHost" ELSE "queueing") ELSE pc[q]
      /\ pc' \in [Requests -> {"out", "read", "trying", "queueing", "draining"}
                              \cup Sleeping \cup Admitted]
  BY <1>1, RefusedMade DEF HostFull, MayAcquire, Switched, Sleeping
<1>3. entry[r] \in Entries /\ Wanted(entry[r]) \in Nat
  BY <1>1, <1>2, WantedTyped
<1>4. TypeOK'
  <2>1. pool' \in [Entries -> Nat]
    BY <1>1, <1>2, <1>3 DEF TypeOK
  <2>. QED BY <1>1, <1>2, <2>1 DEF TypeOK, service, counts, slots, host, fibers, bounds
<1>5. QuietStep
  BY <1>1, <1>2 DEF QuietStep, service, counts, fibers, BusyKept, Busy, Admitted, InUse
<1>6. \A q \in Requests : RequestTied(q)'
  BY <1>1, <1>2 DEF RequestTied, fibers
<1>7. \A q \in Requests : Waits(q)'
  BY <1>1, <1>2 DEF Waits, Wanted, counts, host, fibers
<1>8. RetainedOpen'
  BY <1>1, <1>2 DEF RetainedOpen
<1>9. ASSUME NEW e \in Entries PROVE Ceiling(e)'
  <2>1. Ceiling(e) /\ UNCHANGED <<closed, idle, draining, retiring, active, conn, owner, gen>>
    BY <1>2 DEF PoolInvariant, counts, slots
  <2>2. \A s \in Slots : s \in Owned(e)' =>
          s \in Owned(e) /\ gen'[s] = gen[s] /\ (Accounted(e, s) => Accounted(e, s)')
    BY <1>5, <2>1, QuietAccounts DEF Owned, Live
  <2>3. CASE e # entry[r]
    <3>1. /\ closed'[e] = closed[e] /\ pool'[e] = pool[e] /\ draining'[e] = draining[e]
          /\ active'[e] <= active[e] /\ retiring'[e] <= retiring[e] /\ idle'[e] = idle[e]
      BY <1>1, <1>2, <2>1, <2>3 DEF TypeOK
    <3>. QED BY <1>1, <1>4, <2>1, <2>2, <3>1, CeilingKept DEF CeilingEased
  <2>4. CASE e = entry[r]
    <3>. SUFFICES ASSUME ~closed[e] PROVE Ceiling(e)'
      BY <2>1 DEF Ceiling
    <3>1. /\ pool'[e] = Wanted(e) /\ ~draining[e] /\ Wanted(e) \in Nat
          /\ active[e] + retiring[e] + 1 <= Wanted(e)
          /\ active[e] \in Nat /\ retiring[e] \in Nat
      BY <1>1, <1>2, <1>3, <2>4, Acquiring DEF TypeOK
    <3>2. Cardinality(idle[e]) = 0
      BY <1>2, <2>4, FS_EmptySet
    <3>3. Cardinality(idle[e]) + active[e] + retiring[e] <= pool'[e]
      BY <3>1, <3>2
    <3>4. \A s \in Owned(e)' : gen'[s] = pool'[e]
      BY <1>2, <2>1, <2>2, <2>4, <3>1, Switching DEF Owned
    <3>5. \A s \in Owned(e)' : Accounted(e, s)'
      BY <2>1, <2>2 DEF Owned, Ceiling
    <3>. QED BY <2>1, <3>1, <3>3, <3>4, <3>5 DEF Ceiling
  <2>. QED BY <2>3, <2>4
<1>. QED BY <1>2, <1>4, <1>5, <1>6, <1>7, <1>8, <1>9, QuietKeeps DEF PoolInvariant

-----------------------------------------------------------------------------
(* Entering. *)

LEMMA EnterKeeps ==
  ASSUME PoolInvariant, NEW r \in Requests, Enter(r)
  PROVE  PoolInvariant'
<1>. DEFINE e == registry[CompanyOf[r]]
<1>1. /\ TypeOK /\ RetainedOpen /\ \A q \in Requests : RequestTied(q) /\ Waits(q)
  BY DEF PoolInvariant
<1>2. /\ UNCHANGED <<service, registry, company, closed, pool, counts, slots, host,
                     seen, queued, held, closes, from, bounds>>
      /\ pc[r] = "read" /\ e # NoEntry /\ pc' = [pc EXCEPT ![r] = "trying"]
      /\ target' = [target EXCEPT ![e] = Newest(e, seen[r])]
      /\ entry' = [entry EXCEPT ![r] = e]
  BY DEF Enter
<1>3. CompanyOf[r] \in Companies /\ e \in Entries
  BY <1>1, <1>2, PoolAssumption DEF TypeOK
<1>4. ~closed[e]
  BY <1>1, <1>2, <1>3 DEF RetainedOpen
<1>. HIDE DEF e
<1>5. /\ Newest(e, seen[r]) \in 0 .. Revisions
      /\ Newest(e, seen[r]) >= target[e] /\ Newest(e, seen[r]) >= seen[r]
  <2>1. target[e] \in 0 .. Revisions /\ seen[r] \in 0 .. Revisions
    BY <1>1, <1>3 DEF TypeOK
  <2>. QED BY <2>1, PoolAssumption DEF Newest
<1>6. TypeOK'
  <2>1. pc' \in [Requests -> {"out", "read", "trying", "queueing", "draining"}
                               \cup Sleeping \cup Admitted]
    BY <1>1, <1>2 DEF TypeOK
  <2>2. /\ target' \in [Entries -> 0 .. Revisions]
        /\ entry' \in [Requests -> Entries \cup {NoEntry}]
    BY <1>1, <1>2, <1>3, <1>5 DEF TypeOK
  <2>. QED BY <1>1, <1>2, <2>1, <2>2 DEF TypeOK, service, counts, slots, host, bounds
<1>7. QuietStep
  <2>1. BusyKept
    BY <1>1, <1>2 DEF BusyKept, Busy, Admitted, TypeOK
  <2>2. \A f \in Entries : InUse(f)' => InUse(f)
    BY <1>1, <1>2, <1>4 DEF InUse, TypeOK
  <2>. QED BY <1>2, <2>1, <2>2 DEF QuietStep, service, counts
<1>8. \A f \in Entries : target'[f] >= target[f]
  BY <1>1, <1>2, <1>5, PoolAssumption DEF TypeOK
<1>9. \A q \in Requests : RequestTied(q)'
  <2>1. RequestTied(r)'
    <3>1. /\ pc'[r] = "trying" /\ entry'[r] = e /\ target'[e] >= seen[r] /\ seen'[r] = seen[r]
          /\ seen[r] >= 1 /\ e # NoEntry
      BY <1>1, <1>2, <1>3, <1>5, PoolAssumption DEF RequestTied, TypeOK
    <3>2. held'[r] = NoSlot /\ closes'[r] = {} /\ from'[r] = NoEntry
      BY <1>1, <1>2 DEF RequestTied
    <3>. QED BY <3>1, <3>2 DEF RequestTied
  <2>2. \A q \in Requests \ {r} : RequestTied(q)'
    BY <1>1, <1>2, <1>6, <1>8, TiedKept DEF TypeOK
  <2>. QED BY <2>1, <2>2
<1>10. \A q \in Requests : Undisturbed(q)
  BY <1>1, <1>2, <1>8 DEF Undisturbed, Sleeping, counts, host, TypeOK, RequestTied
<1>11. RetainedOpen'
  BY <1>1, <1>2, <1>6, <1>8, RetainedKept
<1>. QED BY <1>1, <1>2, <1>6, <1>7, <1>9, <1>10, <1>11, QuietKeeps, QuietCeilings, WaitsKept
         DEF PoolInvariant

LEMMA EnterNewKeeps ==
  ASSUME PoolInvariant, NEW r \in Requests, EnterNew(r)
  PROVE  PoolInvariant'
<1>1. /\ TypeOK /\ RetainedOpen /\ Places /\ CountsHold /\ OneDrains /\ BudgetHolds
      /\ \A q \in Requests : RequestTied(q) /\ Waits(q)
      /\ \A f \in Entries : Ceiling(f)
  BY DEF PoolInvariant
<1>2. PICK e \in Entries :
        /\ Fresh(e)
        /\ registry' = [registry EXCEPT ![CompanyOf[r]] = e]
        /\ company' = [company EXCEPT ![e] = CompanyOf[r]]
        /\ closed' = [closed EXCEPT ![e] = FALSE]
        /\ pool' = [pool EXCEPT ![e] = 0]
        /\ target' = [target EXCEPT ![e] = seen[r]]
        /\ idle' = [idle EXCEPT ![e] = {}]
        /\ draining' = [draining EXCEPT ![e] = FALSE]
        /\ retiring' = [retiring EXCEPT ![e] = 0]
        /\ active' = [active EXCEPT ![e] = 0]
        /\ entry' = [entry EXCEPT ![r] = e]
  BY DEF EnterNew
<1>3. /\ UNCHANGED <<service, slots, host, seen, queued, held, closes, from, bounds>>
      /\ pc[r] = "read" /\ pc' = [pc EXCEPT ![r] = "trying"]
      /\ CompanyOf[r] \in Companies
  BY PoolAssumption DEF EnterNew
<1>4. /\ \A c \in Companies : registry[c] # e
      /\ \A q \in Requests : entry[q] # e /\ from[q] # e
      /\ \A s \in Slots : owner[s] # e
      /\ e # NoEntry
  BY <1>2, PoolAssumption DEF Fresh
<1>5. /\ entry[r] = NoEntry /\ held[r] = NoSlot /\ closes[r] = {} /\ from[r] = NoEntry
      /\ seen[r] >= 1 /\ seen[r] \in 0 .. Revisions
  BY <1>1, <1>3 DEF RequestTied, TypeOK
<1>6. TypeOK'
  <2>1. pc' \in [Requests -> {"out", "read", "trying", "queueing", "draining"}
                               \cup Sleeping \cup Admitted]
    BY <1>1, <1>3 DEF TypeOK
  <2>2. /\ registry' \in [Companies -> Entries \cup {NoEntry}]
        /\ company' \in [Entries -> Companies \cup {NoCompany}]
        /\ closed' \in [Entries -> BOOLEAN] /\ pool' \in [Entries -> Nat]
        /\ target' \in [Entries -> 0 .. Revisions] /\ idle' \in [Entries -> SUBSET Slots]
        /\ draining' \in [Entries -> BOOLEAN] /\ retiring' \in [Entries -> Nat]
        /\ active' \in [Entries -> Nat] /\ entry' \in [Requests -> Entries \cup {NoEntry}]
    BY <1>1, <1>2, <1>3, <1>5 DEF TypeOK
  <2>. QED BY <1>1, <1>3, <2>1, <2>2 DEF TypeOK, service, slots, host, bounds
<1>7. /\ UNCHANGED <<revision, up, doomed, conn, owner, gen, openBackends, candidates,
                     seen, held, closes, from>>
      /\ closed'[e] = FALSE /\ pool'[e] = 0 /\ target'[e] = seen[r] /\ idle'[e] = {}
      /\ draining'[e] = FALSE /\ retiring'[e] = 0 /\ active'[e] = 0
      /\ entry'[r] = e /\ pc'[r] = "trying"
      /\ \A q \in Requests \ {r} : entry'[q] = entry[q] /\ pc'[q] = pc[q]
      /\ \A f \in Entries \ {e} :
           /\ closed'[f] = closed[f] /\ pool'[f] = pool[f] /\ target'[f] = target[f]
           /\ idle'[f] = idle[f] /\ draining'[f] = draining[f]
           /\ retiring'[f] = retiring[f] /\ active'[f] = active[f]
  BY <1>1, <1>2, <1>3 DEF TypeOK, service, slots, host
<1>8. /\ entry \in [Requests -> Entries \cup {NoEntry}]
      /\ from \in [Requests -> Entries \cup {NoEntry}]
      /\ held \in [Requests -> Slots \cup {NoSlot}]
      /\ owner \in [Slots -> Entries \cup {NoEntry}]
      /\ registry \in [Companies -> Entries \cup {NoEntry}]
  BY <1>1 DEF TypeOK
<1>9. \A q \in Requests : RequestTied(q)'
  <2>1. RequestTied(r)'
    BY <1>4, <1>5, <1>7 DEF RequestTied
  <2>2. \A q \in Requests \ {r} : RequestTied(q)'
    BY <1>1, <1>4, <1>7, <1>8 DEF RequestTied
  <2>. QED BY <2>1, <2>2
<1>10. RetainedOpen'
  <2>1. ASSUME NEW c \in Companies, registry'[c] # NoEntry
        PROVE  ~closed'[registry'[c]] /\ company'[registry'[c]] = c /\ target'[registry'[c]] >= 1
    <3>1. CASE c = CompanyOf[r]
      BY <1>1, <1>2, <1>3, <1>5, <1>7, <3>1 DEF TypeOK
    <3>2. CASE c # CompanyOf[r]
      BY <1>1, <1>2, <1>4, <1>7, <1>8, <2>1, <3>2 DEF TypeOK, RetainedOpen
    <3>. QED BY <3>1, <3>2
  <2>. QED BY <2>1 DEF RetainedOpen
<1>11. \A s \in Slots : SlotTied(s)'
  BY <1>1, <1>4, <1>7, <1>8 DEF Places, SlotTied, Live
<1>12. \A q \in Requests : ClosesTied(q)'
  BY <1>1, <1>7 DEF Places, ClosesTied
<1>13. \A q \in Requests : HeldTied(q)'
  <2>1. ASSUME NEW q \in Requests, held[q] # NoSlot
        PROVE  q # r /\ entry[q] # e /\ entry[q] \in Entries
    BY <1>1, <1>4, <1>5, <1>8, <2>1 DEF RequestTied
  <2>. QED BY <1>1, <1>7, <2>1 DEF Places, HeldTied, Live
<1>14. \A f \in Entries : IdleTied(f)'
  <2>1. \A f \in Entries \ {e} : InUse(f)' => InUse(f)
    BY <1>4, <1>7 DEF InUse
  <2>2. IdleTied(e)'
    BY <1>7 DEF IdleTied
  <2>3. ASSUME NEW f \in Entries \ {e}, InUse(f)'
        PROVE  \A s \in idle'[f] :
                 /\ Live(s)' => owner[s] = f
                 /\ \A q \in Requests : held[q] # s /\ s \notin closes[q]
                 /\ \A g \in Entries \ {f} : InUse(g)' => s \notin idle'[g]
                 /\ ~closed'[f] => conn[s] = "open" /\ s \in candidates
    BY <1>1, <1>7, <2>1, <2>3 DEF Places, IdleTied, Live
  <2>. QED BY <1>7, <2>2, <2>3 DEF IdleTied
<1>15. AdmissionsKept /\ LivesKept
  BY <1>3, <1>7 DEF AdmissionsKept, LivesKept, Admitted, Live
<1>16. CountsHold'
  <2>1. LiveSlots' = LiveSlots /\ Evicting' = Evicting
    BY <1>15 DEF LiveSlots, LivesKept, Evicting, AdmissionsKept
  <2>2. AdmittedTo(e)' = {} /\ EvictsFrom(e)' = {}
    BY <1>4, <1>7 DEF AdmittedTo, EvictsFrom, Admitted
  <2>3. \A f \in Entries \ {e} :
          AdmittedTo(f)' = AdmittedTo(f) /\ EvictsFrom(f)' = EvictsFrom(f)
    BY <1>3, <1>5, <1>7, PoolAssumption DEF AdmittedTo, EvictsFrom, Admitted
  <2>4. /\ active'[e] = Cardinality(AdmittedTo(e)')
        /\ retiring'[e] = Cardinality(EvictsFrom(e)')
    BY <1>7, <2>2, FS_EmptySet
  <2>. QED BY <1>1, <1>7, <2>1, <2>3, <2>4 DEF CountsHold
<1>17. OneDrains'
  <2>1. draining'[e] = (\E q \in Requests : entry'[q] = e /\ pc'[q] = "draining")
    BY <1>4, <1>7
  <2>2. \A f \in Entries \ {e} :
          (\E q \in Requests : entry'[q] = f /\ pc'[q] = "draining") <=>
          (\E q \in Requests : entry[q] = f /\ pc[q] = "draining")
    BY <1>3, <1>7
  <2>3. \A f \in Entries \ {e} :
          draining'[f] = (\E q \in Requests : entry'[q] = f /\ pc'[q] = "draining")
    <3>1. \A f \in Entries \ {e} : draining'[f] = draining[f]
      BY <1>7
    <3>2. \A f \in Entries :
            draining[f] = (\E q \in Requests : entry[q] = f /\ pc[q] = "draining")
      BY <1>1, Zenon DEF OneDrains
    <3>. QED BY <2>2, <3>1, <3>2, Zenon
  <2>4. \A q, p \in Requests :
          pc'[q] = "draining" /\ pc'[p] = "draining" /\ entry'[q] = entry'[p] => q = p
    BY <1>1, <1>7 DEF OneDrains
  <2>. QED BY <2>1, <2>3, <2>4, Zenon DEF OneDrains
<1>18. BudgetHolds'
  BY <1>1, <1>7, <1>15, BudgetKept DEF TypeOK
<1>19. \A f \in Entries : Ceiling(f)'
  <2>1. Ceiling(e)'
    <3>1. Owned(e)' = {}
      BY <1>4, <1>7 DEF Owned
    <3>. QED BY <1>7, <3>1, FS_EmptySet DEF Ceiling
  <2>2. ASSUME NEW f \in Entries \ {e} PROVE Ceiling(f)'
    <3>1. \A s \in Slots : s \in Owned(f)' =>
            s \in Owned(f) /\ gen'[s] = gen[s] /\ (Accounted(f, s) => Accounted(f, s)')
      <4>1. ASSUME NEW s \in Slots, Accounted(f, s) PROVE Accounted(f, s)'
        BY <1>3, <1>5, <1>7, <4>1, PoolAssumption DEF Accounted
      <4>. QED BY <1>7, <4>1 DEF Owned, Live
    <3>2. /\ closed'[f] = closed[f] /\ pool'[f] = pool[f] /\ draining'[f] = draining[f]
          /\ active'[f] <= active[f] /\ retiring'[f] <= retiring[f] /\ idle'[f] = idle[f]
      BY <1>1, <1>7 DEF TypeOK
    <3>. QED BY <1>1, <1>6, <3>1, <3>2, CeilingKept DEF CeilingEased
  <2>. QED BY <2>1, <2>2
<1>20. \A q \in Requests : Waits(q)'
  <2>1. \A q \in Requests : Undisturbed(q)
    <3>1. ASSUME NEW q \in Requests, pc'[q] \in Sleeping
          PROVE  q # r /\ pc[q] \in Sleeping /\ entry[q] \in Entries \ {e}
      BY <1>1, <1>4, <1>7, <1>8, <3>1 DEF Sleeping, RequestTied
    <3>2. \A f \in Entries : target[f] \in Int /\ active[f] \in Int /\ retiring[f] \in Int
      BY <1>1, PoolAssumption DEF TypeOK
    <3>. QED BY <1>1, <1>7, <3>1, <3>2 DEF Undisturbed, TypeOK
  <2>. QED BY <1>1, <1>6, <2>1, WaitsKept
<1>. QED BY <1>6, <1>9, <1>10, <1>11, <1>12, <1>13, <1>14, <1>16, <1>17, <1>18, <1>19, <1>20
         DEF PoolInvariant, Places

-----------------------------------------------------------------------------
(* Taking an idle connection. *)

(* An admission begins, or ends, and its entry counts it.                  *)
LEMMA AdmissionBegins ==
  ASSUME TypeOK, CountsHold, NEW r \in Requests, entry[r] \in Entries,
         pc[r] \notin Admitted, pc'[r] \in Admitted, entry'[r] = entry[r],
         \A q \in Requests \ {r} : /\ pc'[q] \in Admitted <=> pc[q] \in Admitted
                                   /\ pc[q] \in Admitted => entry'[q] = entry[q],
         active' = [active EXCEPT ![entry[r]] = @ + 1]
  PROVE  \A e \in Entries : active'[e] = Cardinality(AdmittedTo(e)')
<1>. SUFFICES ASSUME NEW e \in Entries PROVE active'[e] = Cardinality(AdmittedTo(e)')
  OBVIOUS
<1>1. CASE e = entry[r]
  <2>1. AdmittedTo(e)' = AdmittedTo(e) \cup {r} /\ r \notin AdmittedTo(e)
    BY <1>1 DEF AdmittedTo
  <2>2. Cardinality(AdmittedTo(e)') = Cardinality(AdmittedTo(e)) + 1
    BY <2>1, Counted, CardAdd
  <2>. QED BY <1>1, <2>2 DEF CountsHold, TypeOK
<1>2. CASE e # entry[r]
  <2>1. AdmittedTo(e)' = AdmittedTo(e)
    BY <1>2 DEF AdmittedTo
  <2>. QED BY <1>2, <2>1 DEF CountsHold, TypeOK
<1>. QED BY <1>1, <1>2

LEMMA AdmissionEnds ==
  ASSUME TypeOK, CountsHold, NEW r \in Requests, entry[r] \in Entries,
         pc[r] \in Admitted, pc'[r] \notin Admitted,
         \A q \in Requests \ {r} : /\ pc'[q] \in Admitted <=> pc[q] \in Admitted
                                   /\ pc[q] \in Admitted => entry'[q] = entry[q],
         active' = [active EXCEPT ![entry[r]] = @ - 1]
  PROVE  \A e \in Entries : active'[e] = Cardinality(AdmittedTo(e)')
<1>. SUFFICES ASSUME NEW e \in Entries PROVE active'[e] = Cardinality(AdmittedTo(e)')
  OBVIOUS
<1>1. CASE e = entry[r]
  <2>1. AdmittedTo(e)' = AdmittedTo(e) \ {r} /\ r \in AdmittedTo(e)
    BY <1>1 DEF AdmittedTo
  <2>2. Cardinality(AdmittedTo(e)') = Cardinality(AdmittedTo(e)) - 1
    BY <2>1, Counted, CardDrop
  <2>. QED BY <1>1, <2>2 DEF CountsHold, TypeOK
<1>2. CASE e # entry[r]
  <2>1. AdmittedTo(e)' = AdmittedTo(e)
    BY <1>2 DEF AdmittedTo
  <2>. QED BY <1>2, <2>1 DEF CountsHold, TypeOK
<1>. QED BY <1>1, <1>2

LEMMA TakeIdleKeeps ==
  ASSUME PoolInvariant, NEW r \in Requests, TakeIdle(r)
  PROVE  PoolInvariant'
<1>1. /\ TypeOK /\ RetainedOpen /\ Places /\ CountsHold /\ OneDrains /\ BudgetHolds
      /\ \A q \in Requests : RequestTied(q) /\ Waits(q)
      /\ \A f \in Entries : Ceiling(f)
  BY DEF PoolInvariant
<1>0. PICK e \in Entries : e = entry[r]
  BY <1>1, WantedTyped DEF TakeIdle, MayAcquire
<1>2. PICK s \in idle[e] :
        /\ idle' = [idle EXCEPT ![e] = @ \ {s}]
        /\ candidates' = Withdrawn({s})
        /\ held' = [held EXCEPT ![r] = s]
  BY <1>0 DEF TakeIdle
<1>3. /\ MayAcquire(r) /\ pc[r] = "trying" /\ pc' = [pc EXCEPT ![r] = "leased"]
      /\ active' = [active EXCEPT ![e] = @ + 1] /\ queued' = queued \ {r}
      /\ UNCHANGED <<service, entries, draining, retiring, slots, openBackends,
                     seen, entry, closes, from, bounds>>
  BY <1>0 DEF TakeIdle, MayAcquire
<1>4. /\ e # NoEntry /\ ~draining[e] /\ s \in Slots /\ s # NoSlot /\ InUse(e)
      /\ held[r] = NoSlot /\ closes[r] = {} /\ from[r] = NoEntry
  <2>1. ~draining[e]
    BY <1>0, <1>3, Acquiring
  <2>2. s \in Slots /\ s # NoSlot /\ e # NoEntry /\ InUse(e)
    BY <1>0, <1>1, <1>2, PoolAssumption DEF TypeOK, InUse
  <2>. QED BY <1>1, <1>3, <2>1, <2>2 DEF RequestTied
<1>5. TypeOK'
  <2>1. pc' \in [Requests -> {"out", "read", "trying", "queueing", "draining"}
                               \cup Sleeping \cup Admitted]
    BY <1>1, <1>3 DEF TypeOK, Admitted
  <2>2. /\ idle' \in [Entries -> SUBSET Slots] /\ candidates' \subseteq Slots
        /\ held' \in [Requests -> Slots \cup {NoSlot}] /\ active' \in [Entries -> Nat]
        /\ queued' \subseteq Requests
    BY <1>1, <1>2, <1>3, <1>4 DEF TypeOK, Withdrawn
  <2>. QED BY <1>1, <1>3, <2>1, <2>2 DEF TypeOK, service, entries, slots, bounds
<1>6. /\ UNCHANGED <<revision, up, doomed, registry, company, closed, pool, target, draining,
                     retiring, conn, owner, gen, openBackends, seen, entry, closes, from>>
      /\ held'[r] = s /\ pc'[r] = "leased" /\ candidates' = candidates \ {s}
      /\ \A q \in Requests \ {r} : held'[q] = held[q] /\ pc'[q] = pc[q]
      /\ idle'[e] = idle[e] \ {s} /\ active'[e] = active[e] + 1
      /\ \A f \in Entries \ {e} : idle'[f] = idle[f] /\ active'[f] = active[f]
  BY <1>1, <1>2, <1>3, <1>4 DEF TypeOK, Withdrawn, service, entries, slots
<1>7. /\ Live(s) => owner[s] = e
      /\ \A q \in Requests : held[q] # s /\ s \notin closes[q]
      /\ \A f \in Entries \ {e} : InUse(f) => s \notin idle[f]
      /\ ~closed[e] => conn[s] = "open"
  BY <1>1, <1>2, <1>4 DEF Places, IdleTied
<1>8. \A q \in Requests : RequestTied(q)'
  <2>1. RequestTied(r)'
    BY <1>1, <1>3, <1>4, <1>6 DEF RequestTied
  <2>2. \A q \in Requests \ {r} : RequestTied(q)'
    BY <1>1, <1>6 DEF RequestTied
  <2>. QED BY <2>1, <2>2
<1>9. RetainedOpen'
  BY <1>1, <1>6 DEF RetainedOpen
<1>10. \A t \in Slots : SlotTied(t)'
  <2>1. ASSUME NEW t \in Slots, t \in candidates'
        PROVE  /\ conn[t] = "open" /\ t \in idle'[owner[t]]
               /\ \A q \in Requests : held'[q] # t
    <3>1. t # s /\ SlotTied(t) /\ t \in candidates
      BY <1>1, <1>6, <2>1 DEF Places
    <3>2. owner[t] \in Entries
      BY <1>1, <3>1 DEF SlotTied, Live, TypeOK
    <3>. QED BY <1>6, <3>1, <3>2 DEF SlotTied
  <2>. QED BY <1>1, <1>6, <2>1 DEF Places, SlotTied, Live
<1>11. \A q \in Requests : ClosesTied(q)'
  BY <1>1, <1>6, <1>7 DEF Places, ClosesTied
<1>12. \A q \in Requests : HeldTied(q)'
  <2>1. HeldTied(r)'
    BY <1>0, <1>6, <1>7 DEF HeldTied, Live
  <2>2. \A q \in Requests \ {r} : HeldTied(q)'
    BY <1>1, <1>6, <1>7 DEF Places, HeldTied, Live
  <2>. QED BY <2>1, <2>2
<1>13. \A f \in Entries : IdleTied(f)'
  <2>1. \A f \in Entries : InUse(f)' <=> InUse(f)
    BY <1>6 DEF InUse
  <2>2. ASSUME NEW f \in Entries, InUse(f), NEW t \in idle'[f]
        PROVE  /\ Live(t)' => owner[t] = f
               /\ \A q \in Requests : held'[q] # t /\ t \notin closes[q]
               /\ \A g \in Entries \ {f} : InUse(g) => t \notin idle'[g]
               /\ ~closed[f] => conn[t] = "open" /\ t \in candidates'
    <3>1. t \in idle[f] /\ t # s
      BY <1>6, <1>7, <2>2
    <3>2. \A g \in Entries : idle'[g] \subseteq idle[g]
      BY <1>6
    <3>. QED BY <1>1, <1>6, <2>2, <3>1, <3>2 DEF Places, IdleTied, Live
  <2>. QED BY <1>6, <2>1, <2>2 DEF IdleTied
<1>14. CountsHold'
  <2>1. \A f \in Entries : active'[f] = Cardinality(AdmittedTo(f)')
    BY <1>0, <1>1, <1>3, <1>6, AdmissionBegins DEF Admitted
  <2>2. LiveSlots' = LiveSlots /\ Evicting' = Evicting
    BY <1>3, <1>6 DEF LiveSlots, Evicting, Live
  <2>3. \A f \in Entries : EvictsFrom(f)' = EvictsFrom(f)
    BY <1>6 DEF EvictsFrom
  <2>. QED BY <1>1, <1>6, <2>1, <2>2, <2>3 DEF CountsHold
<1>15. OneDrains'
  BY <1>1, <1>3, <1>6, DrainsKept
<1>16. BudgetHolds'
  <2>1. LiveSlots' = LiveSlots /\ Promised' = Promised
    BY <1>3, <1>6 DEF LiveSlots, Evicting, Promised, Live
  <2>. QED BY <1>1, <2>1 DEF BudgetHolds
<1>17. \A f \in Entries : Ceiling(f)'
  <2>1. ASSUME NEW f \in Entries, NEW t \in Slots, Accounted(f, t) PROVE Accounted(f, t)'
    <3>1. CASE t \in idle[f] /\ ~(f = e /\ t = s)
      BY <1>6, <3>1 DEF Accounted
    <3>2. CASE f = e /\ t = s
      BY <1>0, <1>6, <3>2 DEF Accounted
    <3>3. CASE t \notin idle[f]
      BY <1>3, <1>4, <1>6, <2>1, <3>3, PoolAssumption DEF Accounted
    <3>. QED BY <3>1, <3>2, <3>3
  <2>2. \A f \in Entries : Owned(f)' = Owned(f)
    BY <1>6 DEF Owned, Live
  <2>3. Ceiling(e)'
    <3>1. Cardinality(idle'[e]) = Cardinality(idle[e]) - 1
      BY <1>1, <1>2, <1>4, <1>6, Counted, CardDrop
    <3>2. Cardinality(idle[e]) \in Nat /\ active[e] \in Nat /\ retiring[e] \in Nat
      BY <1>1, <1>4, Counted DEF TypeOK
    <3>3. Cardinality(idle'[e]) + active'[e] + retiring'[e]
            = Cardinality(idle[e]) + active[e] + retiring[e]
      BY <1>6, <3>1, <3>2
    <3>4. \A t \in Owned(e) : t \in Slots
      BY DEF Owned
    <3>. QED BY <1>1, <1>4, <1>6, <2>1, <2>2, <3>3, <3>4 DEF Ceiling
  <2>4. ASSUME NEW f \in Entries \ {e} PROVE Ceiling(f)'
    <3>1. /\ closed'[f] = closed[f] /\ pool'[f] = pool[f] /\ draining'[f] = draining[f]
          /\ active'[f] <= active[f] /\ retiring'[f] <= retiring[f] /\ idle'[f] = idle[f]
      BY <1>1, <1>6 DEF TypeOK
    <3>2. \A t \in Slots : t \in Owned(f)' =>
            t \in Owned(f) /\ gen'[t] = gen[t] /\ (Accounted(f, t) => Accounted(f, t)')
      BY <1>6, <2>1, <2>2
    <3>. QED BY <1>1, <1>5, <3>1, <3>2, CeilingKept DEF CeilingEased
  <2>. QED BY <2>3, <2>4
<1>18. \A q \in Requests : Waits(q)'
  <2>1. \A f \in Entries : active'[f] >= active[f]
    BY <1>1, <1>6 DEF TypeOK
  <2>2. \A f \in Entries : target[f] \in Int /\ retiring[f] \in Int /\ openBackends \in Int
    BY <1>1, PoolAssumption DEF TypeOK
  <2>3. \A q \in Requests : Undisturbed(q)
    <3>1. ASSUME NEW q \in Requests, pc'[q] \in Sleeping
          PROVE  q # r /\ pc[q] \in Sleeping /\ entry[q] \in Entries
      BY <1>1, <1>6, <3>1 DEF Sleeping, RequestTied, TypeOK
    <3>2. \A f \in Entries : idle'[f] \subseteq idle[f]
      BY <1>6
    <3>. QED BY <1>6, <2>1, <2>2, <3>1, <3>2 DEF Undisturbed
  <2>. QED BY <1>1, <1>5, <2>3, WaitsKept
<1>. QED BY <1>5, <1>8, <1>9, <1>10, <1>11, <1>12, <1>13, <1>14, <1>15, <1>16, <1>17, <1>18
         DEF PoolInvariant, Places

-----------------------------------------------------------------------------
(* Closing, and what comes of an opening. *)

LEMMA ClosingMade ==
  ASSUME TypeOK, NEW S, conn' = Closing(S)
  PROVE  /\ conn' \in [Slots -> {"none", "opening", "open", "closing"}]
         /\ LivesKept
         /\ \A s \in Slots : conn'[s] = IF s \in S /\ Live(s) THEN "closing" ELSE conn[s]
<1>1. \A s \in Slots : conn'[s] = IF s \in S /\ Live(s) THEN "closing" ELSE conn[s]
  BY DEF Closing
<1>2. conn' \in [Slots -> {"none", "opening", "open", "closing"}]
  BY DEF Closing, TypeOK
<1>3. LivesKept
  BY <1>1 DEF LivesKept, Live
<1>. QED BY <1>1, <1>2, <1>3

LEMMA DrainKeeps ==
  ASSUME PoolInvariant, NEW r \in Requests, Drain(r)
  PROVE  PoolInvariant'
<1>1. /\ TypeOK /\ RetainedOpen /\ Places /\ CountsHold /\ OneDrains /\ BudgetHolds
      /\ \A q \in Requests : RequestTied(q) /\ Waits(q)
      /\ \A f \in Entries : Ceiling(f)
  BY DEF PoolInvariant
<1>0. PICK e \in Entries : e = entry[r]
  BY <1>1, WantedTyped DEF Drain
<1>2. /\ pc[r] = "trying" /\ ~Blocked(r) /\ NeedsDrain(r)
      /\ pool' = [pool EXCEPT ![e] = Wanted(e)]
      /\ conn' = Closing(idle[e]) /\ candidates' = candidates \ idle[e]
      /\ idle' = [idle EXCEPT ![e] = {}] /\ draining' = [draining EXCEPT ![e] = TRUE]
      /\ closes' = [closes EXCEPT ![r] = idle[e]]
      /\ pc' = [pc EXCEPT ![r] = "draining"]
      /\ UNCHANGED <<service, registry, company, closed, target, retiring, active,
                     owner, gen, openBackends, seen, entry, queued, held, from, bounds>>
  BY <1>0 DEF Drain, Switched, Withdrawn
<1>3. /\ Wanted(e) \in Nat /\ ~draining[e] /\ active[e] = 0 /\ retiring[e] = 0
  <2>1. /\ ~draining[e] /\ ~(active[e] > 0) /\ ~(retiring[e] > 0)
    BY <1>0, <1>2 DEF Blocked, NeedsDrain
  <2>. QED BY <1>0, <1>1, <1>2, <2>1, WantedTyped DEF TypeOK
<1>4. /\ e # NoEntry /\ InUse(e) /\ idle[e] \subseteq Slots
      /\ held[r] = NoSlot /\ closes[r] = {} /\ from[r] = NoEntry
  BY <1>0, <1>1, <1>2, PoolAssumption DEF RequestTied, InUse, TypeOK
<1>5. /\ LivesKept
      /\ \A s \in Slots : conn'[s] = IF s \in idle[e] /\ Live(s) THEN "closing" ELSE conn[s]
  BY <1>1, <1>2, ClosingMade
<1>6. TypeOK'
  <2>1. pc' \in [Requests -> {"out", "read", "trying", "queueing", "draining"}
                               \cup Sleeping \cup Admitted]
    BY <1>1, <1>2 DEF TypeOK
  <2>2. /\ pool' \in [Entries -> Nat] /\ candidates' \subseteq Slots
        /\ idle' \in [Entries -> SUBSET Slots] /\ draining' \in [Entries -> BOOLEAN]
        /\ closes' \in [Requests -> SUBSET Slots]
        /\ conn' \in [Slots -> {"none", "opening", "open", "closing"}]
    BY <1>1, <1>2, <1>3, <1>4, ClosingMade DEF TypeOK
  <2>. QED BY <1>1, <1>2, <2>1, <2>2 DEF TypeOK, service, bounds
<1>7. /\ UNCHANGED <<revision, up, doomed, registry, company, closed, target, retiring, active,
                     owner, gen, openBackends, seen, entry, held, from>>
      /\ pc'[r] = "draining" /\ closes'[r] = idle[e] /\ candidates' = candidates \ idle[e]
      /\ \A q \in Requests \ {r} : closes'[q] = closes[q] /\ pc'[q] = pc[q]
      /\ idle'[e] = {} /\ draining'[e] = TRUE /\ pool'[e] = Wanted(e)
      /\ \A f \in Entries \ {e} :
           idle'[f] = idle[f] /\ draining'[f] = draining[f] /\ pool'[f] = pool[f]
  BY <1>1, <1>2 DEF TypeOK, service
<1>8. \A s \in idle[e] :
        /\ \A q \in Requests : held[q] # s /\ s \notin closes[q]
        /\ \A f \in Entries \ {e} : InUse(f) => s \notin idle[f]
  BY <1>1, <1>4 DEF Places, IdleTied
<1>9. \A q \in Requests : RequestTied(q)'
  <2>1. RequestTied(r)'
    BY <1>1, <1>2, <1>4, <1>7 DEF RequestTied
  <2>2. \A q \in Requests \ {r} : RequestTied(q)'
    BY <1>1, <1>7 DEF RequestTied
  <2>. QED BY <2>1, <2>2
<1>10. RetainedOpen'
  BY <1>1, <1>7 DEF RetainedOpen
<1>11. \A t \in Slots : SlotTied(t)'
  <2>1. ASSUME NEW t \in Slots, t \in candidates'
        PROVE  /\ conn'[t] = "open" /\ t \in idle'[owner[t]]
               /\ \A q \in Requests : held[q] # t
    <3>1. t \notin idle[e] /\ SlotTied(t) /\ t \in candidates
      BY <1>1, <1>7, <2>1 DEF Places
    <3>2. owner[t] \in Entries
      BY <1>1, <3>1 DEF SlotTied, Live, TypeOK
    <3>. QED BY <1>5, <1>7, <3>1, <3>2 DEF SlotTied
  <2>2. \A t \in Slots : Live(t)' <=> Live(t)
    BY <1>5 DEF LivesKept
  <2>. QED BY <1>1, <1>5, <1>7, <2>1, <2>2 DEF Places, SlotTied
<1>12. \A q \in Requests : ClosesTied(q)'
  <2>1. ClosesTied(r)'
    BY <1>4, <1>5, <1>7, <1>8 DEF ClosesTied, Live
  <2>2. ASSUME NEW q \in Requests \ {r} PROVE ClosesTied(q)'
    <3>1. ClosesTied(q) /\ closes[q] \subseteq Slots
      BY <1>1 DEF Places, TypeOK
    <3>. QED BY <1>5, <1>7, <1>8, <3>1 DEF ClosesTied
  <2>. QED BY <2>1, <2>2
<1>13. \A q \in Requests : HeldTied(q)'
  <2>1. ASSUME NEW q \in Requests, held[q] # NoSlot
        PROVE  /\ conn'[held[q]] = conn[held[q]] /\ (Live(held[q])' <=> Live(held[q]))
               /\ pc'[q] = pc[q]
    BY <1>1, <1>4, <1>5, <1>7, <1>8, <2>1 DEF LivesKept, Live, TypeOK
  <2>. QED BY <1>1, <1>7, <2>1 DEF Places, HeldTied, Live
<1>14. \A f \in Entries : IdleTied(f)'
  <2>1. \A f \in Entries : InUse(f)' <=> InUse(f)
    BY <1>7 DEF InUse
  <2>2. ASSUME NEW f \in Entries, InUse(f), NEW t \in idle'[f]
        PROVE  /\ Live(t)' => owner[t] = f
               /\ \A q \in Requests : held[q] # t /\ t \notin closes'[q]
               /\ \A g \in Entries \ {f} : InUse(g) => t \notin idle'[g]
               /\ ~closed[f] => conn'[t] = "open" /\ t \in candidates'
    <3>1. f # e /\ t \in idle[f] /\ t \notin idle[e] /\ t \in Slots
      BY <1>1, <1>7, <1>8, <2>2 DEF TypeOK
    <3>2. \A g \in Entries : idle'[g] \subseteq idle[g]
      BY <1>7
    <3>3. conn'[t] = conn[t]
      BY <1>5, <3>1
    <3>. QED BY <1>1, <1>7, <2>2, <3>1, <3>2, <3>3 DEF Places, IdleTied, Live
  <2>. QED BY <1>7, <2>1, <2>2 DEF IdleTied
<1>15. AdmissionsKept
  BY <1>2, <1>7 DEF AdmissionsKept, Admitted
<1>16. CountsHold' /\ BudgetHolds'
  BY <1>1, <1>2, <1>5, <1>7, <1>15, CountsKept, BudgetKept DEF TypeOK
<1>17. OneDrains'
  <2>1. draining'[e] = (\E q \in Requests : entry'[q] = e /\ pc'[q] = "draining")
    BY <1>0, <1>7
  <2>2. \A f \in Entries \ {e} :
          (\E q \in Requests : entry'[q] = f /\ pc'[q] = "draining") <=>
          (\E q \in Requests : entry[q] = f /\ pc[q] = "draining")
    BY <1>0, <1>2, <1>7
  <2>3. \A f \in Entries \ {e} :
          draining'[f] = (\E q \in Requests : entry'[q] = f /\ pc'[q] = "draining")
    <3>1. \A f \in Entries \ {e} : draining'[f] = draining[f]
      BY <1>7
    <3>2. \A f \in Entries :
            draining[f] = (\E q \in Requests : entry[q] = f /\ pc[q] = "draining")
      BY <1>1, Zenon DEF OneDrains
    <3>. QED BY <2>2, <3>1, <3>2, Zenon
  <2>4. \A q \in Requests : entry[q] = e => pc[q] # "draining"
    BY <1>1, <1>3 DEF OneDrains
  <2>5. \A q, p \in Requests :
          pc'[q] = "draining" /\ pc'[p] = "draining" /\ entry'[q] = entry'[p] => q = p
    BY <1>0, <1>1, <1>7, <2>4 DEF OneDrains
  <2>. QED BY <2>1, <2>3, <2>5, Zenon DEF OneDrains
<1>18. \A f \in Entries : Ceiling(f)'
  <2>1. \A f \in Entries : Owned(f)' = Owned(f)
    BY <1>5, <1>7 DEF Owned, LivesKept
  <2>2. ASSUME ~closed[e] PROVE Ceiling(e)'
    <3>1. Owned(e) \subseteq idle[e]
      BY <1>1, <1>3, <2>2, OnlyIdle
    <3>2. /\ Cardinality(Owned(e)) <= Cardinality(idle[e])
          /\ Cardinality(Owned(e)) \in Nat /\ Cardinality(idle[e]) \in Nat
      BY <1>1, <3>1, FS_Subset, Counted
    <3>3. Cardinality(idle[e]) <= pool[e] /\ pool[e] \in Nat
      BY <1>1, <1>3, <2>2, <3>2 DEF Ceiling, TypeOK
    <3>4. \A s \in Owned(e) : gen[s] = pool[e]
      BY <1>1, <1>3, <2>2 DEF Ceiling
    <3>5. \A s \in Owned(e) : Cardinality(Owned(e)) <= gen[s]
      BY <3>2, <3>3, <3>4
    <3>6. \A s \in Owned(e) : Accounted(e, s)'
      BY <1>0, <1>7, <3>1 DEF Accounted
    <3>7. Cardinality(idle'[e]) + active'[e] + retiring'[e] <= pool'[e]
      BY <1>3, <1>7, FS_EmptySet
    <3>. QED BY <1>3, <1>7, <2>1, <3>4, <3>5, <3>6, <3>7 DEF Ceiling
  <2>3. ASSUME NEW f \in Entries \ {e} PROVE Ceiling(f)'
    <3>1. /\ closed'[f] = closed[f] /\ pool'[f] = pool[f] /\ draining'[f] = draining[f]
          /\ active'[f] <= active[f] /\ retiring'[f] <= retiring[f] /\ idle'[f] = idle[f]
      BY <1>1, <1>7 DEF TypeOK
    <3>2. ASSUME NEW t \in Slots, Accounted(f, t) PROVE Accounted(f, t)'
      BY <1>2, <1>4, <1>7, <3>2 DEF Accounted
    <3>. QED BY <1>1, <1>6, <1>7, <2>1, <3>1, <3>2, CeilingKept DEF CeilingEased
  <2>4. closed[e] => Ceiling(e)'
    BY <1>7 DEF Ceiling
  <2>. QED BY <2>2, <2>3, <2>4
<1>19. \A q \in Requests : Waits(q)'
  <2>1. \A f \in Entries : active[f] \in Int /\ target[f] \in Int /\ retiring[f] \in Int
    BY <1>1, PoolAssumption DEF TypeOK
  <2>2. openBackends \in Int
    BY <1>1 DEF TypeOK
  <2>3. \A q \in Requests : Undisturbed(q)
    <3>1. ASSUME NEW q \in Requests, pc'[q] \in Sleeping
          PROVE  q # r /\ pc[q] \in Sleeping /\ entry[q] \in Entries
      BY <1>1, <1>7, <3>1 DEF Sleeping, RequestTied, TypeOK
    <3>2. \A f \in Entries : idle'[f] \subseteq idle[f] /\ (draining[f] => draining'[f])
      BY <1>7
    <3>. QED BY <1>7, <2>1, <2>2, <3>1, <3>2 DEF Undisturbed
  <2>. QED BY <1>1, <1>6, <2>3, WaitsKept
<1>. QED BY <1>6, <1>9, <1>10, <1>11, <1>12, <1>13, <1>14, <1>16, <1>17, <1>18, <1>19
         DEF PoolInvariant, Places

(* A connection that was opening is lent, or starts to close.              *)
LEMMA OpeningEnds ==
  ASSUME PoolInvariant, TypeOK', NEW r \in Requests,
         pc[r] = "opening", conn[held[r]] = "opening", pc'[r] \in {"opening", "leased"},
         conn'[held[r]] = IF pc'[r] = "leased" THEN "open" ELSE "closing",
         \A q \in Requests \ {r} : pc'[q] = pc[q],
         \A s \in Slots \ {held[r]} : conn'[s] = conn[s],
         UNCHANGED <<service, entries, counts, owner, gen, host, seen, entry, held, closes, from>>
  PROVE  PoolInvariant'
<1>1. /\ TypeOK /\ RetainedOpen /\ Places /\ CountsHold /\ OneDrains /\ BudgetHolds
      /\ \A q \in Requests : RequestTied(q) /\ Waits(q)
      /\ \A f \in Entries : Ceiling(f)
  BY DEF PoolInvariant
<1>2. UNCHANGED <<revision, up, doomed, registry, company, closed, pool, target, idle, draining,
                  retiring, active, owner, gen, openBackends, candidates, seen, entry, held,
                  closes, from>>
  BY DEF service, entries, counts, host
<1>3. PICK s \in Slots : s = held[r] /\ s # NoSlot
  BY <1>1, PoolAssumption DEF RequestTied, TypeOK
<1>4. /\ conn[s] = "opening" /\ s \notin candidates
      /\ conn'[s] \in {"open", "closing"} /\ (conn'[s] = "open" => pc'[r] = "leased")
      /\ conn'[s] = "closing" => pc'[r] # "leased"
      /\ \A t \in Slots \ {s} : conn'[t] = conn[t]
  BY <1>1, <1>3 DEF Places, SlotTied
<1>5. LivesKept
  BY <1>4 DEF LivesKept, Live
<1>6. \A q \in Requests : RequestTied(q)'
  BY <1>1, <1>2 DEF RequestTied
<1>7. RetainedOpen'
  BY <1>1, <1>2 DEF RetainedOpen
<1>8. \A q \in Requests \ {r} : held[q] # s
  BY <1>1, <1>3 DEF Places, HeldTied
<1>9. Places'
  <2>1. \A t \in Slots : SlotTied(t)'
    BY <1>1, <1>2, <1>4, <1>5 DEF Places, SlotTied, Live, LivesKept
  <2>2. \A q \in Requests : ClosesTied(q)'
    BY <1>1, <1>2, <1>3, <1>4 DEF Places, ClosesTied, TypeOK
  <2>3. HeldTied(r)'
    BY <1>1, <1>2, <1>3, <1>4, <1>5 DEF Places, HeldTied, LivesKept
  <2>4. ASSUME NEW q \in Requests \ {r} PROVE HeldTied(q)'
    <3>1. held[q] # NoSlot => held[q] \in Slots /\ conn'[held[q]] = conn[held[q]]
      BY <1>1, <1>4, <1>8 DEF TypeOK
    <3>. QED BY <1>1, <1>2, <3>1 DEF Places, HeldTied, Live
  <2>5. \A f \in Entries : IdleTied(f)'
    <3>1. ASSUME NEW f \in Entries, InUse(f), NEW t \in idle[f]
          PROVE  /\ t # s /\ conn'[t] = conn[t]
                 /\ Live(t) => owner[t] = f
                 /\ \A q \in Requests : held[q] # t /\ t \notin closes[q]
                 /\ \A g \in Entries \ {f} : InUse(g) => t \notin idle[g]
                 /\ ~closed[f] => conn[t] = "open" /\ t \in candidates
      BY <1>1, <1>3, <1>4, <3>1 DEF Places, IdleTied, TypeOK
    <3>2. \A f \in Entries : InUse(f)' <=> InUse(f)
      BY <1>2 DEF InUse
    <3>. QED BY <1>2, <3>1, <3>2 DEF IdleTied, Live
  <2>. QED BY <2>1, <2>2, <2>3, <2>4, <2>5 DEF Places
<1>10. AdmissionsKept
  BY <1>2 DEF AdmissionsKept, Admitted
<1>11. CountsHold' /\ BudgetHolds'
  BY <1>1, <1>2, <1>5, <1>10, CountsKept, BudgetKept DEF TypeOK
<1>12. OneDrains'
  BY <1>1, <1>2, DrainsKept
<1>13. \A f \in Entries : Ceiling(f)'
  <2>1. ASSUME NEW f \in Entries PROVE CeilingEased(f)
    <3>1. /\ closed'[f] = closed[f] /\ pool'[f] = pool[f] /\ draining'[f] = draining[f]
          /\ active'[f] <= active[f] /\ retiring'[f] <= retiring[f] /\ idle'[f] = idle[f]
      BY <1>1, <1>2 DEF TypeOK
    <3>2. ASSUME NEW t \in Slots, Accounted(f, t) PROVE Accounted(f, t)'
      BY <1>2, <3>2 DEF Accounted
    <3>. QED BY <1>2, <1>5, <3>1, <3>2 DEF CeilingEased, Owned, LivesKept
  <2>. QED BY <1>1, <2>1, CeilingKept
<1>14. \A q \in Requests : Waits(q)'
  BY <1>1, <1>2 DEF Waits, Wanted
<1>. QED BY <1>6, <1>7, <1>9, <1>11, <1>12, <1>13, <1>14 DEF PoolInvariant

LEMMA OpenedKeeps ==
  ASSUME PoolInvariant, NEW r \in Requests, Opened(r)
  PROVE  PoolInvariant'
<1>1. TypeOK /\ RequestTied(r)
  BY DEF PoolInvariant
<1>2. /\ pc[r] = "opening" /\ conn[held[r]] = "opening"
      /\ conn' = [conn EXCEPT ![held[r]] = "open"] /\ queued' = queued \ {r}
      /\ pc' = [pc EXCEPT ![r] = "leased"]
      /\ UNCHANGED <<service, entries, counts, owner, gen, host,
                     seen, entry, held, closes, from, bounds>>
  BY DEF Opened
<1>3. held[r] \in Slots
  BY <1>1, <1>2 DEF RequestTied, TypeOK
<1>4. TypeOK'
  <2>1. pc' \in [Requests -> {"out", "read", "trying", "queueing", "draining"}
                               \cup Sleeping \cup Admitted]
    BY <1>1, <1>2 DEF TypeOK, Admitted
  <2>2. conn' \in [Slots -> {"none", "opening", "open", "closing"}]
    BY <1>1, <1>2, <1>3 DEF TypeOK
  <2>. QED BY <1>1, <1>2, <2>1, <2>2 DEF TypeOK, service, entries, counts, host, bounds
<1>5. /\ pc'[r] = "leased" /\ conn'[held[r]] = "open"
      /\ \A q \in Requests \ {r} : pc'[q] = pc[q]
      /\ \A s \in Slots \ {held[r]} : conn'[s] = conn[s]
  BY <1>1, <1>2, <1>3 DEF TypeOK
<1>. QED BY <1>2, <1>4, <1>5, OpeningEnds

LEMMA OpenFailsKeeps ==
  ASSUME PoolInvariant, NEW r \in Requests, OpenFails(r)
  PROVE  PoolInvariant'
<1>1. TypeOK /\ RequestTied(r)
  BY DEF PoolInvariant
<1>2. /\ pc[r] = "opening" /\ conn[held[r]] = "opening"
      /\ conn' = Closing({held[r]}) /\ failures < MaxFailures /\ failures' = failures + 1
      /\ UNCHANGED <<service, entries, counts, owner, gen, host, pc, fibers, rounds>>
  BY DEF OpenFails
<1>3. held[r] \in Slots /\ Live(held[r])
  BY <1>1, <1>2 DEF RequestTied, TypeOK, Live
<1>4. /\ conn' \in [Slots -> {"none", "opening", "open", "closing"}]
      /\ \A s \in Slots : conn'[s] =
           IF s \in {held[r]} /\ Live(s) THEN "closing" ELSE conn[s]
  BY <1>1, <1>2, ClosingMade
<1>5. TypeOK'
  <2>1. failures' \in 0 .. MaxFailures
    BY <1>1, <1>2, PoolAssumption DEF TypeOK
  <2>. QED BY <1>1, <1>2, <1>4, <2>1 DEF TypeOK, service, entries, counts, host, fibers
<1>6. /\ conn'[held[r]] = "closing" /\ \A s \in Slots \ {held[r]} : conn'[s] = conn[s]
      /\ pc'[r] = "opening" /\ \A q \in Requests \ {r} : pc'[q] = pc[q]
  BY <1>2, <1>3, <1>4
<1>7. UNCHANGED <<seen, entry, held, closes, from>>
  BY <1>2 DEF fibers
<1>. QED BY <1>2, <1>5, <1>6, <1>7, OpeningEnds

-----------------------------------------------------------------------------
(* Ends that wake the sleepers of an entry. *)

LEMMA WakeMade ==
  ASSUME TypeOK, NEW r \in Requests, NEW e, NEW k, k # "onCompany",
         pc' = Wake([pc EXCEPT ![r] = k], e)
  PROVE  /\ pc'[r] = k
         /\ \A q \in Requests \ {r} :
              pc'[q] = IF pc[q] = "onCompany" /\ entry[q] = e THEN "trying" ELSE pc[q]
  BY DEF Wake, TypeOK

LEMMA DrainedKeeps ==
  ASSUME PoolInvariant, NEW r \in Requests, Drained(r)
  PROVE  PoolInvariant'
<1>1. /\ TypeOK /\ RetainedOpen /\ Places /\ CountsHold /\ OneDrains /\ BudgetHolds
      /\ \A q \in Requests : RequestTied(q) /\ Waits(q)
      /\ \A f \in Entries : Ceiling(f)
  BY DEF PoolInvariant
<1>0. PICK e \in Entries : e = entry[r]
  BY <1>1, WantedTyped DEF Drained
<1>2. /\ pc[r] = "draining" /\ \A s \in closes[r] : ~Live(s)
      /\ draining' = [draining EXCEPT ![e] = FALSE]
      /\ closes' = [closes EXCEPT ![r] = {}]
      /\ pc' = Wake([pc EXCEPT ![r] = "trying"], e)
      /\ UNCHANGED <<service, entries, idle, retiring, active, slots, host,
                     seen, entry, queued, held, from, bounds>>
  BY <1>0 DEF Drained, CloseAwaited
<1>3. /\ UNCHANGED <<revision, up, doomed, registry, company, closed, pool, target, idle,
                     retiring, active, conn, owner, gen, openBackends, candidates, seen, entry,
                     held, from>>
      /\ pc'[r] = "trying" /\ closes'[r] = {} /\ draining'[e] = FALSE
      /\ \A q \in Requests \ {r} :
           /\ closes'[q] = closes[q]
           /\ pc'[q] = IF pc[q] = "onCompany" /\ entry[q] = e THEN "trying" ELSE pc[q]
      /\ \A f \in Entries \ {e} : draining'[f] = draining[f]
  <2>1. /\ pc'[r] = "trying"
        /\ \A q \in Requests \ {r} :
             pc'[q] = IF pc[q] = "onCompany" /\ entry[q] = e THEN "trying" ELSE pc[q]
    BY <1>1, <1>2, WakeMade
  <2>. QED BY <1>1, <1>2, <2>1 DEF TypeOK, service, entries, slots, host
<1>4. /\ held[r] = NoSlot /\ from[r] = NoEntry /\ e # NoEntry
      /\ \A q \in Requests \ {r} : ~(pc[q] = "draining" /\ entry[q] = e)
  BY <1>0, <1>1, <1>2, PoolAssumption DEF RequestTied, OneDrains
<1>5. TypeOK'
  <2>1. pc' \in [Requests -> {"out", "read", "trying", "queueing", "draining"}
                               \cup Sleeping \cup Admitted]
    BY <1>1, <1>2 DEF TypeOK, Wake
  <2>2. closes' \in [Requests -> SUBSET Slots] /\ draining' \in [Entries -> BOOLEAN]
    BY <1>1, <1>2 DEF TypeOK
  <2>. QED BY <1>1, <1>2, <2>1, <2>2 DEF TypeOK, service, entries, slots, host, bounds
<1>6. \A q \in Requests : RequestTied(q)'
  <2>1. RequestTied(r)'
    BY <1>0, <1>1, <1>2, <1>3, <1>4 DEF RequestTied
  <2>2. \A q \in Requests \ {r} : RequestTied(q)'
    BY <1>1, <1>3 DEF RequestTied, TypeOK
  <2>. QED BY <2>1, <2>2
<1>7. RetainedOpen'
  BY <1>1, <1>3 DEF RetainedOpen
<1>8. Places'
  <2>1. \A q \in Requests : held'[q] # NoSlot => (pc'[q] = "leased" => pc[q] = "leased")
    BY <1>3
  <2>2. \A q \in Requests : closes'[q] \subseteq closes[q] /\ closes[q] \subseteq Slots
    BY <1>1, <1>3 DEF TypeOK
  <2>3. \A f \in Entries : InUse(f)' => InUse(f)
    BY <1>3 DEF InUse
  <2>. QED BY <1>1, <1>3, <2>1, <2>2, <2>3, PlacesKept DEF TypeOK
<1>9. AdmissionsKept /\ LivesKept
  BY <1>2, <1>3 DEF AdmissionsKept, LivesKept, Live, Admitted
<1>10. CountsHold' /\ BudgetHolds'
  BY <1>1, <1>2, <1>3, <1>9, CountsKept, BudgetKept DEF TypeOK
<1>11. OneDrains'
  <2>1. draining'[e] = (\E q \in Requests : entry'[q] = e /\ pc'[q] = "draining")
    BY <1>3, <1>4
  <2>2. \A f \in Entries \ {e} :
          (\E q \in Requests : entry'[q] = f /\ pc'[q] = "draining") <=>
          (\E q \in Requests : entry[q] = f /\ pc[q] = "draining")
    BY <1>0, <1>2, <1>3
  <2>3. \A f \in Entries \ {e} :
          draining'[f] = (\E q \in Requests : entry'[q] = f /\ pc'[q] = "draining")
    <3>1. \A f \in Entries \ {e} : draining'[f] = draining[f]
      BY <1>3
    <3>2. \A f \in Entries :
            draining[f] = (\E q \in Requests : entry[q] = f /\ pc[q] = "draining")
      BY <1>1, Zenon DEF OneDrains
    <3>. QED BY <2>2, <3>1, <3>2, Zenon
  <2>4. \A q, p \in Requests :
          pc'[q] = "draining" /\ pc'[p] = "draining" /\ entry'[q] = entry'[p] => q = p
    BY <1>1, <1>3 DEF OneDrains
  <2>. QED BY <2>1, <2>3, <2>4, Zenon DEF OneDrains
<1>12. \A f \in Entries : Ceiling(f)'
  <2>1. \A f \in Entries : Owned(f)' = Owned(f)
    BY <1>3 DEF Owned, Live
  <2>2. ASSUME ~closed[e] PROVE Ceiling(e)'
    <3>1. /\ idle[e] = {} /\ active[e] = 0 /\ retiring[e] = 0 /\ pool[e] \in Nat
          /\ Cardinality(idle[e]) + active[e] + retiring[e] <= pool[e]
      <4>1. draining[e]
        BY <1>0, <1>1, <1>2 DEF OneDrains
      <4>. QED BY <1>1, <2>2, <4>1 DEF Ceiling, TypeOK
    <3>2. ASSUME NEW s \in Owned(e) PROVE FALSE
      <4>1. s \in Slots /\ Live(s) /\ s # NoSlot /\ Accounted(e, s)
        BY <1>1, <2>2, <3>2, PoolAssumption DEF Owned, Ceiling
      <4>2. PICK q \in Requests :
              \/ held[q] = s /\ entry[q] = e
              \/ s \in closes[q] /\ from[q] = e
              \/ s \in closes[q] /\ pc[q] = "draining" /\ entry[q] = e
        BY <3>1, <4>1 DEF Accounted
      <4>3. CASE held[q] = s /\ entry[q] = e
        <5>1. pc[q] \in Admitted
          BY <1>1, <4>1, <4>3 DEF RequestTied, Admitted
        <5>. QED BY <1>1, <1>4, <3>1, <4>3, <5>1, AdmissionCounted
      <4>4. CASE from[q] = e
        BY <1>1, <1>4, <3>1, <4>4, EvictionCounted
      <4>5. CASE s \in closes[q] /\ pc[q] = "draining" /\ entry[q] = e
        BY <1>2, <1>4, <4>1, <4>5
      <4>. QED BY <4>2, <4>3, <4>4, <4>5
    <3>. QED BY <1>3, <2>1, <3>1, <3>2 DEF Ceiling
  <2>3. ASSUME NEW f \in Entries \ {e} PROVE Ceiling(f)'
    <3>1. /\ closed'[f] = closed[f] /\ pool'[f] = pool[f] /\ draining'[f] = draining[f]
          /\ active'[f] <= active[f] /\ retiring'[f] <= retiring[f] /\ idle'[f] = idle[f]
      BY <1>1, <1>3 DEF TypeOK
    <3>2. ASSUME NEW t \in Slots, Accounted(f, t) PROVE Accounted(f, t)'
      BY <1>0, <1>2, <1>3, <1>4, <3>2, PoolAssumption DEF Accounted
    <3>. QED BY <1>1, <1>3, <1>5, <2>1, <3>1, <3>2, CeilingKept DEF CeilingEased
  <2>4. closed[e] => Ceiling(e)'
    BY <1>3 DEF Ceiling
  <2>. QED BY <2>2, <2>3, <2>4
<1>13. \A q \in Requests : Waits(q)'
  <2>1. \A f \in Entries : active[f] \in Int /\ target[f] \in Int /\ retiring[f] \in Int
    BY <1>1, PoolAssumption DEF TypeOK
  <2>2. openBackends \in Int
    BY <1>1 DEF TypeOK
  <2>3. \A q \in Requests : Undisturbed(q)
    <3>1. ASSUME NEW q \in Requests, pc'[q] \in Sleeping
          PROVE  /\ pc[q] = pc'[q] /\ entry[q] \in Entries
                 /\ pc[q] = "onCompany" => entry[q] # e
      BY <1>1, <1>3, <3>1 DEF Sleeping, RequestTied, TypeOK
    <3>. QED BY <1>3, <2>1, <2>2, <3>1 DEF Undisturbed
  <2>. QED BY <1>1, <1>5, <2>3, WaitsKept
<1>. QED BY <1>5, <1>6, <1>7, <1>8, <1>10, <1>11, <1>12, <1>13 DEF PoolInvariant

LEMMA OpenRefusedKeeps ==
  ASSUME PoolInvariant, NEW r \in Requests, OpenRefused(r)
  PROVE  PoolInvariant'
<1>1. /\ TypeOK /\ RetainedOpen /\ Places /\ CountsHold /\ OneDrains /\ BudgetHolds
      /\ \A q \in Requests : RequestTied(q) /\ Waits(q)
      /\ \A f \in Entries : Ceiling(f)
  BY DEF PoolInvariant
<1>0. PICK e \in Entries : e = entry[r]
  BY <1>1, WantedTyped DEF OpenRefused
<1>2. /\ pc[r] = "opening" /\ ~Live(held[r])
      /\ active' = [active EXCEPT ![e] = @ - 1]
      /\ pc' = Wake([pc EXCEPT ![r] = "out"], e)
      /\ entry' = [entry EXCEPT ![r] = NoEntry] /\ queued' = queued \ {r}
      /\ held' = [held EXCEPT ![r] = NoSlot] /\ seen' = [seen EXCEPT ![r] = 0]
      /\ UNCHANGED <<service, entries, idle, draining, retiring, slots, host, closes, from,
                     bounds>>
  BY <1>0 DEF OpenRefused, Leave
<1>3. /\ UNCHANGED <<revision, up, doomed, registry, company, closed, pool, target, idle,
                     draining, retiring, conn, owner, gen, openBackends, candidates, closes,
                     from>>
      /\ pc'[r] = "out" /\ entry'[r] = NoEntry /\ held'[r] = NoSlot
      /\ active'[e] = active[e] - 1
      /\ \A q \in Requests \ {r} :
           /\ entry'[q] = entry[q] /\ held'[q] = held[q] /\ seen'[q] = seen[q]
           /\ pc'[q] = IF pc[q] = "onCompany" /\ entry[q] = e THEN "trying" ELSE pc[q]
      /\ \A f \in Entries \ {e} : active'[f] = active[f]
  <2>1. /\ pc'[r] = "out"
        /\ \A q \in Requests \ {r} :
             pc'[q] = IF pc[q] = "onCompany" /\ entry[q] = e THEN "trying" ELSE pc[q]
    BY <1>1, <1>2, WakeMade
  <2>. QED BY <1>1, <1>2, <2>1 DEF TypeOK, service, entries, slots, host
<1>4. closes[r] = {} /\ from[r] = NoEntry /\ e # NoEntry /\ active[e] >= 1
  <2>1. e # NoEntry /\ closes[r] = {} /\ from[r] = NoEntry
    BY <1>1, <1>2, PoolAssumption DEF RequestTied
  <2>. QED BY <1>0, <1>1, <1>2, <2>1, AdmissionCounted DEF Admitted
<1>5. TypeOK'
  <2>1. pc' \in [Requests -> {"out", "read", "trying", "queueing", "draining"}
                               \cup Sleeping \cup Admitted]
    BY <1>1, <1>2 DEF TypeOK, Wake
  <2>2. active' \in [Entries -> Nat]
    BY <1>1, <1>2, <1>4 DEF TypeOK
  <2>3. /\ entry' \in [Requests -> Entries \cup {NoEntry}] /\ queued' \subseteq Requests
        /\ held' \in [Requests -> Slots \cup {NoSlot}]
        /\ seen' \in [Requests -> 0 .. Revisions]
    BY <1>1, <1>2, PoolAssumption DEF TypeOK
  <2>. QED BY <1>1, <1>2, <2>1, <2>2, <2>3 DEF TypeOK, service, entries, slots, host, bounds
<1>6. \A q \in Requests : RequestTied(q)'
  <2>1. RequestTied(r)'
    BY <1>1, <1>2, <1>3, <1>4 DEF RequestTied
  <2>2. \A q \in Requests \ {r} : RequestTied(q)'
    BY <1>1, <1>3 DEF RequestTied, TypeOK
  <2>. QED BY <2>1, <2>2
<1>7. RetainedOpen'
  BY <1>1, <1>3 DEF RetainedOpen
<1>8. Places'
  <2>1. \A q \in Requests : held'[q] # NoSlot =>
          /\ held'[q] = held[q] /\ entry'[q] = entry[q]
          /\ pc'[q] = "leased" => pc[q] = "leased"
    BY <1>3
  <2>2. \A q \in Requests : closes'[q] \subseteq closes[q] /\ closes[q] \subseteq Slots
    BY <1>1, <1>3 DEF TypeOK
  <2>3. \A f \in Entries : InUse(f)' => InUse(f)
    BY <1>3, PoolAssumption DEF InUse
  <2>. QED BY <1>1, <1>3, <2>1, <2>2, <2>3, PlacesKept DEF TypeOK
<1>9. CountsHold'
  <2>1. \A f \in Entries : active'[f] = Cardinality(AdmittedTo(f)')
    BY <1>0, <1>1, <1>2, <1>3, AdmissionEnds DEF Admitted
  <2>2. LiveSlots' = LiveSlots /\ Evicting' = Evicting
    BY <1>2, <1>3 DEF LiveSlots, Evicting, Live
  <2>3. \A f \in Entries : EvictsFrom(f)' = EvictsFrom(f)
    BY <1>3 DEF EvictsFrom
  <2>. QED BY <1>1, <1>3, <2>1, <2>2, <2>3 DEF CountsHold
<1>10. OneDrains'
  BY <1>1, <1>2, <1>3, DrainsKept
<1>11. BudgetHolds'
  <2>1. LiveSlots' = LiveSlots /\ Promised' = Promised
    BY <1>2, <1>3 DEF LiveSlots, Evicting, Promised, Live
  <2>. QED BY <1>1, <2>1 DEF BudgetHolds
<1>12. \A f \in Entries : Ceiling(f)'
  <2>1. ASSUME NEW f \in Entries PROVE CeilingEased(f)
    <3>1. /\ closed'[f] = closed[f] /\ pool'[f] = pool[f] /\ draining'[f] = draining[f]
          /\ active'[f] <= active[f] /\ retiring'[f] <= retiring[f] /\ idle'[f] = idle[f]
      BY <1>1, <1>3 DEF TypeOK
    <3>2. ASSUME NEW t \in Slots, Live(t), Accounted(f, t) PROVE Accounted(f, t)'
      BY <1>2, <1>3, <1>4, <3>2 DEF Accounted
    <3>. QED BY <1>3, <3>1, <3>2 DEF CeilingEased, Owned, Live
  <2>. QED BY <1>1, <1>5, <2>1, CeilingKept
<1>13. \A q \in Requests : Waits(q)'
  <2>1. \A f \in Entries : active[f] \in Int /\ target[f] \in Int /\ retiring[f] \in Int
    BY <1>1, PoolAssumption DEF TypeOK
  <2>2. openBackends \in Int
    BY <1>1 DEF TypeOK
  <2>3. \A q \in Requests : Undisturbed(q)
    <3>1. ASSUME NEW q \in Requests, pc'[q] \in Sleeping
          PROVE  /\ q # r /\ pc[q] = pc'[q] /\ entry[q] \in Entries
                 /\ pc[q] = "onCompany" => entry[q] # e
      BY <1>1, <1>3, <3>1 DEF Sleeping, RequestTied, TypeOK
    <3>. QED BY <1>3, <2>1, <2>2, <3>1 DEF Undisturbed
  <2>. QED BY <1>1, <1>5, <2>3, WaitsKept
<1>. QED BY <1>5, <1>6, <1>7, <1>8, <1>9, <1>10, <1>11, <1>12, <1>13 DEF PoolInvariant

LEMMA WakeBothMade ==
  ASSUME TypeOK, NEW r \in Requests, NEW e, NEW k, k \notin Sleeping,
         pc' = WakeHost(Wake([pc EXCEPT ![r] = k], e))
  PROVE  /\ pc'[r] = k
         /\ \A q \in Requests \ {r} :
              pc'[q] = IF pc[q] = "onHost" \/ (pc[q] = "onCompany" /\ entry[q] = e)
                         THEN "trying" ELSE pc[q]
<1>. DEFINE p == [pc EXCEPT ![r] = k]
<1>1. p[r] = k /\ \A q \in Requests \ {r} : p[q] = pc[q]
  BY DEF TypeOK
<1>2. \A q \in Requests : Wake(p, e)[q] =
        IF p[q] = "onCompany" /\ entry[q] = e THEN "trying" ELSE p[q]
  BY DEF Wake
<1>3. \A q \in Requests : WakeHost(Wake(p, e))[q] =
        IF Wake(p, e)[q] = "onHost" THEN "trying" ELSE Wake(p, e)[q]
  BY DEF WakeHost
<1>. HIDE DEF p
<1>. QED BY <1>1, <1>2, <1>3 DEF Sleeping, p

LEMMA ReleaseKeeps ==
  ASSUME PoolInvariant, NEW r \in Requests, Release(r)
  PROVE  PoolInvariant'
<1>1. /\ TypeOK /\ RetainedOpen /\ Places /\ CountsHold /\ OneDrains /\ BudgetHolds
      /\ \A q \in Requests : RequestTied(q) /\ Waits(q)
      /\ \A f \in Entries : Ceiling(f)
  BY DEF PoolInvariant
<1>0. PICK e \in Entries : e = entry[r]
  BY <1>1, WantedTyped DEF Release
<1>a. PICK s \in Slots : s = held[r] /\ s # NoSlot
  BY <1>1, PoolAssumption DEF Release, RequestTied, TypeOK
<1>b. PICK K \in SUBSET {s} : K = IF conn[s] = "open" THEN {s} ELSE {}
  OBVIOUS
<1>2. /\ pc[r] = "leased" /\ active' = [active EXCEPT ![e] = @ - 1]
      /\ idle' = [idle EXCEPT ![e] = @ \cup K] /\ candidates' = candidates \cup K
      /\ pc' = WakeHost(Wake([pc EXCEPT ![r] = "out"], e))
      /\ entry' = [entry EXCEPT ![r] = NoEntry] /\ queued' = queued \ {r}
      /\ held' = [held EXCEPT ![r] = NoSlot] /\ seen' = [seen EXCEPT ![r] = 0]
      /\ UNCHANGED <<service, entries, draining, retiring, slots, openBackends,
                     closes, from, bounds>>
  BY <1>0, <1>a, <1>b DEF Release, Leave
<1>3. /\ UNCHANGED <<revision, up, doomed, registry, company, closed, pool, target,
                     draining, retiring, conn, owner, gen, openBackends, closes, from>>
      /\ pc'[r] = "out" /\ entry'[r] = NoEntry /\ held'[r] = NoSlot
      /\ active'[e] = active[e] - 1 /\ idle'[e] = idle[e] \cup K
      /\ candidates' = candidates \cup K
      /\ \A q \in Requests \ {r} :
           /\ entry'[q] = entry[q] /\ held'[q] = held[q] /\ seen'[q] = seen[q]
           /\ pc'[q] = IF pc[q] = "onHost" \/ (pc[q] = "onCompany" /\ entry[q] = e)
                         THEN "trying" ELSE pc[q]
      /\ \A f \in Entries \ {e} : active'[f] = active[f] /\ idle'[f] = idle[f]
  <2>1. /\ pc'[r] = "out"
        /\ \A q \in Requests \ {r} :
             pc'[q] = IF pc[q] = "onHost" \/ (pc[q] = "onCompany" /\ entry[q] = e)
                        THEN "trying" ELSE pc[q]
    <3>1. "out" \notin Sleeping
      BY DEF Sleeping
    <3>. QED BY <1>1, <1>2, <3>1, WakeBothMade
  <2>. QED BY <1>1, <1>2, <2>1 DEF TypeOK, service, entries, slots
<1>4. closes[r] = {} /\ from[r] = NoEntry /\ e # NoEntry /\ active[e] >= 1
  <2>1. e # NoEntry /\ closes[r] = {} /\ from[r] = NoEntry
    BY <1>1, <1>2, PoolAssumption DEF RequestTied
  <2>. QED BY <1>0, <1>1, <1>2, <2>1, AdmissionCounted DEF Admitted
<1>5. /\ Live(s) => owner[s] = e
      /\ \A q \in Requests \ {r} : held[q] # s
      /\ ~closed[e] => conn[s] = "open" /\ K = {s}
      /\ s \in K => conn[s] = "open" /\ Live(s)
  BY <1>0, <1>1, <1>a, <1>b, <1>2 DEF Places, HeldTied, Live
<1>6. TypeOK'
  <2>1. pc' \in [Requests -> {"out", "read", "trying", "queueing", "draining"}
                               \cup Sleeping \cup Admitted]
    BY <1>1, <1>2 DEF TypeOK, Wake, WakeHost
  <2>2. active' \in [Entries -> Nat]
    BY <1>1, <1>2, <1>4 DEF TypeOK
  <2>3. /\ entry' \in [Requests -> Entries \cup {NoEntry}] /\ queued' \subseteq Requests
        /\ held' \in [Requests -> Slots \cup {NoSlot}]
        /\ seen' \in [Requests -> 0 .. Revisions]
        /\ idle' \in [Entries -> SUBSET Slots] /\ candidates' \subseteq Slots
    BY <1>1, <1>2, PoolAssumption DEF TypeOK
  <2>. QED BY <1>1, <1>2, <2>1, <2>2, <2>3 DEF TypeOK, service, entries, slots, bounds
<1>7. \A q \in Requests : RequestTied(q)'
  <2>1. RequestTied(r)'
    BY <1>1, <1>2, <1>3, <1>4 DEF RequestTied
  <2>2. \A q \in Requests \ {r} : RequestTied(q)'
    BY <1>1, <1>3 DEF RequestTied, TypeOK
  <2>. QED BY <2>1, <2>2
<1>8. RetainedOpen'
  BY <1>1, <1>3 DEF RetainedOpen
<1>9. \A t \in Slots : SlotTied(t)'
  <2>1. ASSUME NEW t \in Slots, t \in candidates'
        PROVE  /\ conn[t] = "open" /\ t \in idle'[owner[t]]
               /\ \A q \in Requests : held'[q] # t
    <3>1. CASE t \in K
      BY <1>3, <1>5, <1>a, <3>1
    <3>2. CASE t \in candidates
      <4>1. SlotTied(t) /\ owner[t] \in Entries
        BY <1>1, <3>2 DEF Places, SlotTied, Live, TypeOK
      <4>2. /\ \A f \in Entries : idle[f] \subseteq idle'[f]
            /\ \A q \in Requests : held'[q] = held[q] \/ held'[q] = NoSlot
            /\ t # NoSlot
        BY <1>3, PoolAssumption
      <4>. QED BY <3>2, <4>1, <4>2 DEF SlotTied
    <3>. QED BY <1>3, <2>1, <3>1, <3>2
  <2>. QED BY <1>1, <1>3, <2>1 DEF Places, SlotTied, Live
<1>10. \A q \in Requests : ClosesTied(q)'
  <2>1. ASSUME NEW q \in Requests PROVE ClosesTied(q)'
    <3>1. ClosesTied(q) /\ closes[q] \subseteq Slots
      BY <1>1 DEF Places, TypeOK
    <3>2. \A p \in Requests : held'[p] = held[p] \/ held'[p] = NoSlot
      BY <1>3
    <3>. QED BY <1>3, <3>1, <3>2, PoolAssumption DEF ClosesTied
  <2>. QED BY <2>1
<1>11. \A q \in Requests : HeldTied(q)'
  BY <1>1, <1>3 DEF Places, HeldTied, Live
<1>12. \A f \in Entries : IdleTied(f)'
  <2>1. /\ \A f \in Entries : InUse(f)' => InUse(f)
        /\ InUse(e)
    BY <1>0, <1>3, PoolAssumption DEF InUse
  <2>2. \A q \in Requests : s \notin closes[q]
    BY <1>1, <1>a DEF Places, ClosesTied
  <2>3. \A f \in Entries : InUse(f) => s \notin idle[f]
    BY <1>1, <1>a DEF Places, IdleTied
  <2>4. ASSUME NEW f \in Entries, InUse(f), NEW t \in idle'[f]
        PROVE  /\ Live(t)' => owner[t] = f
               /\ \A q \in Requests : held'[q] # t /\ t \notin closes[q]
               /\ \A g \in Entries \ {f} : InUse(g) => t \notin idle'[g]
               /\ ~closed[f] => conn[t] = "open" /\ t \in candidates'
    <3>1. CASE t \in idle[f]
      <4>1. /\ Live(t) => owner[t] = f
            /\ \A q \in Requests : held[q] # t /\ t \notin closes[q]
            /\ \A g \in Entries \ {f} : InUse(g) => t \notin idle[g]
            /\ ~closed[f] => conn[t] = "open" /\ t \in candidates
            /\ t # s /\ t \in Slots /\ t # NoSlot
        BY <1>1, <2>3, <2>4, <3>1, PoolAssumption DEF Places, IdleTied, TypeOK
      <4>2. Live(t)' => owner[t] = f
        BY <1>3, <4>1 DEF Live
      <4>3. \A q \in Requests : held'[q] # t
        BY <1>3, <4>1
      <4>4. \A g \in Entries \ {f} : InUse(g) => t \notin idle'[g]
        BY <1>3, <4>1
      <4>5. ~closed[f] => conn[t] = "open" /\ t \in candidates'
        BY <1>3, <4>1
      <4>. QED BY <4>1, <4>2, <4>3, <4>4, <4>5
    <3>2. CASE t \notin idle[f]
      <4>1. f = e /\ t = s /\ t \in K
        BY <1>3, <2>4, <3>2
      <4>. QED BY <1>3, <1>5, <1>a, <2>2, <2>3, <4>1 DEF Live
    <3>. QED BY <3>1, <3>2
  <2>. QED BY <1>3, <2>1, <2>4 DEF IdleTied
<1>13. CountsHold'
  <2>1. \A f \in Entries : active'[f] = Cardinality(AdmittedTo(f)')
    BY <1>0, <1>1, <1>2, <1>3, AdmissionEnds DEF Admitted
  <2>2. LiveSlots' = LiveSlots /\ Evicting' = Evicting
    BY <1>2, <1>3 DEF LiveSlots, Evicting, Live
  <2>3. \A f \in Entries : EvictsFrom(f)' = EvictsFrom(f)
    BY <1>3 DEF EvictsFrom
  <2>. QED BY <1>1, <1>3, <2>1, <2>2, <2>3 DEF CountsHold
<1>14. OneDrains'
  BY <1>1, <1>2, <1>3, DrainsKept
<1>15. BudgetHolds'
  <2>1. LiveSlots' = LiveSlots /\ Promised' = Promised
    BY <1>2, <1>3 DEF LiveSlots, Evicting, Promised, Live
  <2>. QED BY <1>1, <2>1 DEF BudgetHolds
<1>16. \A f \in Entries : Ceiling(f)'
  <2>1. \A f \in Entries : Owned(f)' = Owned(f)
    BY <1>3 DEF Owned, Live
  <2>2. ASSUME ~closed[e] PROVE Ceiling(e)'
    <3>1. K = {s} /\ ~draining[e]
      BY <1>1, <1>4, <1>5, <2>2 DEF Ceiling
    <3>2. Cardinality(idle'[e]) <= Cardinality(idle[e]) + 1
      BY <1>1, <1>3, Counted, CardGains
    <3>3. Cardinality(idle'[e]) \in Nat /\ Cardinality(idle[e]) \in Nat
      <4>1. idle'[e] \subseteq Slots /\ idle[e] \subseteq Slots
        BY <1>1, <1>6 DEF TypeOK
      <4>. QED BY <4>1, SmallSets
    <3>4. Cardinality(idle'[e]) + active'[e] + retiring'[e] <= pool'[e]
      <4>1. /\ Cardinality(idle[e]) + active[e] + retiring[e] <= pool[e]
            /\ active[e] \in Nat /\ retiring[e] \in Nat /\ pool[e] \in Nat
        BY <1>1, <2>2 DEF Ceiling, TypeOK
      <4>2. active'[e] = active[e] - 1 /\ retiring'[e] = retiring[e] /\ pool'[e] = pool[e]
        BY <1>3
      <4>. QED BY <3>2, <3>3, <4>1, <4>2
    <3>5. ASSUME NEW t \in Owned(e) PROVE Accounted(e, t)'
      <4>1. Accounted(e, t) /\ t \in Slots
        BY <1>1, <2>2 DEF Ceiling, Owned
      <4>2. CASE t = s
        BY <1>3, <3>1, <4>2 DEF Accounted
      <4>3. CASE t # s
        BY <1>2, <1>3, <1>4, <1>a, <4>1, <4>3 DEF Accounted
      <4>. QED BY <4>2, <4>3
    <3>6. \A t \in Owned(e) : gen[t] = pool[e]
      BY <1>1, <2>2, <3>1 DEF Ceiling
    <3>. QED BY <1>3, <2>1, <3>1, <3>4, <3>5, <3>6 DEF Ceiling
  <2>3. ASSUME NEW f \in Entries \ {e} PROVE Ceiling(f)'
    <3>1. /\ closed'[f] = closed[f] /\ pool'[f] = pool[f] /\ draining'[f] = draining[f]
          /\ active'[f] <= active[f] /\ retiring'[f] <= retiring[f] /\ idle'[f] = idle[f]
      BY <1>1, <1>3 DEF TypeOK
    <3>2. ASSUME NEW t \in Slots, Accounted(f, t) PROVE Accounted(f, t)'
      BY <1>0, <1>2, <1>3, <1>4, <3>2 DEF Accounted
    <3>. QED BY <1>1, <1>3, <1>6, <2>1, <3>1, <3>2, CeilingKept DEF CeilingEased
  <2>4. closed[e] => Ceiling(e)'
    BY <1>3 DEF Ceiling
  <2>. QED BY <2>2, <2>3, <2>4
<1>17. \A q \in Requests : Waits(q)'
  <2>1. \A f \in Entries : active[f] \in Int /\ target[f] \in Int /\ retiring[f] \in Int
    BY <1>1, PoolAssumption DEF TypeOK
  <2>2. \A q \in Requests : Undisturbed(q)
    <3>1. ASSUME NEW q \in Requests, pc'[q] \in Sleeping
          PROVE  /\ q # r /\ pc[q] = pc'[q] /\ pc[q] = "onCompany"
                 /\ entry[q] \in Entries \ {e}
      BY <1>1, <1>3, <3>1 DEF Sleeping, RequestTied, TypeOK
    <3>. QED BY <1>3, <2>1, <3>1 DEF Undisturbed
  <2>. QED BY <1>1, <1>6, <2>2, WaitsKept
<1>. QED BY <1>6, <1>7, <1>8, <1>9, <1>10, <1>11, <1>12, <1>13, <1>14, <1>15, <1>16, <1>17
         DEF PoolInvariant, Places

-----------------------------------------------------------------------------
(* Opening a connection. *)

(* s opens for r, which waits for it under e.                              *)
OpensAt(r, e, s, g) ==
  /\ Unused(s)
  /\ conn'[s] = (IF closed[e] THEN "closing" ELSE "opening")
  /\ owner'[s] = e /\ gen'[s] = g /\ held'[r] = s
  /\ \A t \in Slots \ {s} : conn'[t] = conn[t] /\ owner'[t] = owner[t] /\ gen'[t] = gen[t]
  /\ \A q \in Requests \ {r} : held'[q] = held[q]

LEMMA OpensMade ==
  ASSUME TypeOK, NEW r \in Requests, NEW e \in Entries, NEW g \in Nat, Opens(r, e, g)
  PROVE  /\ \E s \in Slots : OpensAt(r, e, s, g)
         /\ conn' \in [Slots -> {"none", "opening", "open", "closing"}]
         /\ owner' \in [Slots -> Entries \cup {NoEntry}] /\ gen' \in [Slots -> Nat]
         /\ held' \in [Requests -> Slots \cup {NoSlot}]
<1>1. PICK s \in Slots :
        /\ Unused(s)
        /\ conn' = [conn EXCEPT ![s] = Forked(e)]
        /\ owner' = [owner EXCEPT ![s] = e]
        /\ gen' = [gen EXCEPT ![s] = g]
        /\ held' = [held EXCEPT ![r] = s]
  BY DEF Opens
<1>2. OpensAt(r, e, s, g)
  BY <1>1 DEF OpensAt, Forked, TypeOK
<1>3. Forked(e) \in {"opening", "closing"}
  BY DEF Forked
<1>. QED BY <1>1, <1>2, <1>3 DEF TypeOK

LEMMA OpensKeepsPlaces ==
  ASSUME PoolInvariant, NEW r \in Requests, NEW e \in Entries, e = entry[r],
         NEW s \in Slots, NEW g, OpensAt(r, e, s, g), held[r] = NoSlot,
         UNCHANGED <<candidates, idle, doomed, closed, entry>>,
         \A q \in Requests : closes'[q] \subseteq closes[q],
         pc'[r] # "leased",
         \A q \in Requests \ {r} : pc'[q] = "leased" => pc[q] = "leased"
  PROVE  Places'
<1>1. TypeOK /\ Places /\ s # NoSlot /\ e # NoEntry /\ NoEntry \notin Entries
  BY PoolAssumption DEF PoolInvariant
<1>2. /\ conn[s] = "none" /\ conn'[s] # "none" /\ conn'[s] # "open"
      /\ closed[e] => conn'[s] = "closing"
      /\ owner'[s] = e /\ held'[r] = s
      /\ \A t \in Slots \ {s} : conn'[t] = conn[t] /\ owner'[t] = owner[t]
      /\ \A q \in Requests \ {r} : held'[q] = held[q]
      /\ \A q \in Requests : held[q] # s /\ s \notin closes[q]
      /\ \A q \in Requests : entry[q] # NoEntry => s \notin idle[entry[q]]
  BY DEF OpensAt, Unused
<1>3. \A t \in Slots : SlotTied(t)'
  BY <1>1, <1>2 DEF Places, SlotTied, Live
<1>4. \A q \in Requests : ClosesTied(q)'
  <2>1. ASSUME NEW q \in Requests PROVE ClosesTied(q)'
    <3>1. ClosesTied(q) /\ closes[q] \subseteq Slots
      BY <1>1 DEF Places, TypeOK
    <3>. QED BY <1>2, <3>1 DEF ClosesTied
  <2>. QED BY <2>1
<1>5. \A q \in Requests : HeldTied(q)'
  <2>1. HeldTied(r)'
    BY <1>2 DEF HeldTied
  <2>2. ASSUME NEW q \in Requests \ {r}, held[q] # NoSlot PROVE HeldTied(q)'
    <3>1. HeldTied(q) /\ held[q] \in Slots \ {s}
      BY <1>1, <1>2, <2>2 DEF Places, TypeOK
    <3>. QED BY <1>2, <3>1 DEF HeldTied, Live
  <2>. QED BY <1>2, <2>1, <2>2 DEF HeldTied
<1>6. \A f \in Entries : IdleTied(f)'
  <2>1. ASSUME NEW f \in Entries, InUse(f), NEW t \in idle[f]
        PROVE  /\ Live(t)' => owner'[t] = f
               /\ \A q \in Requests : held'[q] # t /\ t \notin closes'[q]
               /\ \A h \in Entries \ {f} : InUse(h) => t \notin idle[h]
               /\ ~closed[f] => conn'[t] = "open" /\ t \in candidates
    <3>1. /\ Live(t) => owner[t] = f
          /\ \A q \in Requests : held[q] # t /\ t \notin closes[q]
          /\ \A h \in Entries \ {f} : InUse(h) => t \notin idle[h]
          /\ ~closed[f] => conn[t] = "open" /\ t \in candidates
          /\ t \in Slots
      BY <1>1, <2>1 DEF Places, IdleTied, TypeOK
    <3>2. t # s
      BY <1>1, <1>2, <2>1, <3>1 DEF InUse
    <3>. QED BY <1>2, <3>1, <3>2 DEF Live
  <2>2. \A f \in Entries : InUse(f)' <=> InUse(f)
    BY DEF InUse
  <2>. QED BY <2>1, <2>2 DEF IdleTied
<1>. QED BY <1>3, <1>4, <1>5, <1>6 DEF Places

LEMMA OpensCounted ==
  ASSUME TypeOK, NEW r, NEW e, NEW s \in Slots, NEW g, OpensAt(r, e, s, g)
  PROVE  Cardinality(LiveSlots') = Cardinality(LiveSlots) + 1
<1>1. LiveSlots' = LiveSlots \cup {s} /\ s \notin LiveSlots
  BY DEF LiveSlots, Live, OpensAt, Unused
<1>2. IsFiniteSet(LiveSlots)
  <2>1. LiveSlots \subseteq Slots
    BY DEF LiveSlots
  <2>. QED BY <2>1, SmallSets
<1>. QED BY <1>1, <1>2, CardAdd

(* The connections an entry owns, when one of e's opens.                   *)
LEMMA OpensOwned ==
  ASSUME NEW r, NEW e \in Entries, NEW s \in Slots, NEW g, OpensAt(r, e, s, g)
  PROVE  /\ Owned(e)' = Owned(e) \cup {s}
         /\ \A f \in Entries \ {e} : Owned(f)' = Owned(f)
         /\ \A f \in Entries : \A t \in Owned(f) : gen'[t] = gen[t] /\ t # s /\ t \in Slots
<1>1. /\ conn[s] = "none" /\ conn'[s] # "none" /\ owner'[s] = e
      /\ \A t \in Slots \ {s} : conn'[t] = conn[t] /\ owner'[t] = owner[t] /\ gen'[t] = gen[t]
  BY DEF OpensAt, Unused
<1>. QED BY <1>1 DEF Owned, Live

LEMMA OpenWithinKeeps ==
  ASSUME PoolInvariant, NEW r \in Requests, OpenWithin(r)
  PROVE  PoolInvariant'
<1>1. /\ TypeOK /\ RetainedOpen /\ Places /\ CountsHold /\ OneDrains /\ BudgetHolds
      /\ \A q \in Requests : RequestTied(q) /\ Waits(q)
      /\ \A f \in Entries : Ceiling(f)
  BY DEF PoolInvariant
<1>0. PICK e \in Entries : e = entry[r]
  BY <1>1, WantedTyped DEF OpenWithin, MayAcquire
<1>2. /\ MayAcquire(r) /\ pc[r] = "trying" /\ idle[e] = {} /\ openBackends < MaxBackends
      /\ pool' = [pool EXCEPT ![e] = Wanted(e)]
      /\ active' = [active EXCEPT ![e] = @ + 1]
      /\ openBackends' = openBackends + 1
      /\ Opens(r, e, Wanted(e))
      /\ pc' = [pc EXCEPT ![r] = "opening"]
      /\ UNCHANGED <<service, registry, company, closed, target, idle, draining, retiring,
                     candidates, seen, entry, queued, closes, from, bounds>>
  BY <1>0 DEF OpenWithin, MayAcquire, Switched
<1>3. Wanted(e) \in Nat
  BY <1>0, <1>1, <1>2, WantedTyped
<1>4. PICK s \in Slots : OpensAt(r, e, s, Wanted(e))
  BY <1>1, <1>2, <1>3, OpensMade
<1>5. TypeOK'
  <2>1. pc' \in [Requests -> {"out", "read", "trying", "queueing", "draining"}
                               \cup Sleeping \cup Admitted]
    BY <1>1, <1>2 DEF TypeOK, Admitted
  <2>2. /\ pool' \in [Entries -> Nat] /\ active' \in [Entries -> Nat] /\ openBackends' \in Nat
    BY <1>1, <1>2, <1>3 DEF TypeOK
  <2>3. /\ conn' \in [Slots -> {"none", "opening", "open", "closing"}]
        /\ owner' \in [Slots -> Entries \cup {NoEntry}] /\ gen' \in [Slots -> Nat]
        /\ held' \in [Requests -> Slots \cup {NoSlot}]
    BY <1>1, <1>2, <1>3, OpensMade
  <2>. QED BY <1>1, <1>2, <2>1, <2>2, <2>3 DEF TypeOK, service, bounds
<1>6. /\ UNCHANGED <<revision, up, doomed, registry, company, closed, target, idle, draining,
                     retiring, candidates, seen, entry, closes, from>>
      /\ pc'[r] = "opening" /\ pool'[e] = Wanted(e) /\ active'[e] = active[e] + 1
      /\ \A q \in Requests \ {r} : pc'[q] = pc[q]
      /\ \A f \in Entries \ {e} : pool'[f] = pool[f] /\ active'[f] = active[f]
  BY <1>1, <1>2 DEF TypeOK, service
<1>7. /\ held[r] = NoSlot /\ closes[r] = {} /\ from[r] = NoEntry
      /\ held'[r] = s /\ s # NoSlot
      /\ \A q \in Requests \ {r} : held'[q] = held[q]
      /\ \A q \in Requests : s \notin closes[q]
      /\ \A t \in Slots \ {s} : conn'[t] = conn[t]
  BY <1>1, <1>2, <1>4, PoolAssumption DEF RequestTied, OpensAt, Unused
<1>8. \A q \in Requests : RequestTied(q)'
  <2>1. RequestTied(r)'
    BY <1>1, <1>2, <1>6, <1>7 DEF RequestTied
  <2>2. \A q \in Requests \ {r} : RequestTied(q)'
    BY <1>1, <1>6, <1>7 DEF RequestTied
  <2>. QED BY <2>1, <2>2
<1>9. RetainedOpen'
  BY <1>1, <1>6 DEF RetainedOpen
<1>10. Places'
  BY <1>0, <1>4, <1>6, <1>7, OpensKeepsPlaces
<1>11. /\ Cardinality(LiveSlots') = Cardinality(LiveSlots) + 1
       /\ Evicting' = Evicting /\ Promised' = Promised
  <2>1. Evicting' = Evicting
    BY <1>2, <1>6 DEF Evicting
  <2>2. \A q \in Requests : \A t \in closes[q] : Live(t)' <=> Live(t)
    BY <1>1, <1>7 DEF Live, TypeOK
  <2>3. Promised' = Promised
    BY <1>6, <2>1, <2>2 DEF Promised, Evicting
  <2>. QED BY <1>1, <1>4, <2>1, <2>3, OpensCounted
<1>12. CountsHold'
  <2>1. \A f \in Entries : active'[f] = Cardinality(AdmittedTo(f)')
    BY <1>0, <1>1, <1>2, <1>6, AdmissionBegins DEF Admitted
  <2>2. \A f \in Entries : EvictsFrom(f)' = EvictsFrom(f)
    BY <1>6 DEF EvictsFrom
  <2>3. openBackends' = Cardinality(LiveSlots') + Cardinality(Evicting')
    BY <1>1, <1>2, <1>11, Counted DEF CountsHold
  <2>. QED BY <1>1, <1>6, <2>1, <2>2, <2>3 DEF CountsHold
<1>13. OneDrains'
  BY <1>1, <1>2, <1>6, DrainsKept
<1>14. BudgetHolds'
  <2>1. /\ Cardinality(Promised) <= Cardinality(Evicting)
        /\ Cardinality(Promised) \in Nat /\ Cardinality(Evicting) \in Nat
        /\ Cardinality(LiveSlots) \in Nat /\ MaxBackends \in Nat
    <3>1. Promised \subseteq Evicting
      BY DEF Promised
    <3>. QED BY <1>1, <3>1, Counted, FS_Subset, PoolAssumption
  <2>2. Cardinality(LiveSlots) + Cardinality(Evicting) < MaxBackends
    BY <1>1, <1>2 DEF CountsHold
  <2>3. Cardinality(LiveSlots') + Cardinality(Promised) <= MaxBackends
    BY <1>11, <2>1, <2>2
  <2>. QED BY <1>11, <2>3 DEF BudgetHolds
<1>15. \A f \in Entries : Ceiling(f)'
  <2>1. ASSUME NEW f \in Entries, NEW t \in Slots, Accounted(f, t) PROVE Accounted(f, t)'
    BY <1>2, <1>6, <1>7, <2>1, PoolAssumption DEF Accounted
  <2>2. ASSUME ~closed[e] PROVE Ceiling(e)'
    <3>1. /\ ~draining[e] /\ active[e] + retiring[e] + 1 <= Wanted(e)
      BY <1>0, <1>2, Acquiring
    <3>2. Cardinality(idle[e]) = 0 /\ active[e] \in Nat /\ retiring[e] \in Nat
      BY <1>1, <1>2, FS_EmptySet DEF TypeOK
    <3>3. Cardinality(idle'[e]) + active'[e] + retiring'[e] <= pool'[e]
      BY <1>3, <1>6, <3>1, <3>2
    <3>4. Owned(e)' = Owned(e) \cup {s} /\ gen'[s] = Wanted(e)
      BY <1>4, OpensOwned DEF OpensAt
    <3>5. \A t \in Owned(e) : gen'[t] = Wanted(e) /\ t \in Slots
      <4>1. \A t \in Owned(e) : gen'[t] = gen[t] /\ t \in Slots
        BY <1>4, OpensOwned
      <4>2. \A t \in Owned(e) : gen[t] = Wanted(e)
        BY <1>0, <1>2, <2>2, Switching
      <4>. QED BY <4>1, <4>2
    <3>6. \A t \in Owned(e) : Accounted(e, t)'
      BY <1>1, <2>1, <2>2, <3>5 DEF Ceiling
    <3>7. Accounted(e, s)'
      BY <1>0, <1>6, <1>7 DEF Accounted
    <3>. QED BY <1>6, <3>1, <3>3, <3>4, <3>5, <3>6, <3>7 DEF Ceiling
  <2>3. ASSUME NEW f \in Entries \ {e} PROVE Ceiling(f)'
    <3>1. /\ closed'[f] = closed[f] /\ pool'[f] = pool[f] /\ draining'[f] = draining[f]
          /\ active'[f] <= active[f] /\ retiring'[f] <= retiring[f] /\ idle'[f] = idle[f]
      BY <1>1, <1>6 DEF TypeOK
    <3>2. Owned(f)' = Owned(f) /\ \A t \in Owned(f) : gen'[t] = gen[t]
      BY <1>4, OpensOwned
    <3>. QED BY <1>1, <1>5, <2>1, <3>1, <3>2, CeilingKept DEF CeilingEased
  <2>4. closed[e] => Ceiling(e)'
    BY <1>6 DEF Ceiling
  <2>. QED BY <2>2, <2>3, <2>4
<1>16. \A q \in Requests : Waits(q)'
  <2>1. /\ \A f \in Entries : active'[f] >= active[f]
        /\ \A f \in Entries : target[f] \in Int /\ retiring[f] \in Int
    <3>1. \A f \in Entries : active[f] \in Nat /\ target[f] \in Int /\ retiring[f] \in Int
      BY <1>1, PoolAssumption DEF TypeOK
    <3>. QED BY <1>6, <3>1
  <2>2. openBackends' >= openBackends
    BY <1>1, <1>2 DEF TypeOK
  <2>3. \A q \in Requests : Undisturbed(q)
    <3>1. ASSUME NEW q \in Requests, pc'[q] \in Sleeping
          PROVE  q # r /\ pc[q] \in Sleeping /\ entry[q] \in Entries
      BY <1>1, <1>6, <3>1 DEF Sleeping, RequestTied, TypeOK
    <3>. QED BY <1>6, <2>1, <2>2, <3>1 DEF Undisturbed
  <2>. QED BY <1>1, <1>5, <2>3, WaitsKept
<1>. QED BY <1>5, <1>8, <1>9, <1>10, <1>12, <1>13, <1>14, <1>15, <1>16 DEF PoolInvariant

LEMMA EvictKeeps ==
  ASSUME PoolInvariant, NEW r \in Requests, Evict(r)
  PROVE  PoolInvariant'
<1>1. /\ TypeOK /\ RetainedOpen /\ Places /\ CountsHold /\ OneDrains /\ BudgetHolds
      /\ \A q \in Requests : RequestTied(q) /\ Waits(q)
      /\ \A f \in Entries : Ceiling(f)
  BY DEF PoolInvariant
<1>0. PICK e \in Entries : e = entry[r]
  BY <1>1, WantedTyped DEF Evict, MayAcquire
<1>2. PICK v \in candidates :
        /\ idle' = [idle EXCEPT ![owner[v]] = @ \ {v}]
        /\ retiring' = [retiring EXCEPT ![owner[v]] = @ + 1]
        /\ conn' = Closing({v})
        /\ candidates' = candidates \ {v}
        /\ closes' = [closes EXCEPT ![r] = {v}]
        /\ from' = [from EXCEPT ![r] = owner[v]]
  BY DEF Evict, Withdrawn
<1>3. /\ MayAcquire(r) /\ pc[r] = "trying" /\ idle[e] = {}
      /\ pool' = [pool EXCEPT ![e] = Wanted(e)]
      /\ active' = [active EXCEPT ![e] = @ + 1]
      /\ openBackends' = openBackends + 1
      /\ pc' = [pc EXCEPT ![r] = "evicting"]
      /\ UNCHANGED <<service, registry, company, closed, target, draining, owner, gen,
                     seen, entry, queued, held, bounds>>
  BY <1>0 DEF Evict, MayAcquire, Switched
<1>4. Wanted(e) \in Nat
  BY <1>0, <1>1, <1>3, WantedTyped
<1>5. PICK f \in Entries : f = owner[v]
  BY <1>1, <1>2 DEF Places, SlotTied, Live, TypeOK
<1>6. /\ v \in Slots /\ v \in idle[f] /\ conn[v] = "open" /\ f # e
      /\ \A q \in Requests : held[q] # v
  BY <1>1, <1>2, <1>3, <1>5 DEF Places, SlotTied, TypeOK
<1>7. /\ held[r] = NoSlot /\ closes[r] = {} /\ from[r] = NoEntry
      /\ e # NoEntry /\ f # NoEntry
  BY <1>1, <1>3, PoolAssumption DEF RequestTied
<1>a. /\ conn' \in [Slots -> {"none", "opening", "open", "closing"}]
      /\ LivesKept
      /\ \A s \in Slots : conn'[s] = IF s \in {v} /\ Live(s) THEN "closing" ELSE conn[s]
  <2>1. TypeOK /\ conn' = Closing({v})
    BY <1>1, <1>2
  <2>. QED BY <2>1, ClosingMade
<1>8. /\ LivesKept
      /\ \A s \in Slots : conn'[s] = IF s = v THEN "closing" ELSE conn[s]
  <2>1. Live(v)
    BY <1>6 DEF Live
  <2>. QED BY <1>a, <2>1
<1>9. TypeOK'
  <2>1. pc' \in [Requests -> {"out", "read", "trying", "queueing", "draining"}
                               \cup Sleeping \cup Admitted]
    BY <1>1, <1>3 DEF TypeOK, Admitted
  <2>2. /\ pool' \in [Entries -> Nat] /\ active' \in [Entries -> Nat] /\ openBackends' \in Nat
    BY <1>1, <1>3, <1>4 DEF TypeOK
  <2>3. /\ idle' \in [Entries -> SUBSET Slots] /\ retiring' \in [Entries -> Nat]
        /\ candidates' \subseteq Slots /\ closes' \in [Requests -> SUBSET Slots]
        /\ from' \in [Requests -> Entries \cup {NoEntry}]
    BY <1>1, <1>2, <1>5, <1>6 DEF TypeOK
  <2>. QED BY <1>1, <1>3, <1>a, <2>1, <2>2, <2>3 DEF TypeOK, service, bounds
<1>10. /\ UNCHANGED <<revision, up, doomed, registry, company, closed, target, draining, owner,
                      gen, seen, entry, held>>
       /\ pc'[r] = "evicting" /\ closes'[r] = {v} /\ from'[r] = f
       /\ candidates' = candidates \ {v}
       /\ \A q \in Requests \ {r} :
            pc'[q] = pc[q] /\ closes'[q] = closes[q] /\ from'[q] = from[q]
       /\ pool'[e] = Wanted(e) /\ active'[e] = active[e] + 1
       /\ idle'[f] = idle[f] \ {v} /\ retiring'[f] = retiring[f] + 1
       /\ \A h \in Entries \ {e} : pool'[h] = pool[h] /\ active'[h] = active[h]
       /\ \A h \in Entries \ {f} : idle'[h] = idle[h] /\ retiring'[h] = retiring[h]
  BY <1>1, <1>2, <1>3, <1>5 DEF TypeOK, service
<1>11. \A q \in Requests : RequestTied(q)'
  <2>1. RequestTied(r)'
    BY <1>1, <1>3, <1>6, <1>7, <1>10 DEF RequestTied
  <2>2. \A q \in Requests \ {r} : RequestTied(q)'
    BY <1>1, <1>10 DEF RequestTied
  <2>. QED BY <2>1, <2>2
<1>12. RetainedOpen'
  BY <1>1, <1>10 DEF RetainedOpen
<1>13. \A t \in Slots : SlotTied(t)'
  <2>1. ASSUME NEW t \in Slots, t \in candidates'
        PROVE  /\ conn'[t] = "open" /\ t \in idle'[owner[t]]
               /\ \A q \in Requests : held[q] # t
    <3>1. t # v /\ SlotTied(t) /\ t \in candidates
      BY <1>1, <1>10, <2>1 DEF Places
    <3>2. owner[t] \in Entries
      BY <1>1, <3>1 DEF SlotTied, Live, TypeOK
    <3>. QED BY <1>8, <1>10, <3>1, <3>2 DEF SlotTied
  <2>2. \A t \in Slots : Live(t)' <=> Live(t)
    BY <1>8 DEF LivesKept
  <2>. QED BY <1>1, <1>8, <1>10, <2>1, <2>2 DEF Places, SlotTied
<1>14. \A q \in Requests : ClosesTied(q)'
  <2>1. \A q \in Requests : v \notin closes[q]
    BY <1>1, <1>6 DEF Places, ClosesTied
  <2>2. ClosesTied(r)'
    BY <1>6, <1>8, <1>10, <2>1 DEF ClosesTied
  <2>3. ASSUME NEW q \in Requests \ {r} PROVE ClosesTied(q)'
    <3>1. ClosesTied(q) /\ closes[q] \subseteq Slots
      BY <1>1 DEF Places, TypeOK
    <3>. QED BY <1>8, <1>10, <2>1, <3>1 DEF ClosesTied
  <2>. QED BY <2>2, <2>3
<1>15. \A q \in Requests : HeldTied(q)'
  <2>1. ASSUME NEW q \in Requests, held[q] # NoSlot
        PROVE  /\ conn'[held[q]] = conn[held[q]] /\ (Live(held[q])' <=> Live(held[q]))
               /\ pc'[q] = pc[q]
    BY <1>1, <1>6, <1>7, <1>8, <1>10, <2>1 DEF LivesKept, Live, TypeOK
  <2>. QED BY <1>1, <1>10, <2>1 DEF Places, HeldTied, Live
<1>16. \A h \in Entries : IdleTied(h)'
  <2>1. \A h \in Entries : InUse(h)' <=> InUse(h)
    BY <1>10 DEF InUse
  <2>2. ASSUME NEW h \in Entries, InUse(h), NEW t \in idle'[h]
        PROVE  /\ Live(t)' => owner[t] = h
               /\ \A q \in Requests : held[q] # t /\ t \notin closes'[q]
               /\ \A g \in Entries \ {h} : InUse(g) => t \notin idle'[g]
               /\ ~closed[h] => conn'[t] = "open" /\ t \in candidates'
    <3>1. t \in idle[h] /\ t \in Slots
      BY <1>1, <1>10, <2>2 DEF TypeOK
    <3>2. t # v
      BY <1>1, <1>5, <1>6, <1>10, <2>2, <3>1 DEF Places, IdleTied, Live
    <3>3. \A g \in Entries : idle'[g] \subseteq idle[g]
      BY <1>10
    <3>4. conn'[t] = conn[t] /\ \A q \in Requests : t \in closes'[q] => t \in closes[q]
      BY <1>8, <1>10, <3>1, <3>2
    <3>. QED BY <1>1, <1>10, <2>2, <3>1, <3>2, <3>3, <3>4 DEF Places, IdleTied, Live
  <2>. QED BY <1>10, <2>1, <2>2 DEF IdleTied
<1>17. CountsHold'
  <2>1. \A h \in Entries : active'[h] = Cardinality(AdmittedTo(h)')
    BY <1>0, <1>1, <1>3, <1>10, AdmissionBegins DEF Admitted
  <2>2. LiveSlots' = LiveSlots
    BY <1>8 DEF LiveSlots, LivesKept
  <2>3. Evicting' = Evicting \cup {r} /\ r \notin Evicting
    BY <1>3, <1>10 DEF Evicting
  <2>4. Cardinality(Evicting') = Cardinality(Evicting) + 1
    BY <1>1, <2>3, Counted, CardAdd
  <2>5. openBackends' = Cardinality(LiveSlots') + Cardinality(Evicting')
    BY <1>1, <1>3, <2>2, <2>4, Counted DEF CountsHold
  <2>6. EvictsFrom(f)' = EvictsFrom(f) \cup {r} /\ r \notin EvictsFrom(f)
    BY <1>7, <1>10 DEF EvictsFrom
  <2>7. Cardinality(EvictsFrom(f)') = Cardinality(EvictsFrom(f)) + 1
    BY <1>1, <2>6, Counted, CardAdd
  <2>8. \A h \in Entries \ {f} : EvictsFrom(h)' = EvictsFrom(h)
    BY <1>7, <1>10, PoolAssumption DEF EvictsFrom
  <2>9. \A h \in Entries : retiring'[h] = Cardinality(EvictsFrom(h)')
    BY <1>1, <1>10, <2>7, <2>8 DEF CountsHold
  <2>. QED BY <2>1, <2>5, <2>9 DEF CountsHold
<1>18. OneDrains'
  BY <1>1, <1>3, <1>10, DrainsKept
<1>19. BudgetHolds'
  <2>1. LiveSlots' = LiveSlots
    BY <1>8 DEF LiveSlots, LivesKept
  <2>2. \A q \in Requests : q \in Promised' <=> q \in Promised
    <3>1. \A s \in Slots : Live(s)' <=> Live(s)
      BY <1>8 DEF LivesKept
    <3>2. Live(v)' /\ r \notin Promised
      BY <1>3, <1>6, <3>1 DEF Live, Promised, Evicting
    <3>3. r \notin Promised'
      BY <1>10, <3>2 DEF Promised
    <3>4. ASSUME NEW q \in Requests \ {r} PROVE q \in Promised' <=> q \in Promised
      <4>1. closes[q] \subseteq Slots
        BY <1>1 DEF TypeOK
      <4>. QED BY <1>10, <3>1, <4>1 DEF Promised, Evicting
    <3>. QED BY <3>2, <3>3, <3>4
  <2>3. Promised' = Promised
    BY <2>2 DEF Promised, Evicting
  <2>. QED BY <1>1, <2>1, <2>3 DEF BudgetHolds
<1>20. \A h \in Entries : Ceiling(h)'
  <2>1. ASSUME NEW h \in Entries, NEW t \in Slots, Accounted(h, t), ~(h = f /\ t = v)
        PROVE  Accounted(h, t)'
    <3>1. CASE t \in idle[h]
      <4>1. t \in idle'[h]
        BY <1>10, <2>1, <3>1
      <4>. QED BY <4>1 DEF Accounted
    <3>2. CASE t \notin idle[h]
      BY <1>3, <1>7, <1>10, <2>1, <3>2 DEF Accounted
    <3>. QED BY <3>1, <3>2
  <2>2. \A h \in Entries : Owned(h)' = Owned(h)
    BY <1>8, <1>10 DEF Owned, LivesKept
  <2>3. ASSUME ~closed[e] PROVE Ceiling(e)'
    <3>1. /\ ~draining[e] /\ active[e] + retiring[e] + 1 <= Wanted(e)
      BY <1>0, <1>3, Acquiring
    <3>2. Cardinality(idle[e]) = 0 /\ active[e] \in Nat /\ retiring[e] \in Nat
      BY <1>1, <1>3, FS_EmptySet DEF TypeOK
    <3>3. Cardinality(idle'[e]) + active'[e] + retiring'[e] <= pool'[e]
      BY <1>4, <1>6, <1>10, <3>1, <3>2
    <3>4. \A t \in Owned(e) : gen[t] = Wanted(e) /\ t \in Slots
      BY <1>0, <1>3, <2>3, Switching DEF Owned
    <3>5. \A t \in Owned(e) : Accounted(e, t)'
      BY <1>1, <1>6, <2>1, <2>3, <3>4 DEF Ceiling
    <3>. QED BY <1>10, <2>2, <3>1, <3>3, <3>4, <3>5 DEF Ceiling
  <2>4. ASSUME ~closed[f] PROVE Ceiling(f)'
    <3>1. ~draining[f]
      BY <1>1, <1>6, <2>4 DEF Ceiling
    <3>2. Cardinality(idle'[f]) = Cardinality(idle[f]) - 1
      BY <1>1, <1>6, <1>10, Counted, CardDrop
    <3>3. /\ Cardinality(idle[f]) \in Nat /\ active[f] \in Nat /\ retiring[f] \in Nat
          /\ pool[f] \in Nat /\ Cardinality(idle[f]) + active[f] + retiring[f] <= pool[f]
      BY <1>1, <2>4, Counted DEF TypeOK, Ceiling
    <3>4. Cardinality(idle'[f]) + active'[f] + retiring'[f] <= pool'[f]
      BY <1>6, <1>10, <3>2, <3>3
    <3>5. \A t \in Owned(f) : gen[t] = pool[f] /\ t \in Slots /\ Accounted(f, t)
      BY <1>1, <2>4, <3>1 DEF Ceiling, Owned
    <3>6. Accounted(f, v)'
      BY <1>10 DEF Accounted
    <3>7. \A t \in Owned(f) : Accounted(f, t)'
      BY <2>1, <3>5, <3>6
    <3>. QED BY <1>6, <1>10, <2>2, <3>1, <3>4, <3>5, <3>7 DEF Ceiling
  <2>5. ASSUME NEW h \in Entries \ {e, f} PROVE Ceiling(h)'
    <3>1. /\ closed'[h] = closed[h] /\ pool'[h] = pool[h] /\ draining'[h] = draining[h]
          /\ active'[h] <= active[h] /\ retiring'[h] <= retiring[h] /\ idle'[h] = idle[h]
      BY <1>1, <1>10 DEF TypeOK
    <3>. QED BY <1>1, <1>9, <1>10, <2>1, <2>2, <3>1, CeilingKept DEF CeilingEased
  <2>6. /\ closed[e] => Ceiling(e)'
        /\ closed[f] => Ceiling(f)'
    BY <1>10 DEF Ceiling
  <2>. QED BY <2>3, <2>4, <2>5, <2>6
<1>21. \A q \in Requests : Waits(q)'
  <2>1. \A h \in Entries : /\ active'[h] >= active[h] /\ retiring'[h] >= retiring[h]
                           /\ target[h] \in Int /\ idle'[h] \subseteq idle[h]
    <3>1. \A h \in Entries : active[h] \in Nat /\ target[h] \in Int /\ retiring[h] \in Nat
      BY <1>1, PoolAssumption DEF TypeOK
    <3>. QED BY <1>10, <3>1
  <2>2. openBackends' >= openBackends
    BY <1>1, <1>3 DEF TypeOK
  <2>3. \A q \in Requests : Undisturbed(q)
    <3>1. ASSUME NEW q \in Requests, pc'[q] \in Sleeping
          PROVE  q # r /\ pc[q] \in Sleeping /\ entry[q] \in Entries
      BY <1>1, <1>10, <3>1 DEF Sleeping, RequestTied, TypeOK
    <3>. QED BY <1>10, <2>1, <2>2, <3>1 DEF Undisturbed
  <2>. QED BY <1>1, <1>9, <2>3, WaitsKept
<1>. QED BY <1>9, <1>11, <1>12, <1>13, <1>14, <1>15, <1>16, <1>17, <1>18, <1>19, <1>20, <1>21
         DEF PoolInvariant, Places

LEMMA EvictedKeeps ==
  ASSUME PoolInvariant, NEW r \in Requests, Evicted(r)
  PROVE  PoolInvariant'
<1>1. /\ TypeOK /\ RetainedOpen /\ Places /\ CountsHold /\ OneDrains /\ BudgetHolds
      /\ \A q \in Requests : RequestTied(q) /\ Waits(q)
      /\ \A h \in Entries : Ceiling(h)
  BY DEF PoolInvariant
<1>0. PICK e \in Entries : e = entry[r]
  BY <1>1, WantedTyped DEF Evicted
<1>2. /\ held[r] = NoSlot /\ from[r] # NoEntry /\ e # NoEntry
      /\ pc[r] = "evicting" /\ \A s \in closes[r] : ~Live(s)
  BY <1>0, <1>1, PoolAssumption DEF RequestTied, Evicted, CloseAwaited
<1>3. PICK f \in Entries : f = from[r]
  BY <1>1, <1>2 DEF TypeOK
<1>4. /\ retiring' = [retiring EXCEPT ![f] = @ - 1]
      /\ closes' = [closes EXCEPT ![r] = {}] /\ from' = [from EXCEPT ![r] = NoEntry]
      /\ Opens(r, e, pool[e])
      /\ pc' = Wake([pc EXCEPT ![r] = "opening"], f)
      /\ UNCHANGED <<service, entries, idle, draining, active, host, seen, entry, queued, bounds>>
  BY <1>0, <1>3 DEF Evicted
<1>5. /\ retiring[f] >= 1 /\ pool[e] \in Nat /\ f # NoEntry
      /\ active[e] >= 1
  BY <1>0, <1>1, <1>2, <1>3, EvictionCounted, AdmissionCounted DEF TypeOK, Admitted
<1>6. PICK s \in Slots : OpensAt(r, e, s, pool[e])
  BY <1>1, <1>4, <1>5, OpensMade
<1>7. TypeOK'
  <2>1. pc' \in [Requests -> {"out", "read", "trying", "queueing", "draining"}
                               \cup Sleeping \cup Admitted]
    BY <1>1, <1>4 DEF TypeOK, Wake, Admitted
  <2>2. /\ retiring' \in [Entries -> Nat] /\ closes' \in [Requests -> SUBSET Slots]
        /\ from' \in [Requests -> Entries \cup {NoEntry}]
    BY <1>1, <1>4, <1>5 DEF TypeOK
  <2>3. /\ conn' \in [Slots -> {"none", "opening", "open", "closing"}]
        /\ owner' \in [Slots -> Entries \cup {NoEntry}] /\ gen' \in [Slots -> Nat]
        /\ held' \in [Requests -> Slots \cup {NoSlot}]
    BY <1>1, <1>4, <1>5, OpensMade
  <2>. QED BY <1>1, <1>4, <2>1, <2>2, <2>3 DEF TypeOK, service, entries, host, bounds
<1>8. /\ UNCHANGED <<revision, up, doomed, registry, company, closed, pool, target, idle, draining,
                     active, openBackends, candidates, seen, entry>>
      /\ pc'[r] = "opening" /\ closes'[r] = {} /\ from'[r] = NoEntry
      /\ retiring'[f] = retiring[f] - 1
      /\ \A q \in Requests \ {r} :
           /\ closes'[q] = closes[q] /\ from'[q] = from[q]
           /\ pc'[q] = IF pc[q] = "onCompany" /\ entry[q] = f THEN "trying" ELSE pc[q]
      /\ \A h \in Entries \ {f} : retiring'[h] = retiring[h]
  <2>1. /\ pc'[r] = "opening"
        /\ \A q \in Requests \ {r} :
             pc'[q] = IF pc[q] = "onCompany" /\ entry[q] = f THEN "trying" ELSE pc[q]
    BY <1>1, <1>4, WakeMade
  <2>. QED BY <1>1, <1>4, <2>1 DEF TypeOK, service, entries, host
<1>9. /\ held'[r] = s /\ s # NoSlot
      /\ \A q \in Requests \ {r} : held'[q] = held[q]
      /\ \A q \in Requests : s \notin closes[q]
      /\ \A t \in Slots \ {s} : conn'[t] = conn[t]
  BY <1>6, PoolAssumption DEF OpensAt, Unused
<1>10. \A q \in Requests : RequestTied(q)'
  <2>1. RequestTied(r)'
    BY <1>1, <1>2, <1>8, <1>9 DEF RequestTied
  <2>2. \A q \in Requests \ {r} : RequestTied(q)'
    BY <1>1, <1>8, <1>9 DEF RequestTied, TypeOK
  <2>. QED BY <2>1, <2>2
<1>11. RetainedOpen'
  BY <1>1, <1>8 DEF RetainedOpen
<1>12. Places'
  <2>1. /\ \A q \in Requests : closes'[q] \subseteq closes[q]
        /\ pc'[r] # "leased"
        /\ \A q \in Requests \ {r} : pc'[q] = "leased" => pc[q] = "leased"
    BY <1>8
  <2>. QED BY <1>0, <1>2, <1>6, <1>8, <2>1, OpensKeepsPlaces
<1>13. Evicting' = Evicting \ {r} /\ r \in Evicting
  BY <1>2, <1>8 DEF Evicting
<1>14. Promised' = Promised \ {r} /\ r \in Promised
  <2>1. \A q \in Requests : \A t \in closes[q] : Live(t)' <=> Live(t)
    BY <1>1, <1>9 DEF Live, TypeOK
  <2>2. r \in Promised /\ r \notin Promised'
    BY <1>2, <1>13 DEF Promised
  <2>3. \A q \in Requests \ {r} : q \in Promised' <=> q \in Promised
    BY <1>8, <1>13, <2>1 DEF Promised
  <2>4. Promised \subseteq Requests /\ Promised' \subseteq Requests
    BY <1>13 DEF Promised, Evicting
  <2>. QED BY <2>2, <2>3, <2>4
<1>15. /\ Cardinality(LiveSlots') = Cardinality(LiveSlots) + 1
       /\ Cardinality(Evicting') = Cardinality(Evicting) - 1
       /\ Cardinality(Promised') = Cardinality(Promised) - 1
       /\ Cardinality(LiveSlots) \in Nat /\ Cardinality(Evicting) \in Nat
       /\ Cardinality(Promised) \in Nat
  <2>1. /\ IsFiniteSet(Evicting) /\ Cardinality(Evicting) \in Nat
        /\ IsFiniteSet(Promised) /\ Cardinality(Promised) \in Nat
        /\ Cardinality(LiveSlots) \in Nat
    BY <1>0, <1>1, Counted
  <2>2. Cardinality(LiveSlots') = Cardinality(LiveSlots) + 1
    BY <1>1, <1>6, OpensCounted
  <2>3. Cardinality(Evicting') = Cardinality(Evicting) - 1
    BY <1>13, <2>1, CardDrop
  <2>4. Cardinality(Promised') = Cardinality(Promised) - 1
    BY <1>14, <2>1, CardDrop
  <2>. QED BY <2>1, <2>2, <2>3, <2>4
<1>16. CountsHold'
  <2>1. \A h \in Entries : AdmittedTo(h)' = AdmittedTo(h)
    BY <1>2, <1>8 DEF AdmittedTo, Admitted
  <2>2. EvictsFrom(f)' = EvictsFrom(f) \ {r} /\ r \in EvictsFrom(f)
    BY <1>3, <1>5, <1>8 DEF EvictsFrom
  <2>3. Cardinality(EvictsFrom(f)') = Cardinality(EvictsFrom(f)) - 1
    BY <1>1, <2>2, Counted, CardDrop
  <2>4. \A h \in Entries \ {f} : EvictsFrom(h)' = EvictsFrom(h)
    BY <1>3, <1>8, PoolAssumption DEF EvictsFrom
  <2>5. \A h \in Entries : retiring'[h] = Cardinality(EvictsFrom(h)')
    BY <1>1, <1>8, <2>3, <2>4 DEF CountsHold
  <2>6. openBackends' = Cardinality(LiveSlots') + Cardinality(Evicting')
    BY <1>1, <1>8, <1>15 DEF CountsHold
  <2>. QED BY <1>1, <1>8, <2>1, <2>5, <2>6 DEF CountsHold
<1>17. OneDrains'
  BY <1>1, <1>2, <1>8, DrainsKept
<1>18. BudgetHolds'
  <2>1. Cardinality(LiveSlots') + Cardinality(Promised') <= MaxBackends
    BY <1>1, <1>15, PoolAssumption DEF BudgetHolds
  <2>. QED BY <2>1 DEF BudgetHolds
<1>19. \A h \in Entries : Ceiling(h)'
  <2>0. \A h \in Entries : retiring'[h] <= retiring[h]
    BY <1>1, <1>8 DEF TypeOK
  <2>1. ASSUME NEW h \in Entries, NEW t \in Slots, Live(t), Accounted(h, t)
        PROVE  Accounted(h, t)'
    <3>1. t \notin closes[r] /\ t # NoSlot
      BY <1>2, <2>1, PoolAssumption
    <3>. QED BY <1>2, <1>8, <1>9, <2>1, <3>1 DEF Accounted
  <2>2. ASSUME ~closed[e] PROVE Ceiling(e)'
    <3>1. ~draining[e]
      BY <1>1, <1>5, <2>2 DEF Ceiling
    <3>2. Cardinality(idle[e]) + active[e] + retiring'[e] <= pool[e]
      <4>1. /\ Cardinality(idle[e]) + active[e] + retiring[e] <= pool[e]
            /\ Cardinality(idle[e]) \in Nat /\ active[e] \in Nat /\ retiring[e] \in Nat
            /\ retiring'[e] \in Nat
        BY <1>1, <1>7, <2>2, Counted DEF Ceiling, TypeOK
      <4>. QED BY <1>5, <2>0, <4>1
    <3>4. Owned(e)' = Owned(e) \cup {s} /\ gen'[s] = pool[e]
      BY <1>6, OpensOwned DEF OpensAt
    <3>5. \A t \in Owned(e) : gen'[t] = pool[e] /\ t \in Slots /\ Live(t)
      <4>1. \A t \in Owned(e) : gen'[t] = gen[t] /\ t \in Slots /\ Live(t)
        BY <1>6, OpensOwned DEF Owned
      <4>. QED BY <1>1, <2>2, <3>1, <4>1 DEF Ceiling
    <3>6. \A t \in Owned(e) : Accounted(e, t)'
      BY <1>1, <2>1, <2>2, <3>5 DEF Ceiling
    <3>7. Accounted(e, s)'
      BY <1>0, <1>8, <1>9 DEF Accounted
    <3>. QED BY <1>8, <3>1, <3>2, <3>4, <3>5, <3>6, <3>7 DEF Ceiling
  <2>3. ASSUME NEW h \in Entries \ {e} PROVE Ceiling(h)'
    <3>1. /\ closed'[h] = closed[h] /\ pool'[h] = pool[h] /\ draining'[h] = draining[h]
          /\ active'[h] <= active[h] /\ retiring'[h] <= retiring[h] /\ idle'[h] = idle[h]
      BY <1>1, <1>8, <2>0 DEF TypeOK
    <3>2. Owned(h)' = Owned(h) /\ \A t \in Owned(h) : gen'[t] = gen[t] /\ Live(t)
      BY <1>6, OpensOwned DEF Owned
    <3>. QED BY <1>1, <1>7, <2>1, <3>1, <3>2, CeilingKept DEF CeilingEased
  <2>4. closed[e] => Ceiling(e)'
    BY <1>8 DEF Ceiling
  <2>. QED BY <2>2, <2>3, <2>4
<1>20. \A q \in Requests : Waits(q)'
  <2>1. \A h \in Entries : active[h] \in Int /\ target[h] \in Int /\ retiring[h] \in Int
    BY <1>1, PoolAssumption DEF TypeOK
  <2>2. openBackends \in Int
    BY <1>1 DEF TypeOK
  <2>3. \A q \in Requests : Undisturbed(q)
    <3>1. ASSUME NEW q \in Requests, pc'[q] \in Sleeping
          PROVE  /\ pc[q] = pc'[q] /\ entry[q] \in Entries
                 /\ pc[q] = "onCompany" => entry[q] # f
      BY <1>1, <1>8, <3>1 DEF Sleeping, RequestTied, TypeOK
    <3>. QED BY <1>8, <2>1, <2>2, <3>1 DEF Undisturbed
  <2>. QED BY <1>1, <1>7, <2>3, WaitsKept
<1>. QED BY <1>7, <1>10, <1>11, <1>12, <1>16, <1>17, <1>18, <1>19, <1>20 DEF PoolInvariant

-----------------------------------------------------------------------------
(* Connections close, entries expire, the service is torn down. *)

LEMMA ConnClosedKeeps ==
  ASSUME PoolInvariant, NEW s \in Slots, ConnClosed(s)
  PROVE  PoolInvariant'
<1>1. /\ TypeOK /\ RetainedOpen /\ Places /\ CountsHold /\ OneDrains /\ BudgetHolds
      /\ \A q \in Requests : RequestTied(q) /\ Waits(q)
      /\ \A h \in Entries : Ceiling(h)
  BY DEF PoolInvariant
<1>2. /\ conn[s] = "closing" /\ conn' = [conn EXCEPT ![s] = "none"]
      /\ owner' = [owner EXCEPT ![s] = NoEntry] /\ gen' = [gen EXCEPT ![s] = 0]
      /\ openBackends' = openBackends - 1 /\ doomed' = doomed \ {s}
      /\ pc' = WakeHost(pc)
      /\ UNCHANGED <<revision, up, entries, counts, candidates, fibers, bounds>>
  BY DEF ConnClosed
<1>3. /\ UNCHANGED <<registry, company, closed, pool, target, idle, draining, retiring, active,
                     candidates, seen, entry, held, closes, from>>
      /\ conn'[s] = "none" /\ owner'[s] = NoEntry
      /\ \A t \in Slots \ {s} : conn'[t] = conn[t] /\ owner'[t] = owner[t] /\ gen'[t] = gen[t]
      /\ \A q \in Requests : pc'[q] = IF pc[q] = "onHost" THEN "trying" ELSE pc[q]
  BY <1>1, <1>2 DEF TypeOK, WakeHost, entries, counts, fibers
<1>4. s \notin candidates /\ s # NoSlot
  BY <1>1, <1>2, PoolAssumption DEF Places, SlotTied
<1>5. LiveSlots' = LiveSlots \ {s} /\ s \in LiveSlots /\ IsFiniteSet(LiveSlots)
  <2>1. LiveSlots \subseteq Slots
    BY DEF LiveSlots
  <2>2. LiveSlots' = LiveSlots \ {s} /\ s \in LiveSlots
    BY <1>2, <1>3 DEF LiveSlots, Live
  <2>. QED BY <2>1, <2>2, SmallSets
<1>6. /\ Cardinality(LiveSlots') = Cardinality(LiveSlots) - 1
      /\ Cardinality(LiveSlots) \in Nat /\ Cardinality(LiveSlots) # 0
  BY <1>5, CardDrop, FS_CardinalityType, FS_EmptySet
<1>7. Evicting' = Evicting /\ Cardinality(Evicting) \in Nat
  <2>1. Evicting' = Evicting /\ Evicting \subseteq Requests
    BY <1>3 DEF Evicting
  <2>. QED BY <2>1, SmallSets
<1>8. TypeOK'
  <2>1. pc' \in [Requests -> {"out", "read", "trying", "queueing", "draining"}
                               \cup Sleeping \cup Admitted]
    BY <1>1, <1>2 DEF TypeOK, WakeHost
  <2>2. openBackends' \in Nat
    BY <1>1, <1>2, <1>6, <1>7 DEF CountsHold
  <2>3. /\ conn' \in [Slots -> {"none", "opening", "open", "closing"}]
        /\ owner' \in [Slots -> Entries \cup {NoEntry}] /\ gen' \in [Slots -> Nat]
        /\ doomed' \subseteq Slots
    BY <1>1, <1>2 DEF TypeOK
  <2>. QED BY <1>1, <1>2, <2>1, <2>2, <2>3 DEF TypeOK, entries, counts, fibers, bounds
<1>9. \A q \in Requests : RequestTied(q)'
  <2>1. \A h \in Entries : target[h] \in Int
    BY <1>1, PoolAssumption DEF TypeOK
  <2>2. \A q \in Requests : entry[q] # NoEntry => entry[q] \in Entries
    BY <1>1 DEF TypeOK
  <2>. QED BY <1>1, <1>3, <1>8, <2>1, <2>2, TiedKept DEF Sleeping
<1>10. RetainedOpen'
  BY <1>1, <1>3 DEF RetainedOpen
<1>11. \A t \in Slots : SlotTied(t)'
  <2>1. SlotTied(s)'
    BY <1>2, <1>3, <1>4 DEF SlotTied, Live
  <2>2. ASSUME NEW t \in Slots \ {s} PROVE SlotTied(t)'
    BY <1>1, <1>2, <1>3 DEF Places, SlotTied, Live
  <2>. QED BY <2>1, <2>2
<1>12. \A q \in Requests : ClosesTied(q)'
  <2>1. ASSUME NEW q \in Requests PROVE ClosesTied(q)'
    <3>1. ClosesTied(q) /\ closes[q] \subseteq Slots
      BY <1>1 DEF Places, TypeOK
    <3>. QED BY <1>3, <3>1 DEF ClosesTied
  <2>. QED BY <2>1
<1>13. \A q \in Requests : HeldTied(q)'
  <2>1. ASSUME NEW q \in Requests, held[q] # NoSlot PROVE HeldTied(q)'
    <3>1. HeldTied(q) /\ held[q] \in Slots /\ (pc'[q] = "leased" => pc[q] = "leased")
      BY <1>1, <1>3, <2>1 DEF Places, TypeOK
    <3>2. CASE held[q] = s
      BY <1>2, <1>3, <3>1, <3>2 DEF HeldTied, Live
    <3>3. CASE held[q] # s
      BY <1>3, <3>1, <3>3 DEF HeldTied, Live
    <3>. QED BY <3>2, <3>3
  <2>. QED BY <1>3, <2>1 DEF HeldTied
<1>14. \A h \in Entries : IdleTied(h)'
  <2>1. \A h \in Entries : InUse(h)' <=> InUse(h)
    BY <1>3 DEF InUse
  <2>2. ASSUME NEW h \in Entries, InUse(h), NEW t \in idle[h]
        PROVE  /\ Live(t)' => owner'[t] = h
               /\ \A q \in Requests : held[q] # t /\ t \notin closes[q]
               /\ \A g \in Entries \ {h} : InUse(g) => t \notin idle[g]
               /\ ~closed[h] => conn'[t] = "open" /\ t \in candidates
    <3>1. /\ Live(t) => owner[t] = h
          /\ \A q \in Requests : held[q] # t /\ t \notin closes[q]
          /\ \A g \in Entries \ {h} : InUse(g) => t \notin idle[g]
          /\ ~closed[h] => conn[t] = "open" /\ t \in candidates
          /\ t \in Slots
      BY <1>1, <2>2 DEF Places, IdleTied, TypeOK
    <3>. QED BY <1>2, <1>3, <3>1 DEF Live
  <2>. QED BY <1>3, <2>1, <2>2 DEF IdleTied
<1>15. CountsHold'
  <2>1. \A h \in Entries : AdmittedTo(h)' = AdmittedTo(h) /\ EvictsFrom(h)' = EvictsFrom(h)
    BY <1>3 DEF AdmittedTo, EvictsFrom, Admitted
  <2>2. openBackends' = Cardinality(LiveSlots') + Cardinality(Evicting')
    BY <1>1, <1>2, <1>6, <1>7 DEF CountsHold
  <2>. QED BY <1>1, <1>3, <2>1, <2>2 DEF CountsHold
<1>16. OneDrains'
  BY <1>1, <1>3, DrainsKept
<1>17. BudgetHolds'
  <2>1. PICK p : \A q \in Requests : s \in closes[q] => q = p
    BY <1>1 DEF Places, ClosesTied
  <2>2. ASSUME NEW q \in Promised' PROVE q \in Promised \cup {p}
    <3>1. q \in Evicting /\ q \in Requests /\ \A t \in closes[q] : ~Live(t)'
      BY <1>3, <1>7 DEF Promised, Evicting
    <3>2. CASE s \in closes[q]
      BY <2>1, <3>1, <3>2
    <3>3. CASE s \notin closes[q]
      <4>1. \A t \in closes[q] : ~Live(t)
        BY <1>1, <1>3, <3>1, <3>3 DEF Live, TypeOK
      <4>. QED BY <3>1, <4>1 DEF Promised
    <3>. QED BY <3>2, <3>3
  <2>3. Promised \subseteq Requests /\ Promised' \subseteq Requests
    BY <1>7 DEF Promised, Evicting
  <2>4. /\ IsFiniteSet(Promised) /\ Cardinality(Promised) \in Nat
        /\ Cardinality(Promised') \in Nat
    BY <2>3, SmallSets
  <2>5. Cardinality(Promised') <= Cardinality(Promised) + 1
    BY <2>2, <2>4, CardGains
  <2>6. Cardinality(LiveSlots') + Cardinality(Promised') <= MaxBackends
    BY <1>1, <1>6, <2>4, <2>5, PoolAssumption DEF BudgetHolds
  <2>. QED BY <2>6 DEF BudgetHolds
<1>18. \A h \in Entries : Ceiling(h)'
  <2>1. ASSUME NEW h \in Entries PROVE CeilingEased(h)
    <3>1. /\ closed'[h] = closed[h] /\ pool'[h] = pool[h] /\ draining'[h] = draining[h]
          /\ active'[h] <= active[h] /\ retiring'[h] <= retiring[h] /\ idle'[h] = idle[h]
      BY <1>1, <1>3 DEF TypeOK
    <3>2. ASSUME NEW t \in Slots, Accounted(h, t) PROVE Accounted(h, t)'
      BY <1>3, <3>2 DEF Accounted
    <3>3. \A t \in Slots : t \in Owned(h)' => t \in Owned(h) /\ gen'[t] = gen[t]
      BY <1>3, PoolAssumption DEF Owned, Live
    <3>. QED BY <3>1, <3>2, <3>3 DEF CeilingEased
  <2>. QED BY <1>1, <1>8, <2>1, CeilingKept
<1>19. \A q \in Requests : Waits(q)'
  <2>1. \A h \in Entries : active[h] \in Int /\ target[h] \in Int /\ retiring[h] \in Int
    BY <1>1, PoolAssumption DEF TypeOK
  <2>2. \A q \in Requests : Undisturbed(q)
    <3>1. ASSUME NEW q \in Requests, pc'[q] \in Sleeping
          PROVE  pc[q] = pc'[q] /\ pc[q] = "onCompany" /\ entry[q] \in Entries
      BY <1>1, <1>3, <3>1 DEF Sleeping, RequestTied, TypeOK
    <3>. QED BY <1>3, <2>1, <3>1 DEF Undisturbed
  <2>. QED BY <1>1, <1>8, <2>2, WaitsKept
<1>. QED BY <1>8, <1>9, <1>10, <1>11, <1>12, <1>13, <1>14, <1>15, <1>16, <1>17, <1>18, <1>19
         DEF PoolInvariant, Places

LEMMA TeardownSlotKeeps ==
  ASSUME PoolInvariant, NEW s \in Slots, TeardownSlot(s)
  PROVE  PoolInvariant'
<1>1. /\ TypeOK /\ RetainedOpen /\ Places /\ CountsHold /\ OneDrains /\ BudgetHolds
      /\ \A q \in Requests : RequestTied(q) /\ Waits(q)
      /\ \A h \in Entries : Ceiling(h)
  BY DEF PoolInvariant
<1>2. /\ s \in doomed /\ doomed' = doomed \ {s} /\ conn' = Closing({s})
      /\ candidates' = candidates \ {s}
      /\ UNCHANGED <<revision, up, entries, counts, owner, gen, openBackends, pc, fibers, bounds>>
  BY DEF TeardownSlot, Withdrawn
<1>3. /\ conn' \in [Slots -> {"none", "opening", "open", "closing"}]
      /\ LivesKept
      /\ \A t \in Slots : conn'[t] = IF t \in {s} /\ Live(t) THEN "closing" ELSE conn[t]
  <2>1. TypeOK /\ conn' = Closing({s})
    BY <1>1, <1>2
  <2>. QED BY <2>1, ClosingMade
<1>4. Live(s) /\ owner[s] \in Entries /\ closed[owner[s]]
  BY <1>1, <1>2 DEF Places, SlotTied, TypeOK
<1>5. /\ UNCHANGED <<registry, company, closed, pool, target, idle, draining, retiring, active,
                     owner, gen, openBackends, pc, seen, entry, held, closes, from>>
      /\ conn'[s] = "closing" /\ \A t \in Slots \ {s} : conn'[t] = conn[t]
      /\ \A t \in Slots : Live(t)' <=> Live(t)
  BY <1>2, <1>3, <1>4 DEF LivesKept, entries, counts, fibers
<1>6. TypeOK'
  BY <1>1, <1>2, <1>3 DEF TypeOK, entries, counts, fibers, bounds
<1>7. (\A q \in Requests : RequestTied(q)') /\ RetainedOpen'
  BY <1>1, <1>5 DEF RequestTied, RetainedOpen
<1>8. \A t \in Slots : SlotTied(t)'
  BY <1>1, <1>2, <1>5 DEF Places, SlotTied
<1>9. \A q \in Requests : ClosesTied(q)'
  <2>1. ASSUME NEW q \in Requests PROVE ClosesTied(q)'
    <3>1. ClosesTied(q) /\ closes[q] \subseteq Slots
      BY <1>1 DEF Places, TypeOK
    <3>. QED BY <1>5, <3>1 DEF ClosesTied
  <2>. QED BY <2>1
<1>10. \A q \in Requests : HeldTied(q)'
  <2>1. ASSUME NEW q \in Requests, held[q] # NoSlot PROVE HeldTied(q)'
    <3>1. HeldTied(q) /\ held[q] \in Slots
      BY <1>1, <2>1 DEF Places, TypeOK
    <3>. QED BY <1>4, <1>5, <3>1 DEF HeldTied
  <2>. QED BY <1>5, <2>1 DEF HeldTied
<1>11. \A h \in Entries : IdleTied(h)'
  <2>1. ASSUME NEW h \in Entries, InUse(h), NEW t \in idle[h]
        PROVE  /\ Live(t)' => owner[t] = h
               /\ \A q \in Requests : held[q] # t /\ t \notin closes[q]
               /\ \A g \in Entries \ {h} : InUse(g) => t \notin idle[g]
               /\ ~closed[h] => conn'[t] = "open" /\ t \in candidates'
    <3>1. /\ Live(t) => owner[t] = h
          /\ \A q \in Requests : held[q] # t /\ t \notin closes[q]
          /\ \A g \in Entries \ {h} : InUse(g) => t \notin idle[g]
          /\ ~closed[h] => conn[t] = "open" /\ t \in candidates
          /\ t \in Slots
      BY <1>1, <2>1 DEF Places, IdleTied, TypeOK
    <3>2. ~closed[h] => t # s
      BY <1>4, <3>1
    <3>. QED BY <1>2, <1>5, <3>1, <3>2
  <2>2. \A h \in Entries : InUse(h)' <=> InUse(h)
    BY <1>5 DEF InUse
  <2>. QED BY <1>5, <2>1, <2>2 DEF IdleTied
<1>12. AdmissionsKept
  BY <1>5 DEF AdmissionsKept
<1>13. CountsHold' /\ BudgetHolds' /\ OneDrains'
  BY <1>1, <1>3, <1>5, <1>12, CountsKept, BudgetKept, DrainsKept DEF TypeOK
<1>14. \A h \in Entries : Ceiling(h)'
  <2>1. ASSUME NEW h \in Entries PROVE CeilingEased(h)
    <3>1. /\ closed'[h] = closed[h] /\ pool'[h] = pool[h] /\ draining'[h] = draining[h]
          /\ active'[h] <= active[h] /\ retiring'[h] <= retiring[h] /\ idle'[h] = idle[h]
      BY <1>1, <1>5 DEF TypeOK
    <3>. QED BY <1>5, <3>1 DEF CeilingEased, Owned, Accounted
  <2>. QED BY <1>1, <1>6, <2>1, CeilingKept
<1>15. \A q \in Requests : Waits(q)'
  BY <1>1, <1>2, <1>5 DEF Waits, Wanted
<1>. QED BY <1>6, <1>7, <1>8, <1>9, <1>10, <1>11, <1>13, <1>14, <1>15 DEF PoolInvariant, Places

(* Scopes of entries close.                                                *)
LEMMA ScopesClose ==
  ASSUME PoolInvariant, TypeOK', RetainedOpen',
         UNCHANGED <<target, pool, counts, slots, host, pc, fibers>>,
         \A e \in Entries : /\ closed[e] => closed'[e]
                            /\ InUse(e)' => InUse(e),
         doomed \subseteq doomed',
         \A s \in doomed' \ doomed : Live(s) /\ closed'[owner[s]],
         \A s \in Slots : Live(s) /\ closed'[owner[s]] /\ ~closed[owner[s]] => s \in doomed'
  PROVE  PoolInvariant'
<1>1. /\ TypeOK /\ Places /\ CountsHold /\ OneDrains /\ BudgetHolds
      /\ \A q \in Requests : RequestTied(q) /\ Waits(q)
      /\ \A h \in Entries : Ceiling(h)
  BY DEF PoolInvariant
<1>2. UNCHANGED <<target, pool, idle, draining, retiring, active, conn, owner, gen,
                  openBackends, candidates, pc, seen, entry, held, closes, from>>
  BY DEF counts, slots, host, fibers
<1>3. (\A q \in Requests : RequestTied(q)') /\ \A q \in Requests : Waits(q)'
  BY <1>1, <1>2 DEF RequestTied, Waits, Wanted
<1>4. \A t \in Slots : SlotTied(t)'
  <2>1. ASSUME NEW t \in Slots PROVE SlotTied(t)'
    <3>1. SlotTied(t) /\ (owner[t] # NoEntry => owner[t] \in Entries)
      BY <1>1 DEF Places, TypeOK
    <3>2. t \in doomed' => Live(t) /\ closed'[owner[t]]
      BY <3>1 DEF SlotTied
    <3>3. Live(t) /\ closed'[owner[t]] => conn[t] = "closing" \/ t \in doomed'
      BY <3>1 DEF SlotTied
    <3>. QED BY <1>2, <3>1, <3>2, <3>3 DEF SlotTied, Live
  <2>. QED BY <2>1
<1>5. \A q \in Requests : ClosesTied(q)'
  BY <1>1, <1>2 DEF Places, ClosesTied
<1>6. \A q \in Requests : HeldTied(q)'
  <2>1. ASSUME NEW q \in Requests, held[q] # NoSlot PROVE HeldTied(q)'
    <3>1. HeldTied(q) /\ entry[q] \in Entries
      BY <1>1, <2>1, PoolAssumption DEF Places, RequestTied, TypeOK
    <3>. QED BY <1>2, <3>1 DEF HeldTied, Live
  <2>. QED BY <1>2, <2>1 DEF HeldTied
<1>7. \A h \in Entries : IdleTied(h)'
  <2>1. ASSUME NEW h \in Entries, InUse(h)', NEW t \in idle[h]
        PROVE  /\ Live(t)' => owner[t] = h
               /\ \A q \in Requests : held[q] # t /\ t \notin closes[q]
               /\ \A g \in Entries \ {h} : InUse(g)' => t \notin idle[g]
               /\ ~closed'[h] => conn[t] = "open" /\ t \in candidates
    BY <1>1, <1>2, <2>1 DEF Places, IdleTied, Live
  <2>. QED BY <1>2, <2>1 DEF IdleTied
<1>8. AdmissionsKept /\ LivesKept
  BY <1>2 DEF AdmissionsKept, LivesKept, Live
<1>9. CountsHold' /\ BudgetHolds' /\ OneDrains'
  BY <1>1, <1>2, <1>8, CountsKept, BudgetKept, DrainsKept DEF TypeOK
<1>10. \A h \in Entries : Ceiling(h)'
  <2>1. ASSUME NEW h \in Entries, ~closed'[h] PROVE CeilingEased(h)
    <3>1. /\ closed'[h] = closed[h] /\ pool'[h] = pool[h] /\ draining'[h] = draining[h]
          /\ active'[h] <= active[h] /\ retiring'[h] <= retiring[h] /\ idle'[h] = idle[h]
      BY <1>1, <1>2, <2>1 DEF TypeOK
    <3>. QED BY <1>2, <3>1 DEF CeilingEased, Owned, Accounted, Live
  <2>. QED BY <1>1, <2>1, CeilingKept
<1>. QED BY <1>3, <1>4, <1>5, <1>6, <1>7, <1>9, <1>10 DEF PoolInvariant, Places

LEMMA ExpireKeeps ==
  ASSUME PoolInvariant, NEW c \in Companies, Expire(c)
  PROVE  PoolInvariant'
<1>1. TypeOK /\ RetainedOpen
  BY DEF PoolInvariant
<1>2. PICK e \in Entries : e = registry[c]
  BY <1>1 DEF Expire, TypeOK
<1>3. /\ \A r \in Requests : entry[r] # e
      /\ registry' = [registry EXCEPT ![c] = NoEntry]
      /\ closed' = [closed EXCEPT ![e] = TRUE] /\ doomed' = doomed \cup Owned(e)
      /\ UNCHANGED <<revision, up, company, pool, target, counts, slots, host, pc, fibers, bounds>>
  BY <1>2 DEF Expire
<1>4. closed'[e] /\ \A h \in Entries \ {e} : closed'[h] = closed[h]
  BY <1>1, <1>3 DEF TypeOK
<1>5. TypeOK'
  BY <1>1, <1>3 DEF TypeOK, counts, slots, host, fibers, bounds, Owned
<1>6. RetainedOpen'
  <2>1. ASSUME NEW d \in Companies, registry'[d] # NoEntry
        PROVE  /\ d # c /\ registry'[d] = registry[d] /\ registry[d] \in Entries \ {e}
    <3>1. d # c /\ registry'[d] = registry[d]
      BY <1>1, <1>3, <2>1 DEF TypeOK
    <3>2. company[registry[d]] = d /\ company[e] = c
      BY <1>1, <1>2, <2>1, <3>1, PoolAssumption DEF RetainedOpen
    <3>. QED BY <1>1, <2>1, <3>1, <3>2 DEF TypeOK
  <2>. QED BY <1>1, <1>3, <1>4, <2>1 DEF RetainedOpen
<1>7. \A h \in Entries : (closed[h] => closed'[h]) /\ (InUse(h)' => InUse(h))
  BY <1>3, <1>4 DEF InUse, fibers
<1>8. \A s \in doomed' \ doomed : Live(s) /\ closed'[owner[s]]
  BY <1>3, <1>4 DEF Owned
<1>9. \A s \in Slots : Live(s) /\ closed'[owner[s]] /\ ~closed[owner[s]] => s \in doomed'
  <2>1. \A s \in Slots : Live(s) => owner[s] \in Entries
    BY <1>1 DEF PoolInvariant, Places, SlotTied, TypeOK
  <2>. QED BY <1>3, <1>4, <2>1 DEF Owned
<1>. QED BY <1>3, <1>5, <1>6, <1>7, <1>8, <1>9, ScopesClose

LEMMA ShutdownKeeps ==
  ASSUME PoolInvariant, Shutdown
  PROVE  PoolInvariant'
<1>1. TypeOK
  BY DEF PoolInvariant
<1>2. /\ up' = FALSE /\ registry' = [c \in Companies |-> NoEntry]
      /\ closed' = [e \in Entries |-> closed[e] \/ \E c \in Companies : registry[c] = e]
      /\ doomed' = doomed \cup UNION {Owned(registry[c]) : c \in Retained}
      /\ UNCHANGED <<revision, company, pool, target, counts, slots, host, pc, fibers, bounds>>
  BY DEF Shutdown
<1>3. \A e \in Entries : closed'[e] <=> closed[e] \/ \E c \in Companies : registry[c] = e
  BY <1>2
<1>4. TypeOK'
  <2>1. /\ up' \in BOOLEAN /\ registry' \in [Companies -> Entries \cup {NoEntry}]
        /\ closed' \in [Entries -> BOOLEAN] /\ doomed' \subseteq Slots
    BY <1>1, <1>2 DEF TypeOK, Owned
  <2>. QED BY <1>1, <1>2, <2>1 DEF TypeOK, counts, slots, host, fibers, bounds
<1>5. RetainedOpen'
  BY <1>2 DEF RetainedOpen
<1>6. \A h \in Entries : (closed[h] => closed'[h]) /\ (InUse(h)' => InUse(h))
  BY <1>2, <1>3 DEF InUse, fibers
<1>7. \A s \in Slots : Live(s) => owner[s] \in Entries /\ owner[s] # NoEntry
  BY <1>1 DEF PoolInvariant, Places, SlotTied, TypeOK
<1>8. \A s \in doomed' \ doomed : Live(s) /\ closed'[owner[s]]
  <2>1. ASSUME NEW s \in doomed' \ doomed PROVE Live(s) /\ closed'[owner[s]]
    <3>1. PICK c \in Retained : s \in Owned(registry[c])
      BY <1>2, <2>1
    <3>. QED BY <1>3, <1>7, <3>1 DEF Owned, Retained
  <2>. QED BY <2>1
<1>9. \A s \in Slots : Live(s) /\ closed'[owner[s]] /\ ~closed[owner[s]] => s \in doomed'
  <2>1. ASSUME NEW s \in Slots, Live(s), closed'[owner[s]], ~closed[owner[s]]
        PROVE  s \in doomed'
    <3>1. PICK c \in Companies : registry[c] = owner[s]
      BY <1>3, <1>7, <2>1
    <3>2. c \in Retained /\ s \in Owned(registry[c])
      BY <1>7, <2>1, <3>1 DEF Retained, Owned
    <3>. QED BY <1>2, <3>2
  <2>. QED BY <2>1
<1>. QED BY <1>2, <1>4, <1>5, <1>6, <1>8, <1>9, ScopesClose

-----------------------------------------------------------------------------
(* Every step keeps the invariant. *)

LEMMA PoolInit == ASSUME Init PROVE PoolInvariant
<1>1. TypeOK
  BY PoolAssumption DEF Init, TypeOK
<1>2. \A q \in Requests : RequestTied(q) /\ Waits(q)
  BY DEF Init, RequestTied, Waits
<1>3. RetainedOpen
  BY DEF Init, RetainedOpen
<1>4. Places
  BY DEF Init, Places, SlotTied, ClosesTied, HeldTied, IdleTied, Live
<1>5. /\ LiveSlots = {} /\ Evicting = {} /\ Promised = {}
      /\ \A e \in Entries : AdmittedTo(e) = {} /\ EvictsFrom(e) = {}
  BY PoolAssumption DEF Init, LiveSlots, Live, Evicting, Promised, AdmittedTo, EvictsFrom
<1>6. CountsHold /\ BudgetHolds
  <2>1. /\ openBackends = 0 /\ MaxBackends \in Nat
        /\ \A e \in Entries : active[e] = 0 /\ retiring[e] = 0
    BY PoolAssumption DEF Init
  <2>2. Cardinality({}) = 0
    BY FS_EmptySet
  <2>3. CountsHold
    BY <1>5, <2>1, <2>2 DEF CountsHold
  <2>4. BudgetHolds
    BY <1>5, <2>1, <2>2 DEF BudgetHolds
  <2>. QED BY <2>3, <2>4
<1>7. OneDrains
  BY DEF Init, OneDrains
<1>8. \A e \in Entries : Ceiling(e)
  BY DEF Init, Ceiling
<1>. QED BY <1>1, <1>2, <1>3, <1>4, <1>6, <1>7, <1>8 DEF PoolInvariant

LEMMA PoolStutters == ASSUME PoolInvariant, UNCHANGED vars PROVE PoolInvariant'
<1>1. UNCHANGED <<service, registry, company, closed, pool, target, counts, slots, host, pc,
                  fibers, bounds, entries>>
  BY DEF vars, entries
<1>2. TypeOK' /\ RetainedOpen'
  BY <1>1 DEF PoolInvariant, TypeOK, RetainedOpen, service, counts, slots, host, fibers, bounds
<1>3. \A e \in Entries : (closed[e] => closed'[e]) /\ (InUse(e)' => InUse(e))
  BY <1>1 DEF InUse, fibers
<1>4. doomed' = doomed
  BY <1>1 DEF service
<1>. QED BY <1>1, <1>2, <1>3, <1>4, ScopesClose

(* A request's step.                                                       *)
LEMMA RequestStep ==
  ASSUME PoolInvariant, NEW r \in Requests,
         \/ Ask(r) \/ Arrive(r) \/ Attempt(r) \/ Resume(r)
         \/ OpenFails(r) \/ Release(r) \/ GiveUp(r)
  PROVE  PoolInvariant'
<1>1. CASE Ask(r)
  BY <1>1, AskKeeps
<1>2. CASE Arrive(r)
  BY <1>2, EnterKeeps, EnterNewKeeps, EnterRefusedKeeps, JoinQueueKeeps, QueueFullKeeps
     DEF Arrive
<1>3. CASE Attempt(r)
  BY <1>3, CompanyFullKeeps, DrainKeeps, TakeIdleKeeps, OpenWithinKeeps, EvictKeeps,
     HostFullKeeps DEF Attempt
<1>4. CASE Resume(r)
  BY <1>4, DrainedKeeps, EvictedKeeps, OpenedKeeps, OpenRefusedKeeps DEF Resume
<1>5. CASE OpenFails(r) \/ Release(r) \/ GiveUp(r)
  BY <1>5, OpenFailsKeeps, ReleaseKeeps, GiveUpKeeps
<1>. QED BY <1>1, <1>2, <1>3, <1>4, <1>5

LEMMA PoolStep == ASSUME PoolInvariant, [Next]_vars PROVE PoolInvariant'
<1>1. CASE UNCHANGED vars
  BY <1>1, PoolStutters
<1>2. ASSUME NEW s \in Slots, ConnClosed(s) \/ TeardownSlot(s) PROVE PoolInvariant'
  BY <1>2, ConnClosedKeeps, TeardownSlotKeeps
<1>3. ASSUME NEW c \in Companies, Expire(c) \/ Reconfigure(c) PROVE PoolInvariant'
  BY <1>3, ExpireKeeps, ReconfigureKeeps
<1>4. CASE Shutdown
  BY <1>4, ShutdownKeeps
<1>. QED BY <1>1, <1>2, <1>3, <1>4, RequestStep DEF Next

(* Every reachable state satisfies PoolInvariant: what fibers hold, lend,  *)
(* await and count agrees, and no request that could go on sleeps.         *)
THEOREM PoolInvariantAlways == Spec => []PoolInvariant
<1>1. Init => PoolInvariant
  BY PoolInit
<1>2. PoolInvariant /\ [Next]_vars => PoolInvariant'
  BY PoolStep
<1>. QED BY <1>1, <1>2, PTL DEF Spec

(* Every variable keeps its type, the counters stay natural numbers.       *)
THEOREM PoolTyped == Spec => []TypeOK
<1>1. PoolInvariant => TypeOK
  BY DEF PoolInvariant
<1>. QED BY <1>1, PoolInvariantAlways, PTL

-----------------------------------------------------------------------------
(* The properties the runs check. *)

(* The connections a host has open stay within                             *)
(* PATCHY_COMPANY_DB_MAX_BACKENDS, also those still closing for another's  *)
(* admission.                                                              *)
THEOREM HostBudgetAlways == Spec => []HostBudget
<1>1. PoolInvariant => HostBudget
  <2>. SUFFICES ASSUME PoolInvariant PROVE HostBudget
    OBVIOUS
  <2>1. LiveSlots \subseteq Slots /\ Promised \subseteq Requests
    BY DEF LiveSlots, Promised, Evicting
  <2>2. /\ Cardinality(LiveSlots) \in Nat /\ Cardinality(Promised) \in Nat
        /\ Cardinality(LiveSlots) + Cardinality(Promised) <= MaxBackends
    BY <2>1, SmallSets DEF PoolInvariant, BudgetHolds
  <2>3. Cardinality(LiveSlots) <= MaxBackends
    BY <2>2, PoolAssumption
  <2>. QED BY <2>3 DEF HostBudget, LiveSlots
<1>. QED BY <1>1, PoolInvariantAlways, PTL

(* One connection serves one admission: none is held twice, held while     *)
(* another closes it, or held and lent or evicted.                         *)
THEOREM LeasesExclusiveAlways == Spec => []LeasesExclusive
<1>1. PoolInvariant => LeasesExclusive
  <2>. SUFFICES ASSUME PoolInvariant, NEW r \in Requests, held[r] # NoSlot
                PROVE  /\ \A q \in Requests :
                            q # r => held[q] # held[r] /\ held[r] \notin closes[q]
                       /\ held[r] \notin candidates
                       /\ entry[r] # NoEntry => held[r] \notin idle[entry[r]]
    BY DEF LeasesExclusive
  <2>1. TypeOK /\ Places /\ held[r] \in Slots
    BY DEF PoolInvariant, TypeOK
  <2>2. \A q \in Requests : q # r => held[q] # held[r] /\ held[r] \notin closes[q]
    BY <2>1 DEF Places, HeldTied, ClosesTied
  <2>3. held[r] \notin candidates
    BY <2>1 DEF Places, SlotTied
  <2>4. entry[r] # NoEntry => held[r] \notin idle[entry[r]]
    BY <2>1 DEF Places, IdleTied, InUse, TypeOK
  <2>. QED BY <2>2, <2>3, <2>4
<1>. QED BY <1>1, PoolInvariantAlways, PTL

(* What a function takes a finite set to is no larger.                     *)
LEMMA ImageCard ==
  ASSUME NEW S, IsFiniteSet(S), NEW T, NEW f \in [S -> T], \A t \in T : \E s \in S : f[s] = t
  PROVE  IsFiniteSet(T) /\ Cardinality(T) <= Cardinality(S)
<1>1. f \in Surjection(S, T)
  BY DEF Surjection
<1>. QED BY <1>1, FS_Surjection

LEMMA UnionCard ==
  ASSUME NEW S, IsFiniteSet(S), NEW T, IsFiniteSet(T)
  PROVE  IsFiniteSet(S \cup T) /\ Cardinality(S \cup T) <= Cardinality(S) + Cardinality(T)
<1>1. /\ IsFiniteSet(S \cup T) /\ IsFiniteSet(S \cap T)
      /\ Cardinality(S \cup T) = Cardinality(S) + Cardinality(T) - Cardinality(S \cap T)
  BY FS_Union, FS_Intersection
<1>2. /\ Cardinality(S) \in Nat /\ Cardinality(T) \in Nat /\ Cardinality(S \cap T) \in Nat
  BY <1>1, FS_CardinalityType
<1>. QED BY <1>1, <1>2

(* An open entry that no fiber drains owns no more than is idle, admitted  *)
(* and being evicted: each of its connections is one of these.             *)
LEMMA OwnedCounted ==
  ASSUME PoolInvariant, NEW e \in Entries, ~closed[e], ~draining[e]
  PROVE  Cardinality(Owned(e)) <= Cardinality(idle[e]) + active[e] + retiring[e]
<1>1. /\ TypeOK /\ CountsHold /\ OneDrains /\ Ceiling(e) /\ e # NoEntry
      /\ \A q \in Requests : RequestTied(q)
  BY PoolAssumption DEF PoolInvariant
<1>. DEFINE lease == [q \in AdmittedTo(e) |-> held[q]]
            victim == [q \in EvictsFrom(e) |-> CHOOSE v \in Slots : closes[q] = {v}]
            Leased == {lease[q] : q \in AdmittedTo(e)}
            Victims == {victim[q] : q \in EvictsFrom(e)}
<1>2. /\ IsFiniteSet(idle[e]) /\ Cardinality(idle[e]) \in Nat
      /\ IsFiniteSet(AdmittedTo(e)) /\ Cardinality(AdmittedTo(e)) = active[e]
      /\ IsFiniteSet(EvictsFrom(e)) /\ Cardinality(EvictsFrom(e)) = retiring[e]
      /\ active[e] \in Nat /\ retiring[e] \in Nat
  BY <1>1, Counted DEF CountsHold, TypeOK
<1>3. IsFiniteSet(Leased) /\ Cardinality(Leased) <= active[e]
  <2>1. /\ lease \in [AdmittedTo(e) -> Leased]
        /\ \A t \in Leased : \E q \in AdmittedTo(e) : lease[q] = t
    OBVIOUS
  <2>. HIDE DEF lease, Leased
  <2>. QED BY <1>2, <2>1, ImageCard
<1>4. IsFiniteSet(Victims) /\ Cardinality(Victims) <= retiring[e]
  <2>1. /\ victim \in [EvictsFrom(e) -> Victims]
        /\ \A t \in Victims : \E q \in EvictsFrom(e) : victim[q] = t
    OBVIOUS
  <2>. HIDE DEF victim, Victims
  <2>. QED BY <1>2, <2>1, ImageCard
<1>5. Owned(e) \subseteq (idle[e] \cup Leased) \cup Victims
  <2>1. ASSUME NEW s \in Owned(e), s \notin idle[e] PROVE s \in Leased \/ s \in Victims
    <3>1. PICK q \in Requests :
            \/ held[q] = s /\ entry[q] = e
            \/ s \in closes[q] /\ from[q] = e
            \/ s \in closes[q] /\ pc[q] = "draining" /\ entry[q] = e
      BY <1>1, <2>1 DEF Ceiling, Accounted
    <3>2. s \in Slots /\ s # NoSlot
      BY PoolAssumption DEF Owned
    <3>3. CASE held[q] = s /\ entry[q] = e
      <4>1. q \in AdmittedTo(e)
        BY <1>1, <3>2, <3>3 DEF RequestTied, Admitted, AdmittedTo
      <4>2. lease[q] = s
        BY <3>3, <4>1
      <4>. QED BY <4>1, <4>2
    <3>4. CASE s \in closes[q] /\ from[q] = e
      <4>1. q \in EvictsFrom(e)
        BY <3>4 DEF EvictsFrom
      <4>2. \E v \in Slots : closes[q] = {v}
        BY <1>1, <3>4 DEF RequestTied
      <4>3. closes[q] = {victim[q]}
        BY <4>1, <4>2
      <4>4. victim[q] = s
        BY <3>4, <4>3
      <4>. QED BY <4>1, <4>4
    <3>5. CASE pc[q] = "draining" /\ entry[q] = e
      BY <1>1, <3>5 DEF OneDrains
    <3>. QED BY <3>1, <3>3, <3>4, <3>5
  <2>. QED BY <2>1
<1>. HIDE DEF lease, victim, Leased, Victims
<1>6. /\ IsFiniteSet(idle[e] \cup Leased)
      /\ Cardinality(idle[e] \cup Leased) <= Cardinality(idle[e]) + Cardinality(Leased)
  BY <1>2, <1>3, UnionCard
<1>7. /\ IsFiniteSet((idle[e] \cup Leased) \cup Victims)
      /\ Cardinality((idle[e] \cup Leased) \cup Victims)
           <= Cardinality(idle[e] \cup Leased) + Cardinality(Victims)
  BY <1>4, <1>6, UnionCard
<1>8. Cardinality(Owned(e)) <= Cardinality((idle[e] \cup Leased) \cup Victims)
  BY <1>5, <1>7, FS_Subset
<1>9. /\ Cardinality(Leased) \in Nat /\ Cardinality(Victims) \in Nat
      /\ Cardinality(idle[e] \cup Leased) \in Nat
      /\ Cardinality((idle[e] \cup Leased) \cup Victims) \in Nat
      /\ Cardinality(Owned(e)) \in Nat
  BY <1>1, <1>3, <1>4, <1>6, <1>7, Counted, FS_CardinalityType
<1>. QED BY <1>2, <1>3, <1>4, <1>6, <1>7, <1>8, <1>9

(* A company's connections are opened for one configuration and stay       *)
(* within its maximum, whatever overrides come and whoever evicts.         *)
THEOREM CompanyCeilingAlways == Spec => []CompanyCeiling
<1>1. PoolInvariant => CompanyCeiling
  <2>. SUFFICES ASSUME PoolInvariant, NEW e \in Entries, ~closed[e]
                PROVE  /\ \A s, t \in Owned(e) : gen[s] = gen[t]
                       /\ \A s \in Owned(e) : Cardinality(Owned(e)) <= gen[s]
    BY DEF CompanyCeiling
  <2>1. TypeOK /\ Ceiling(e)
    BY DEF PoolInvariant
  <2>2. CASE draining[e]
    BY <2>1, <2>2 DEF Ceiling
  <2>3. CASE ~draining[e]
    <3>1. /\ \A s \in Owned(e) : gen[s] = pool[e]
          /\ Cardinality(idle[e]) + active[e] + retiring[e] <= pool[e]
      BY <2>1, <2>3 DEF Ceiling
    <3>2. /\ Cardinality(idle[e]) \in Nat /\ active[e] \in Nat /\ retiring[e] \in Nat
          /\ pool[e] \in Nat /\ Cardinality(Owned(e)) \in Nat
      BY <2>1, Counted DEF TypeOK
    <3>3. Cardinality(Owned(e)) <= pool[e]
      BY <2>3, <3>1, <3>2, OwnedCounted
    <3>. QED BY <3>1, <3>3
  <2>. QED BY <2>2, <2>3
<1>. QED BY <1>1, PoolInvariantAlways, PTL

(* The host's and the entries' counters say exactly what is there, so no   *)
(* capacity leaks.                                                         *)
THEOREM CountsExactAlways == Spec => []CountsExact
<1>1. PoolInvariant => CountsExact
  BY Zenon DEF PoolInvariant, CountsHold, OneDrains, CountsExact, LiveSlots, Evicting,
               AdmittedTo, EvictsFrom
<1>. QED BY <1>1, PoolInvariantAlways, PTL

(* No wake-up is lost: who sleeps is blocked still, or what will wake it   *)
(* is under way.                                                           *)
THEOREM WakeDueAlways == Spec => []WakeDue
<1>1. PoolInvariant => WakeDue
  <2>. SUFFICES ASSUME PoolInvariant, NEW r \in Requests
                PROVE  /\ pc[r] = "onCompany" /\ ~Blocked(r) =>
                            \/ active[entry[r]] + retiring[entry[r]] > 0
                            \/ r \in Reserving /\ target[entry[r]] # seen[r]
                       /\ pc[r] = "onHost" =>
                            openBackends >= MaxBackends /\ candidates = {} /\ idle[entry[r]] = {}
    BY DEF WakeDue
  <2>1. TypeOK /\ RequestTied(r) /\ Waits(r)
    BY DEF PoolInvariant
  <2>2. ASSUME pc[r] = "onCompany", ~Blocked(r)
        PROVE  \/ active[entry[r]] + retiring[entry[r]] > 0
               \/ r \in Reserving /\ target[entry[r]] # seen[r]
    <3>1. /\ entry[r] \in Entries /\ Wanted(entry[r]) \in Nat
          /\ active[entry[r]] \in Nat /\ retiring[entry[r]] \in Nat
      BY <2>1, <2>2, WantedTyped DEF TypeOK
    <3>2. ~draining[entry[r]] /\ Room(r)
      BY <2>2 DEF Blocked
    <3>3. r \in Reserving => Wanted(entry[r]) >= 2
      BY <3>1, <3>2 DEF Room
    <3>4. r \in Reserving => ~(Wanted(entry[r]) < 2)
      BY <3>1, <3>3
    <3>. QED BY <2>1, <2>2, <3>2, <3>4 DEF Waits
  <2>. QED BY <2>1, <2>2 DEF Waits
<1>. QED BY <1>1, PoolInvariantAlways, PTL

(* A closed entry takes every connection with it, also one an admission    *)
(* was about to open.                                                      *)
THEOREM ClosedTakesAllAlways == Spec => []ClosedTakesAll
<1>1. PoolInvariant => ClosedTakesAll
  BY DEF PoolInvariant, Places, SlotTied, ClosedTakesAll
<1>. QED BY <1>1, PoolInvariantAlways, PTL

(* No request brings an older configuration back: an entry's target never  *)
(* goes back while anything refers to the entry.                           *)
THEOREM TargetsAdvanceAlways == Spec => TargetsAdvance
<1>1. PoolInvariant /\ [Next]_vars =>
        [\A e \in Entries : ~Fresh(e) => target'[e] >= target[e]]_vars
  <2>. SUFFICES ASSUME PoolInvariant, Next, NEW e \in Entries, ~Fresh(e)
                PROVE  target'[e] >= target[e]
    OBVIOUS
  <2>1. target \in [Entries -> Int] /\ seen \in [Requests -> Int] /\ target[e] \in Int
    BY PoolAssumption DEF PoolInvariant, TypeOK
  <2>2. CASE UNCHANGED target
    BY <2>1, <2>2
  <2>3. ASSUME NEW r \in Requests, Enter(r) PROVE target'[e] >= target[e]
    <3>1. PICK n \in Entries : n = registry[CompanyOf[r]]
      BY <2>3, PoolAssumption DEF Enter, PoolInvariant, TypeOK
    <3>2. target' = [target EXCEPT ![n] = Newest(n, seen[r])]
      BY <2>3, <3>1 DEF Enter
    <3>3. Newest(n, seen[r]) >= target[n]
      BY <2>1 DEF Newest
    <3>. QED BY <2>1, <3>2, <3>3
  <2>4. ASSUME NEW r \in Requests, EnterNew(r) PROVE target'[e] >= target[e]
    <3>1. PICK n \in Entries : Fresh(n) /\ target' = [target EXCEPT ![n] = seen[r]]
      BY <2>4 DEF EnterNew
    <3>. QED BY <2>1, <3>1
  <2>5. ASSUME NEW r \in Requests,
               \/ Ask(r) \/ EnterRefused(r) \/ JoinQueue(r) \/ QueueFull(r) \/ Attempt(r)
               \/ Resume(r) \/ OpenFails(r) \/ Release(r) \/ GiveUp(r)
        PROVE  UNCHANGED target
    BY <2>5 DEF entries, Ask, EnterRefused, JoinQueue, QueueFull, Attempt, CompanyFull, Drain,
                TakeIdle, OpenWithin, Evict, HostFull, Resume, Drained, Evicted, Opened,
                OpenRefused, OpenFails, Release, GiveUp
  <2>6. ASSUME \/ \E s \in Slots : ConnClosed(s) \/ TeardownSlot(s)
               \/ \E c \in Companies : Expire(c) \/ Reconfigure(c)
               \/ Shutdown
        PROVE  UNCHANGED target
    BY <2>6 DEF entries, ConnClosed, TeardownSlot, Expire, Reconfigure, Shutdown
  <2>. QED BY <2>2, <2>3, <2>4, <2>5, <2>6 DEF Next, Arrive
<1>. QED BY <1>1, PoolInvariantAlways, PTL DEF Spec, TargetsAdvance
=============================================================================
