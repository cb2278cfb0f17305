------------------------ MODULE ChangeKeysOnceProofs ------------------------
(***************************************************************************)
(* Theorems about ChangeKeys, for any tries, changes, lives, leases and    *)
(* skews: a change happens once in its key's life, and a try is told of    *)
(* its own change only.  Each needs the other, and both need to know what  *)
(* a key may still lead to: whose record is there, who runs under the key, *)
(* whether its mutation key's row stands, and how late a retry may start.  *)
(***************************************************************************)
EXTENDS ChangeKeysProofs

(* What the mutation key of a try's record may still lead to, or has: its  *)
(* change happened, a try runs it, or the record is there for a retry.     *)
Counts(k) ==
  \/ effects[k] > 0
  \/ \E t \in Tries : began[t] # None /\ try[t].key = k
  \/ record # None /\ record.key = k

(* A key is new until its try inserts a record, and its change is that     *)
(* record's.  A try that asks has no answer.                               *)
KeysFresh ==
  \A t \in Tries :
    try[t].pc \in Asking => /\ effects[t] = 0 /\ created[t] = None /\ t \notin kept
                            /\ try[t].answer = "none"

RecordCreated ==
  record # None =>
    /\ created[record.key] = [at |-> record.at, change |-> record.change]
    /\ record.at <= now

ResultHappened == record # None /\ record.result => effects[record.key] = 1

Claimed == {"claimed", "called", "settle", "discard"}

(* The attempt a record names goes under that record's key.                *)
AttemptTied ==
  record # None /\ try[record.attempt].pc \in Claimed
    => try[record.attempt].key = record.key

(* The try runs the change of its key, within MaxRun of its claim.         *)
RunsItsChange(t) ==
  began[t] # None =>
    /\ created[try[t].key] # None
    /\ created[try[t].key].change = try[t].change
    /\ created[try[t].key].at <= began[t]
    /\ try[t].key = t => created[t].at = began[t]
    /\ began[t] <= now /\ now <= began[t] + MaxRun

(* A second run of a mutation was claimed in the retries' window.          *)
RetriesInTime(t) ==
  began[t] # None /\ Kind(t) = "mutation" /\ (try[t].key # t \/ effects[t] > 0)
    => issued[try[t].key] > began[t] - RetryWindow

(* An action runs once, under its own key; it is given back unrun.         *)
ActsOnce(t) ==
  began[t] # None /\ Kind(t) # "mutation" => try[t].key = t /\ effects[t] = 0

DiscardsUnrun(t) ==
  try[t].pc = "discard" =>
    /\ try[t].key = t /\ effects[t] = 0 /\ began[t] = None
    /\ created[t] # None /\ created[t].change = try[t].change
    /\ Kind(t) = "action"

Runner(t) ==
  RunsItsChange(t) /\ RetriesInTime(t) /\ ActsOnce(t) /\ DiscardsUnrun(t)

(* A mutation key's row stands for its one commit, and is swept only when  *)
(* no retry can run any more.                                              *)
KeptHappened == \A k \in kept : effects[k] = 1

SweptLate ==
  \A k \in Tries :
    effects[k] > 0 /\ created[k].change.kind = "mutation" /\ k \notin kept
      => issued[k] < now + Skew - Lifetime

HappensOnce ==
  \A k \in Tries : effects[k] <= 1 /\ (effects[k] > 0 => created[k] # None)

(* Of two keys that count, one was made a life after the other; and only   *)
(* the record's may be younger than that.                                  *)
LifeApart(k, l) ==
  \/ created[k].at - created[l].at >= Lifetime
  \/ created[l].at - created[k].at >= Lifetime

CountsApart ==
  \A k, l \in Tries : k # l /\ Counts(k) /\ Counts(l) => LifeApart(k, l)

CountsSpent ==
  \A k \in Tries :
    Counts(k) => \/ record # None /\ record.key = k
                 \/ created[k].at + Lifetime <= now

(* A try told that its change happened goes under a key whose change did.  *)
AnsweredTruly(t) ==
  try[t].answer = "ok" =>
    /\ try[t].key # None
    /\ effects[try[t].key] = 1
    /\ created[try[t].key].change = try[t].change

Once ==
  /\ KeysFresh
  /\ RecordCreated /\ ResultHappened /\ AttemptTied
  /\ \A t \in Tries : Runner(t)
  /\ KeptHappened /\ SweptLate /\ HappensOnce
  /\ CountsApart /\ CountsSpent
  /\ \A t \in Tries : AnsweredTruly(t)

OnceInvariant == HoldInvariant /\ Once

-----------------------------------------------------------------------------
(* What the types say of the numbers. *)

Times ==
  /\ now \in Int /\ Lifetime \in Int /\ Lease \in Int /\ MaxRun \in Int /\ Skew \in Int
  /\ MaxRun <= Lease /\ 0 <= Skew /\ 0 <= MaxRun
  /\ effects \in [Tries -> Nat]
  /\ issued \in [Tries -> Int]
  /\ created \in [Tries -> [at : Int, change : Changes] \cup {None}]
  /\ began \in [Tries -> Int \cup {None}]
  /\ try \in [Tries -> TryType]
  /\ record # None => record \in Record /\ record.at \in Int

LEMMA TimesTyped == ASSUME TypeOK PROVE Times
<1>1. \A a, b \in Int : a..b \subseteq Int
  OBVIOUS
<1>2. /\ 0 \in Int /\ Horizon \in Int /\ -Skew \in Int /\ Horizon + Skew \in Int
      /\ now \in Int /\ Lifetime \in Int /\ Lease \in Int /\ MaxRun \in Int /\ Skew \in Int
      /\ MaxRun <= Lease /\ 0 <= Skew /\ 0 <= MaxRun
  BY TimesAssumption DEF TypeOK
<1>3. 0..Horizon \subseteq Int /\ (-Skew)..(Horizon + Skew) \subseteq Int
  BY <1>1, <1>2
<1>4. created \in [Tries -> [at : Int, change : Changes] \cup {None}]
  BY <1>3 DEF TypeOK, Creation
<1>5. issued \in [Tries -> Int] /\ began \in [Tries -> Int \cup {None}] /\ effects \in [Tries -> Nat]
  BY <1>3 DEF TypeOK
<1>6. record # None => record \in Record /\ record.at \in Int
  BY <1>3 DEF TypeOK, Record
<1> QED
  BY <1>2, <1>4, <1>5, <1>6, TypesOfTry DEF Times

-----------------------------------------------------------------------------
(* The invariant holds at first. *)

LEMMA OnceInit == Init => OnceInvariant
<1> SUFFICES ASSUME Init PROVE OnceInvariant
  OBVIOUS
<1>1. HoldInvariant
  BY HoldInit
<1>2. /\ record = None /\ kept = {}
      /\ \A t \in Tries : /\ try[t] = Idle /\ began[t] = None
                          /\ created[t] = None /\ effects[t] = 0
  BY DEF Init
<1>3. \A k \in Tries : ~Counts(k)
  BY <1>2 DEF Counts
<1>5. KeysFresh /\ RecordCreated /\ ResultHappened /\ AttemptTied
  BY <1>2 DEF KeysFresh, RecordCreated, ResultHappened, AttemptTied, Idle
<1>6. \A t \in Tries : Runner(t)
  BY <1>2 DEF Runner, RunsItsChange, RetriesInTime, ActsOnce, DiscardsUnrun, Idle
<1>7. KeptHappened /\ SweptLate /\ HappensOnce
  BY <1>2 DEF KeptHappened, SweptLate, HappensOnce
<1>8. CountsApart /\ CountsSpent
  BY <1>3 DEF CountsApart, CountsSpent
<1>9. \A t \in Tries : AnsweredTruly(t)
  BY <1>2 DEF AnsweredTruly, Idle
<1>4. Once
  BY <1>5, <1>6, <1>7, <1>8, <1>9 DEF Once
<1> QED
  BY <1>1, <1>4 DEF OnceInvariant

-----------------------------------------------------------------------------
(* Parts that a step leaves as they were. *)

(* What the clock, the keys and the counts say stays.                      *)
Quiet == UNCHANGED <<now, kept, issued, created, effects>>

(* What runs, ran before, under the same key and change.                   *)
RunsOn(s) ==
  began'[s] # None => /\ began'[s] = began[s]
                      /\ try'[s].key = try[s].key
                      /\ try'[s].change = try[s].change

LEMMA RunnerKeeps ==
  ASSUME NEW s \in Tries, Quiet, Runner(s), RunsOn(s),
         try'[s].pc = "discard" => DiscardsUnrun(s)'
  PROVE  Runner(s)'
<1>1. RunsItsChange(s)'
  BY DEF Quiet, Runner, RunsOn, RunsItsChange
<1>2. RetriesInTime(s)'
  BY DEF Quiet, Runner, RunsOn, RetriesInTime, Kind, RetryWindow
<1>3. ActsOnce(s)'
  BY DEF Quiet, Runner, RunsOn, ActsOnce, Kind
<1>4. DiscardsUnrun(s)'
  BY DEF DiscardsUnrun
<1> QED
  BY <1>1, <1>2, <1>3, <1>4 DEF Runner

(* A record that comes from nowhere, and a record that is settled, keep    *)
(* key, change and time.                                                   *)
SameRecord ==
  record' # None =>
    /\ record # None
    /\ record'.key = record.key /\ record'.change = record.change
    /\ record'.at = record.at /\ record'.attempt = record.attempt
    /\ record'.result => record.result \/ effects[record.key] = 1

LEMMA RecordKeeps ==
  ASSUME RecordCreated, ResultHappened, Quiet, SameRecord
  PROVE  RecordCreated' /\ ResultHappened'
  BY DEF RecordCreated, ResultHappened, Quiet, SameRecord

LEMMA CountsKept ==
  ASSUME Quiet, SameRecord, \A s \in Tries : RunsOn(s), NEW k \in Tries, Counts(k)'
  PROVE  Counts(k)
  BY DEF Quiet, SameRecord, RunsOn, Counts

LEMMA KeysQuiet ==
  ASSUME Quiet, KeptHappened, SweptLate, HappensOnce
  PROVE  KeptHappened' /\ SweptLate' /\ HappensOnce'
  BY DEF Quiet, KeptHappened, SweptLate, HappensOnce

(* The record stays that of the keys that count, unless its own no longer  *)
(* does or has spent its life.                                             *)
LEMMA CountsFall ==
  ASSUME UNCHANGED <<now, created>>, CountsApart, CountsSpent,
         \A k \in Tries : Counts(k)' => Counts(k),
         record' # None => record # None /\ record'.key = record.key,
         \/ record' # None
         \/ record = None
         \/ \A k \in Tries : k = record.key => ~Counts(k)'
         \/ created[record.key].at + Lifetime <= now
  PROVE  CountsApart' /\ CountsSpent'
<1>1. CountsApart'
  BY DEF CountsApart, LifeApart
<1>2. CountsSpent'
  <2> SUFFICES ASSUME NEW k \in Tries, Counts(k)'
               PROVE  \/ record' # None /\ record'.key = k
                      \/ created'[k].at + Lifetime <= now'
    BY DEF CountsSpent
  <2>1. \/ record # None /\ record.key = k
        \/ created[k].at + Lifetime <= now
    BY DEF CountsSpent
  <2> QED
    BY <2>1
<1> QED
  BY <1>1, <1>2

LEMMA CountsQuiet ==
  ASSUME Quiet, SameRecord, \A s \in Tries : RunsOn(s), CountsApart, CountsSpent,
         \/ record' # None
         \/ record = None
         \/ \A k \in Tries : k = record.key => ~Counts(k)'
         \/ created[record.key].at + Lifetime <= now
  PROVE  CountsApart' /\ CountsSpent'
<1>1. \A k \in Tries : Counts(k)' => Counts(k)
  BY CountsKept
<1>2. /\ UNCHANGED <<now, created>>
      /\ record' # None => record # None /\ record'.key = record.key
  BY DEF Quiet, SameRecord
<1> QED
  BY <1>1, <1>2, CountsFall

LEMMA CountsCreated ==
  ASSUME Once, Times, NEW k \in Tries, Counts(k)
  PROVE  created[k].at \in Int
<1>1. CASE effects[k] > 0
  BY <1>1 DEF Once, HappensOnce, Times
<1>2. CASE \E t \in Tries : began[t] # None /\ try[t].key = k
  BY <1>2 DEF Once, Runner, RunsItsChange, Times
<1>3. CASE record # None /\ record.key = k
  BY <1>3 DEF Once, RecordCreated, Times
<1> QED
  BY <1>1, <1>2, <1>3 DEF Counts

-----------------------------------------------------------------------------
(* Steps of a try that asks: nothing it counts on changes.                 *)

LEMMA AsksOnOnce ==
  ASSUME OnceInvariant, NEW t \in Tries, AsksOn(t), Quiet, AnsweredTruly(t)',
         try'[t].pc \in Asking => try'[t].answer = "none"
  PROVE  Once'
<1>0. /\ HoldInvariant /\ Once
      /\ \A s \in Tries \ {t} : try'[s] = try[s]
      /\ UNCHANGED <<began, record>> /\ began[t] = None
      /\ try[t].pc \in Asking /\ try'[t].pc \in Asking \cup {"told"}
  BY DEF OnceInvariant, HoldInvariant, KeysMinted, AsksOn
<1>1. SameRecord /\ \A s \in Tries : RunsOn(s)
  BY <1>0 DEF SameRecord, RunsOn
<1>2. KeysFresh'
  BY <1>0 DEF Once, KeysFresh, Quiet
<1>3. RecordCreated' /\ ResultHappened'
  BY <1>0, <1>1, RecordKeeps DEF Once
<1>4. AttemptTied'
  BY <1>0 DEF Once, AttemptTied, Claimed, Asking, OnceInvariant, HoldInvariant, TypeOK, Record
<1>5. \A s \in Tries : Runner(s)'
  <2> SUFFICES ASSUME NEW s \in Tries PROVE Runner(s)'
    OBVIOUS
  <2>1. try'[s].pc = "discard" => DiscardsUnrun(s)'
    BY <1>0 DEF Once, Runner, DiscardsUnrun, Quiet, Asking, Kind
  <2> QED
    BY <1>0, <1>1, <2>1, RunnerKeeps DEF Once
<1>6. KeptHappened' /\ SweptLate' /\ HappensOnce'
  BY <1>0, KeysQuiet DEF Once
<1>7. CountsApart' /\ CountsSpent'
  BY <1>0, <1>1, CountsQuiet DEF Once
<1>8. \A s \in Tries : AnsweredTruly(s)'
  BY <1>0 DEF Once, AnsweredTruly, Quiet
<1> QED
  BY <1>2, <1>3, <1>4, <1>5, <1>6, <1>7, <1>8 DEF Once

-----------------------------------------------------------------------------
(* Steps of a try that claimed: it stops running or runs on, and the       *)
(* record stays, is settled by its attempt, or is given back unrun.        *)

RecordOf(t) ==
  \/ record' # None
  \/ record = None
  \/ \A k \in Tries : k = record.key => ~Counts(k)'

Proceeds(t) ==
  /\ try[t].pc \notin Asking
  /\ try'[t].pc \notin Asking
  /\ \A s \in Tries \ {t} : try'[s] = try[s] /\ began'[s] = began[s]
  /\ RunsOn(t)
  /\ try'[t].pc \in Claimed => try[t].pc \in Claimed /\ try'[t].key = try[t].key
  /\ try'[t].pc = "discard" => DiscardsUnrun(t)'
  /\ AnsweredTruly(t)'

LEMMA ProceedsOnce ==
  ASSUME OnceInvariant, NEW t \in Tries, Proceeds(t), Quiet, SameRecord, RecordOf(t)
  PROVE  Once'
<1>0. /\ HoldInvariant /\ Once
      /\ \A s \in Tries \ {t} : try'[s] = try[s] /\ began'[s] = began[s]
      /\ try[t].pc \notin Asking /\ try'[t].pc \notin Asking
      /\ \A s \in Tries : RunsOn(s)
  BY DEF OnceInvariant, Proceeds, RunsOn
<1>2. KeysFresh'
  BY <1>0 DEF Once, KeysFresh, Quiet
<1>3. RecordCreated' /\ ResultHappened'
  BY <1>0, RecordKeeps DEF Once
<1>4. AttemptTied'
  <2> SUFFICES ASSUME record' # None, try'[record'.attempt].pc \in Claimed
               PROVE  try'[record'.attempt].key = record'.key
    BY DEF AttemptTied
  <2>1. /\ record # None /\ record'.key = record.key /\ record'.attempt = record.attempt
        /\ record.attempt \in Tries
    BY <1>0 DEF SameRecord, HoldInvariant, TypeOK, Record
  <2>2. /\ try[record.attempt].pc \in Claimed
        /\ try'[record.attempt].key = try[record.attempt].key
    BY <1>0, <2>1 DEF Proceeds
  <2> QED
    BY <1>0, <2>1, <2>2 DEF Once, AttemptTied
<1>5. \A s \in Tries : Runner(s)'
  <2> SUFFICES ASSUME NEW s \in Tries PROVE Runner(s)'
    OBVIOUS
  <2>1. try'[s].pc = "discard" => DiscardsUnrun(s)'
    BY <1>0 DEF Once, Runner, DiscardsUnrun, Quiet, Kind, Proceeds
  <2> QED
    BY <1>0, <2>1, RunnerKeeps DEF Once
<1>6. KeptHappened' /\ SweptLate' /\ HappensOnce'
  BY <1>0, KeysQuiet DEF Once
<1>7. CountsApart' /\ CountsSpent'
  BY <1>0, CountsQuiet DEF Once, RecordOf
<1>8. \A s \in Tries : AnsweredTruly(s)'
  BY <1>0 DEF Once, AnsweredTruly, Quiet, Proceeds
<1> QED
  BY <1>2, <1>3, <1>4, <1>5, <1>6, <1>7, <1>8 DEF Once

-----------------------------------------------------------------------------
(* A try that inserts the record mints a key that nothing knew.            *)

LEMMA InsertOnce ==
  ASSUME OnceInvariant, NEW t \in Tries, Insert(t), record = None \/ Expired
  PROVE  Once'
<1>0. /\ HoldInvariant /\ Once /\ Times /\ TypeOK
      /\ try[t].pc = "insert" /\ UNCHANGED <<now, kept, effects>>
      /\ \A s \in Tries \ {t} : /\ try'[s] = try[s] /\ began'[s] = began[s]
                                /\ issued'[s] = issued[s] /\ created'[s] = created[s]
  BY TimesTyped DEF OnceInvariant, HoldInvariant, Insert, Times
<1>1. /\ try'[t].pc = "claimed" /\ try'[t].key = t /\ began'[t] = now
      /\ try'[t].change = try[t].change /\ try'[t].answer = try[t].answer
      /\ created'[t] = [at |-> now, change |-> try[t].change]
      /\ record' = [change |-> try[t].change, key |-> t, attempt |-> t,
                    result |-> FALSE, until |-> now + Lease, at |-> now]
  BY <1>0 DEF Insert, Times, TryType
<1>2. record' # None /\ created'[t] # None
  <2>1. try[t].change \in Changes
    BY <1>0 DEF HoldInvariant, KeysMinted, Asking
  <2>2. now \in 0..Horizon /\ now + Lease \in -1..(Horizon + Lease) /\ FALSE \in BOOLEAN
    BY <1>0, TimesAssumption DEF TypeOK
  <2>3. record' \in Record
    BY <1>1, <2>1, <2>2 DEF Record
  <2>4. created'[t] \in Creation
    BY <1>1, <2>1, <2>2 DEF Creation
  <2> QED
    BY <2>3, <2>4, NoneAssumption
<1>3. /\ effects[t] = 0 /\ created[t] = None /\ t \notin kept /\ began[t] = None
      /\ try[t].answer = "none"
      /\ record # None => record.key # t
      /\ \A s \in Tries : try[s].key # t \/ began[s] = None
  BY <1>0 DEF Once, KeysFresh, HoldInvariant, KeysMinted, Asking
<1>4. \A k \in Tries \ {t} : Counts(k)' => Counts(k) /\ created[k].at + Lifetime <= now
  <2> SUFFICES ASSUME NEW k \in Tries \ {t}, Counts(k)'
               PROVE  Counts(k) /\ created[k].at + Lifetime <= now
    OBVIOUS
  <2>1. Counts(k)
    BY <1>0, <1>1 DEF Counts
  <2>2. \/ record # None /\ record.key = k
        \/ created[k].at + Lifetime <= now
    BY <1>0, <2>1 DEF Once, CountsSpent
  <2>3. record # None /\ record.key = k => record.at <= now - Lifetime /\ created[k].at = record.at
    BY <1>0 DEF Once, RecordCreated, Expired
  <2> QED
    BY <1>0, <2>1, <2>2, <2>3 DEF Times
<1>5. KeysFresh'
  BY <1>0, <1>1 DEF Once, KeysFresh, Asking
<1>6. RecordCreated' /\ ResultHappened' /\ AttemptTied'
  BY <1>0, <1>1 DEF RecordCreated, ResultHappened, AttemptTied, Times
<1>7. \A s \in Tries : Runner(s)'
  <2> SUFFICES ASSUME NEW s \in Tries PROVE Runner(s)'
    OBVIOUS
  <2>1. CASE s = t
    <3>1. RunsItsChange(t)'
      BY <1>0, <1>1, <1>2 DEF RunsItsChange, Times
    <3>2. RetriesInTime(t)' /\ ActsOnce(t)' /\ DiscardsUnrun(t)'
      BY <1>0, <1>1, <1>3 DEF RetriesInTime, ActsOnce, DiscardsUnrun
    <3> QED
      BY <2>1, <3>1, <3>2 DEF Runner
  <2>2. CASE s # t
    <3>0. /\ Runner(s) /\ try'[s] = try[s] /\ began'[s] = began[s] /\ s \in Tries \ {t}
          /\ created'[s] = created[s] /\ issued'[s] = issued[s]
      BY <1>0, <2>2 DEF Once
    <3>1. began[s] # None => /\ created'[try[s].key] = created[try[s].key]
                             /\ issued'[try[s].key] = issued[try[s].key]
      BY <1>0, <1>3 DEF HoldInvariant, KeysMinted, Times, TryType
    <3>2. RunsItsChange(s)'
      BY <1>0, <3>0, <3>1 DEF Runner, RunsItsChange
    <3>3. RetriesInTime(s)'
      BY <1>0, <3>0, <3>1 DEF Runner, RetriesInTime, Kind, RetryWindow
    <3>4. ActsOnce(s)' /\ DiscardsUnrun(s)'
      BY <1>0, <3>0 DEF Runner, ActsOnce, DiscardsUnrun, Kind
    <3> QED
      BY <3>2, <3>3, <3>4 DEF Runner
  <2> QED
    BY <2>1, <2>2
<1>8. KeptHappened' /\ SweptLate' /\ HappensOnce'
  <2>1. KeptHappened'
    BY <1>0 DEF Once, KeptHappened
  <2>2. SweptLate'
    BY <1>0, <1>3 DEF Once, SweptLate
  <2>3. HappensOnce'
    BY <1>0, <1>3 DEF Once, HappensOnce
  <2> QED
    BY <2>1, <2>2, <2>3
<1>9. CountsApart' /\ CountsSpent'
  <2>1. ASSUME NEW k \in Tries, NEW l \in Tries, k # l, Counts(k)', Counts(l)'
        PROVE  LifeApart(k, l)'
    <3>0. ASSUME NEW j \in Tries \ {t}, Counts(j)'
          PROVE  now - created[j].at >= Lifetime
      <4>1. created[j].at + Lifetime <= now /\ Counts(j)
        BY <1>4, <3>0
      <4>2. created[j].at \in Int
        BY <1>0, <4>1, CountsCreated
      <4> QED
        BY <1>0, <4>1, <4>2 DEF Times
    <3>1. CASE k = t
      BY <1>0, <1>1, <2>1, <3>0, <3>1 DEF LifeApart
    <3>2. CASE l = t
      BY <1>0, <1>1, <2>1, <3>0, <3>2 DEF LifeApart
    <3>3. CASE k # t /\ l # t
      BY <1>0, <1>4, <2>1, <3>3 DEF LifeApart, Once, CountsApart
    <3> QED
      BY <3>1, <3>2, <3>3
  <2>2. CountsApart'
    BY <2>1 DEF CountsApart
  <2>3. CountsSpent'
    BY <1>0, <1>1, <1>2, <1>4 DEF CountsSpent
  <2> QED
    BY <2>2, <2>3
<1>10. \A s \in Tries : AnsweredTruly(s)'
  <2> SUFFICES ASSUME NEW s \in Tries PROVE AnsweredTruly(s)'
    OBVIOUS
  <2>1. CASE s = t
    BY <1>1, <1>3, <2>1 DEF AnsweredTruly
  <2>2. CASE s # t
    <3> SUFFICES ASSUME try[s].answer = "ok" PROVE AnsweredTruly(s)'
      BY <1>0, <2>2 DEF AnsweredTruly
    <3>1. /\ try[s].key # None /\ effects[try[s].key] = 1
          /\ created[try[s].key].change = try[s].change
      BY <1>0 DEF Once, AnsweredTruly
    <3>2. try[s].key # t /\ try[s].key \in Tries
      BY <1>0, <1>3, <3>1 DEF Times, TryType
    <3> QED
      BY <1>0, <2>2, <3>1, <3>2 DEF AnsweredTruly
  <2> QED
    BY <2>1, <2>2
<1> QED
  BY <1>5, <1>6, <1>7, <1>8, <1>9, <1>10 DEF Once

-----------------------------------------------------------------------------
(* A retry goes on under the record's key, in its window.                  *)

LEMMA RetryOnce ==
  ASSUME OnceInvariant, NEW t \in Tries, Retry(t), MayRetry(t)
  PROVE  Once'
<1>0. /\ HoldInvariant /\ Once /\ Times /\ TypeOK
      /\ try[t].pc = "retry" /\ Quiet
      /\ \A s \in Tries \ {t} : try'[s] = try[s] /\ began'[s] = began[s]
  BY TimesTyped DEF OnceInvariant, HoldInvariant, Retry, Times, Quiet
<1>1. /\ record # None /\ record.key \in Tries /\ record.change = try[t].change
      /\ ~record.result /\ record.change.kind = "mutation"
      /\ issued[record.key] > now - RetryWindow
  BY <1>0 DEF MayRetry, Retryable, Times, Record
<1>2. /\ try'[t].pc = "claimed" /\ try'[t].key = record.key /\ began'[t] = now
      /\ try'[t].change = try[t].change /\ try'[t].answer = try[t].answer
  BY <1>0 DEF Retry, Times, TryType
<1>3. /\ record'.key = record.key /\ record'.change = record.change
      /\ record'.at = record.at /\ record'.result = record.result /\ record'.attempt = t
  <2>1. record' = [record EXCEPT !.attempt = t, !.until = now + Lease]
    BY DEF Retry
  <2> QED
    BY <1>0, <1>1, <2>1 DEF Times, Record
<1>4. /\ try[t].answer = "none" /\ began[t] = None /\ record.key # t
  BY <1>0, <1>1 DEF Once, KeysFresh, HoldInvariant, KeysMinted, Asking
<1>5. record' # None
  <2>1. record' = [record EXCEPT !.attempt = t, !.until = now + Lease]
    BY DEF Retry
  <2>2. now + Lease \in -1..(Horizon + Lease)
    BY <1>0, TimesAssumption DEF TypeOK
  <2>3. record' \in Record
    BY <1>0, <1>1, <2>1, <2>2 DEF Record, Times
  <2> QED
    BY <2>3, NoneAssumption
<1>6. KeysFresh'
  BY <1>0, <1>2 DEF Once, KeysFresh, Asking, Quiet
<1>7. RecordCreated' /\ ResultHappened' /\ AttemptTied'
  <2>1. RecordCreated' /\ ResultHappened'
    BY <1>0, <1>1, <1>3 DEF Once, RecordCreated, ResultHappened, Quiet
  <2>2. AttemptTied'
    BY <1>2, <1>3 DEF AttemptTied
  <2> QED
    BY <2>1, <2>2
<1>8. \A s \in Tries : Runner(s)'
  <2> SUFFICES ASSUME NEW s \in Tries PROVE Runner(s)'
    OBVIOUS
  <2>1. CASE s = t
    <3>0. /\ created[record.key] = [at |-> record.at, change |-> record.change]
          /\ record.at <= now /\ created[record.key] # None
      <4>1. created[record.key] = [at |-> record.at, change |-> record.change] /\ record.at <= now
        BY <1>0, <1>1 DEF Once, RecordCreated
      <4>2. record.at \in 0..Horizon /\ record.change \in Changes
        BY <1>0, <1>1 DEF Times, Record
      <4>3. created[record.key] \in Creation
        BY <4>1, <4>2 DEF Creation
      <4> QED
        BY <4>1, <4>3, NoneAssumption
    <3>1. RunsItsChange(t)'
      BY <1>0, <1>1, <1>2, <1>4, <3>0 DEF RunsItsChange, Times, Quiet
    <3>2. RetriesInTime(t)'
      BY <1>0, <1>1, <1>2 DEF RetriesInTime, Quiet, RetryWindow
    <3>3. ActsOnce(t)' /\ DiscardsUnrun(t)'
      BY <1>1, <1>2 DEF ActsOnce, DiscardsUnrun, Kind
    <3> QED
      BY <2>1, <3>1, <3>2, <3>3 DEF Runner
  <2>2. CASE s # t
    <3>1. RunsOn(s) /\ Runner(s)
      BY <1>0, <2>2 DEF RunsOn, Once
    <3>2. try'[s].pc = "discard" => DiscardsUnrun(s)'
      BY <1>0, <2>2, <3>1 DEF Runner, DiscardsUnrun, Quiet, Kind
    <3> QED
      BY <1>0, <3>1, <3>2, RunnerKeeps
  <2> QED
    BY <2>1, <2>2
<1>9. KeptHappened' /\ SweptLate' /\ HappensOnce'
  BY <1>0, KeysQuiet DEF Once
<1>10. CountsApart' /\ CountsSpent'
  <2>1. \A k \in Tries : Counts(k)' => Counts(k)
    BY <1>0, <1>1, <1>2, <1>3 DEF Counts, Quiet
  <2> QED
    BY <1>0, <1>1, <1>3, <1>5, <2>1, CountsFall DEF Once, Quiet
<1>11. \A s \in Tries : AnsweredTruly(s)'
  BY <1>0, <1>2, <1>4 DEF Once, AnsweredTruly, Quiet
<1> QED
  BY <1>6, <1>7, <1>8, <1>9, <1>10, <1>11 DEF Once

-----------------------------------------------------------------------------
(* A change takes effect, the first of its key.                            *)

Effects(t, k) ==
  /\ began[t] # None /\ try[t].key = k /\ effects[k] = 0
  /\ UNCHANGED <<now, record, issued, created>>
  /\ effects' = [effects EXCEPT ![k] = 1]
  /\ began' = [began EXCEPT ![t] = None]
  /\ kept \subseteq kept' /\ kept' \subseteq kept \cup {k}
  /\ Kind(t) = "mutation" => k \in kept'
  /\ \A s \in Tries \ {t} : try'[s] = try[s]
  /\ \/ try'[t] = try[t]
     \/ /\ try'[t].pc = "settle" /\ try[t].pc = "called"
        /\ try'[t].key = try[t].key /\ try'[t].change = try[t].change

LEMMA EffectsOnce ==
  ASSUME OnceInvariant, NEW t \in Tries, NEW k \in Tries, Effects(t, k)
  PROVE  Once'
<1>0. /\ HoldInvariant /\ Once /\ Times /\ TypeOK
      /\ UNCHANGED <<now, record, issued, created>>
      /\ \A s \in Tries \ {t} : try'[s] = try[s] /\ began'[s] = began[s]
      /\ try'[t].key = k /\ try'[t].change = try[t].change /\ began'[t] = None
      /\ try[t].key = k /\ began[t] # None
  BY TimesTyped DEF OnceInvariant, HoldInvariant, Effects, Times
<1>1. /\ effects[k] = 0 /\ effects'[k] = 1
      /\ \A j \in Tries \ {k} : effects'[j] = effects[j]
      /\ \A j \in Tries \ {k} : j \in kept' <=> j \in kept
  BY <1>0 DEF Effects, Times
<1>2. try[k].pc \notin Asking /\ try[t].pc \notin Asking /\ try[t].pc # "discard"
  BY <1>0 DEF HoldInvariant, KeysMinted, Once, Runner, DiscardsUnrun, Asking
<1>3. created[k] # None /\ created[k].change = try[t].change /\ created[k].at <= began[t]
  BY <1>0 DEF Once, Runner, RunsItsChange
<1>4. KeysFresh'
  BY <1>0, <1>1, <1>2 DEF Once, KeysFresh, Effects, Asking
<1>5. RecordCreated' /\ ResultHappened' /\ AttemptTied'
  <2>1. RecordCreated'
    BY <1>0 DEF Once, RecordCreated
  <2>2. ResultHappened'
    BY <1>0, <1>1 DEF Once, ResultHappened, Times, Record
  <2>3. AttemptTied'
    BY <1>0 DEF Once, AttemptTied, Times, Record, Effects, Claimed
  <2> QED
    BY <2>1, <2>2, <2>3
<1>6. \A s \in Tries : Runner(s)'
  <2> SUFFICES ASSUME NEW s \in Tries PROVE Runner(s)'
    OBVIOUS
  <2>1. CASE s = t
    BY <1>0, <1>2, <2>1 DEF Runner, RunsItsChange, RetriesInTime, ActsOnce, DiscardsUnrun, Effects
  <2>2. CASE s # t
    <3>0. Runner(s) /\ try'[s] = try[s] /\ began'[s] = began[s]
      BY <1>0, <2>2 DEF Once
    <3>1. RunsItsChange(s)'
      BY <1>0, <3>0 DEF Runner, RunsItsChange
    <3>2. RetriesInTime(s)'
      <4> SUFFICES ASSUME began[s] # None, Kind(s) = "mutation",
                          try[s].key # s \/ effects'[s] > 0
                   PROVE  issued[try[s].key] > began[s] - RetryWindow
        BY <1>0, <3>0 DEF RetriesInTime, Kind, RetryWindow
      <4>1. CASE try[s].key # s \/ effects[s] > 0
        BY <3>0, <4>1 DEF Runner, RetriesInTime
      <4>2. CASE try[s].key = s /\ s = k
        <5>1. created[s].at = began[s] /\ created[s].change = try[s].change
          BY <3>0, <4>2 DEF Runner, RunsItsChange
        <5>2. Kind(t) = "mutation"
          BY <1>3, <4>2, <5>1 DEF Kind
        <5>3. issued[k] > began[t] - RetryWindow
          BY <1>0, <2>2, <4>2, <5>2 DEF Once, Runner, RetriesInTime
        <5>4. began[s] <= began[t]
          BY <1>3, <4>2, <5>1
        <5> QED
          BY <1>0, <4>2, <5>3, <5>4 DEF Times, RetryWindow
      <4> QED
        BY <1>1, <4>1, <4>2
    <3>3. ActsOnce(s)'
      <4> SUFFICES ASSUME began[s] # None, Kind(s) # "mutation"
                   PROVE  try[s].key = s /\ effects'[s] = 0
        BY <3>0 DEF ActsOnce, Kind
      <4>1. try[s].key = s /\ effects[s] = 0 /\ created[s].change = try[s].change
        BY <3>0 DEF Runner, ActsOnce, RunsItsChange
      <4>2. s # k
        <5> SUFFICES ASSUME s = k PROVE FALSE
          OBVIOUS
        <5>1. Kind(t) # "mutation"
          BY <1>3, <4>1 DEF Kind
        <5>2. try[t].key = t
          BY <1>0, <5>1 DEF Once, Runner, ActsOnce
        <5> QED
          BY <1>0, <2>2, <5>2
      <4> QED
        BY <1>1, <4>1, <4>2
    <3>4. DiscardsUnrun(s)'
      <4> SUFFICES ASSUME try[s].pc = "discard"
                   PROVE  DiscardsUnrun(s)'
        BY <3>0 DEF DiscardsUnrun
      <4>1. DiscardsUnrun(s)
        BY <3>0 DEF Runner
      <4>2. s # k
        <5> SUFFICES ASSUME s = k PROVE FALSE
          OBVIOUS
        <5>1. Kind(t) # "mutation"
          BY <1>3, <4>1 DEF Kind, DiscardsUnrun
        <5>2. try[t].key = t
          BY <1>0, <5>1 DEF Once, Runner, ActsOnce
        <5> QED
          BY <1>0, <2>2, <5>2
      <4> QED
        BY <1>0, <1>1, <3>0, <4>1, <4>2 DEF DiscardsUnrun, Kind
    <3> QED
      BY <3>1, <3>2, <3>3, <3>4 DEF Runner
  <2> QED
    BY <2>1, <2>2
<1>7. KeptHappened' /\ SweptLate' /\ HappensOnce'
  <2>1. KeptHappened'
    BY <1>0, <1>1 DEF Once, KeptHappened, Effects, TypeOK
  <2>2. SweptLate'
    <3> SUFFICES ASSUME NEW j \in Tries, effects'[j] > 0, created[j].change.kind = "mutation",
                        j \notin kept'
                 PROVE  issued[j] < now + Skew - Lifetime
      BY <1>0 DEF SweptLate
    <3>1. j # k
      BY <1>3 DEF Effects, Kind
    <3> QED
      BY <1>0, <1>1, <3>1 DEF Once, SweptLate
  <2>3. HappensOnce'
    BY <1>0, <1>1, <1>3 DEF Once, HappensOnce
  <2> QED
    BY <2>1, <2>2, <2>3
<1>8. CountsApart' /\ CountsSpent'
  <2>1. \A j \in Tries : Counts(j)' => Counts(j)
    BY <1>0, <1>1 DEF Counts
  <2> QED
    BY <1>0, <2>1, CountsFall DEF Once
<1>9. \A s \in Tries : AnsweredTruly(s)'
  <2> SUFFICES ASSUME NEW s \in Tries PROVE AnsweredTruly(s)'
    OBVIOUS
  <2>1. CASE s = t
    BY <1>0, <1>1, <1>3, <2>1, TriesAssumption DEF AnsweredTruly
  <2>2. CASE s # t
    <3> SUFFICES ASSUME try[s].answer = "ok" PROVE AnsweredTruly(s)'
      BY <1>0, <2>2 DEF AnsweredTruly
    <3>1. /\ try[s].key # None /\ effects[try[s].key] = 1
          /\ created[try[s].key].change = try[s].change
      BY <1>0 DEF Once, AnsweredTruly
    <3>2. try[s].key # k /\ try[s].key \in Tries
      BY <1>0, <1>1, <3>1 DEF Times, TryType
    <3> QED
      BY <1>0, <1>1, <2>2, <3>1, <3>2 DEF AnsweredTruly
  <2> QED
    BY <2>1, <2>2
<1> QED
  BY <1>4, <1>5, <1>6, <1>7, <1>8, <1>9 DEF Once

-----------------------------------------------------------------------------
(* Each action makes one of these steps. *)

LEMMA ToldKeeps ==
  ASSUME TypeOK, NEW t \in Tries, NEW answer \in Answers
  PROVE  /\ Told(t, answer) \in TryType
         /\ Told(t, answer).pc = "told" /\ Told(t, answer).answer = answer
         /\ answer = "ok" \/ Live(t) => /\ Told(t, answer).key = try[t].key
                                        /\ Told(t, answer).change = try[t].change
<1>1. try[t] \in TryType /\ Idle \in TryType
  BY IdleTyped, TypesOfTry
<1>2. \A b \in TryType : /\ ToldOf(b, answer).answer = answer
                         /\ ToldOf(b, answer).change = b.change
  BY DEF ToldOf, TryType
<1>3. Told(t, answer) = ToldOf(IF answer = "ok" \/ Live(t) THEN try[t] ELSE Idle, answer)
  BY DEF Told, ToldOf
<1> QED
  BY <1>1, <1>2, <1>3, ToldFrom

LEMMA AskOnce ==
  ASSUME OnceInvariant, NEW t \in Tries, Ask(t)
  PROVE  Once'
<1>0. TypeOK /\ Times /\ KeysMinted /\ Once /\ try[t].pc = "idle"
  BY TimesTyped DEF OnceInvariant, HoldInvariant, Ask
<1>1. PICK c \in Changes : try' = [try EXCEPT ![t].pc = "insert", ![t].change = c]
  BY DEF Ask
<1>2. AsksOn(t) /\ Quiet
  BY <1>0, <1>1, TriesAssumption DEF Ask, AsksOn, Asking, Times, TryType, KeysMinted, Quiet
<1>3. try'[t].answer = try[t].answer /\ try[t].answer = "none"
  BY <1>0, <1>1 DEF Times, TryType, Once, KeysFresh, Asking
<1> QED
  BY <1>2, <1>3, AsksOnOnce DEF AnsweredTruly

(* A claim that its statement does not take asks on.                       *)
LEMMA AskAgainOnce ==
  ASSUME OnceInvariant, NEW t \in Tries,
         \/ Insert(t) /\ ~(record = None \/ Expired)
         \/ Retry(t) /\ ~MayRetry(t)
  PROVE  Once'
<1>0. TypeOK /\ Times /\ KeysMinted /\ Once /\ try[t].pc \in Asking
  BY TimesTyped DEF OnceInvariant, HoldInvariant, Insert, Retry, Asking
<1>1. \/ try' = [try EXCEPT ![t].pc = "retry"] /\ try[t].pc = "insert"
      \/ try' = [try EXCEPT ![t].pc = "read"] /\ try[t].pc = "retry"
  BY DEF Insert, Retry
<1>2. AsksOn(t) /\ Quiet
  BY <1>0, <1>1 DEF Insert, Retry, AsksOn, Asking, Times, TryType, KeysMinted, Quiet
<1>3. try'[t].answer = try[t].answer /\ try[t].answer = "none"
  BY <1>0, <1>1 DEF Times, TryType, Once, KeysFresh, Asking
<1> QED
  BY <1>2, <1>3, AsksOnOnce DEF AnsweredTruly

(* A replay answers the record's result, which is of the same change.      *)
LEMMA ReadOnce ==
  ASSUME OnceInvariant, NEW t \in Tries, Read(t)
  PROVE  Once'
<1> DEFINE v == Verdict(t)
<1>0. TypeOK /\ Times /\ KeysMinted /\ Once /\ Quiet /\ try[t].pc = "read"
      /\ UNCHANGED <<began, record>> /\ \A s \in Tries \ {t} : try'[s] = try[s]
      /\ try[t].answer = "none"
  <2>1. TypeOK /\ Times /\ KeysMinted /\ Once /\ try[t].pc = "read"
    BY TimesTyped DEF OnceInvariant, HoldInvariant, Read
  <2> QED
    BY <2>1 DEF Read, Quiet, Times, Once, KeysFresh, Asking
<1>1. \/ /\ try'[t].pc = "told" /\ v = "ok" /\ record # None
         /\ try'[t].key = record.key /\ try'[t].change = try[t].change
      \/ /\ try'[t].pc = "told" /\ try'[t].answer # "ok"
         /\ try'[t].key \in {try[t].key, None}
      \/ /\ try'[t].pc = "insert" /\ try'[t].answer = "none"
         /\ try'[t].key = try[t].key /\ try'[t].change = try[t].change
  <2>1. CASE v = "ok"
    <3>1. record # None /\ record.key \in Tries /\ v \in Answers
      BY <1>0, <2>1 DEF Verdict, Times, Record, Answers
    <3>2. try' = [try EXCEPT ![t] = [Told(t, v) EXCEPT !.key = record.key]]
      BY <2>1 DEF Read
    <3>3. try'[t] = [Told(t, v) EXCEPT !.key = record.key]
      BY <1>0, <3>2 DEF Times
    <3>4. /\ Told(t, v) \in TryType /\ Told(t, v).pc = "told"
          /\ Told(t, v).change = try[t].change
      BY <1>0, <2>1, <3>1, ToldKeeps
    <3> QED
      BY <2>1, <3>1, <3>3, <3>4 DEF TryType
  <2>2. CASE v \notin {"ok", "again"}
    <3>1. try' = [try EXCEPT ![t] = Told(t, v)] /\ v \in Answers
      BY <2>2, VerdictTyped DEF Read
    <3>2. try'[t] = Told(t, v)
      BY <1>0, <3>1 DEF Times
    <3> QED
      BY <1>0, <2>2, <3>1, <3>2, ToldKeeps, ToldTyped
  <2>3. CASE v = "again" /\ LastRound(t)
    <3>1. try' = [try EXCEPT ![t] = Told(t, "busy")] /\ "busy" \in Answers
      BY <2>3 DEF Read, Answers
    <3>2. try'[t] = Told(t, "busy")
      BY <1>0, <3>1 DEF Times
    <3> QED
      BY <1>0, <3>1, <3>2, ToldKeeps, ToldTyped
  <2>4. CASE v = "again" /\ ~LastRound(t)
    <3>1. try' = [try EXCEPT ![t].pc = "insert", ![t].round = @ + 1]
      BY <2>4 DEF Read
    <3> QED
      BY <1>0, <3>1 DEF Times, TryType
  <2> QED
    BY <2>1, <2>2, <2>3, <2>4
<1>2. v = "ok" => /\ effects[record.key] = 1 /\ record.key # None
                  /\ created[record.key].change = try[t].change
  <2> SUFFICES ASSUME v = "ok"
               PROVE  /\ effects[record.key] = 1 /\ record.key # None
                      /\ created[record.key].change = try[t].change
    OBVIOUS
  <2>1. /\ record # None /\ record.result
        /\ record.change.call = try[t].change.call
        /\ record.change.version = try[t].change.version
    BY DEF Verdict
  <2>2. /\ record.key \in Tries /\ record.change \in Changes /\ try[t].change \in Changes
    BY <1>0, <2>1 DEF Times, Record, KeysMinted, Asking
  <2>3. record.change = try[t].change
    BY <2>1, <2>2, ChangesAssumption
  <2> QED
    BY <1>0, <2>1, <2>2, <2>3, TriesAssumption DEF Once, ResultHappened, RecordCreated
<1>3. AsksOn(t)
  <2>1. try'[t].key \in Tries \cup {None}
    BY <1>0, <1>1 DEF Times, TryType, Record
  <2>2. try'[t].key # None => try[try'[t].key].pc \notin Asking
    BY <1>0, <1>1 DEF KeysMinted
  <2>3. try[t].change \in Changes
    BY <1>0 DEF KeysMinted, Asking
  <2> QED
    BY <1>0, <1>1, <2>1, <2>2, <2>3 DEF AsksOn, Asking, Quiet
<1>4. AnsweredTruly(t)'
  BY <1>0, <1>1, <1>2 DEF AnsweredTruly, Quiet
<1> QED
  BY <1>0, <1>1, <1>3, <1>4, AsksOnOnce DEF Asking

LEMMA CallOnce ==
  ASSUME OnceInvariant, NEW t \in Tries, Call(t) \/ NeverStarted(t) \/ Fail(t) \/ Lapse(t)
  PROVE  Once'
<1>0. TypeOK /\ Times /\ KeysMinted /\ Once /\ Runner(t) /\ AnsweredTruly(t)
  BY TimesTyped DEF OnceInvariant, HoldInvariant, Once
<1>1. Quiet /\ SameRecord /\ RecordOf(t)
  BY DEF Call, NeverStarted, Fail, Lapse, Quiet, SameRecord, RecordOf
<1>2. try[t].pc \notin Asking
  BY <1>0 DEF Call, NeverStarted, Fail, Lapse, Live, KeysMinted, Asking
<1>3. CASE Call(t)
  <2>1. \/ try' = [try EXCEPT ![t].pc = "settle", ![t].answer = "refused"] /\ Over(t)
        \/ try' = [try EXCEPT ![t].pc = "called"] /\ UNCHANGED began
    BY <1>3 DEF Call
  <2>2. Proceeds(t)
    BY <1>0, <1>2, <1>3, <2>1
    DEF Call, Over, Proceeds, Times, TryType, RunsOn, Claimed, Asking, AnsweredTruly
  <2> QED
    BY <1>1, <2>2, ProceedsOnce
<1>4. CASE NeverStarted(t)
  <2>1. /\ Over(t) /\ began[t] # None /\ try[t].pc = "called"
        /\ try' = [try EXCEPT ![t].answer = "refused",
                     ![t].pc = IF Kind(t) = "action" THEN "discard" ELSE "settle"]
    BY <1>4 DEF NeverStarted, Live
  <2>2. /\ try'[t].answer = "refused" /\ try'[t].key = try[t].key
        /\ try'[t].change = try[t].change /\ began'[t] = None
        /\ try'[t].pc \in {"discard", "settle"}
        /\ try'[t].pc = "discard" => Kind(t) = "action"
        /\ \A s \in Tries \ {t} : try'[s] = try[s] /\ began'[s] = began[s]
    BY <1>0, <2>1 DEF Over, Times, TryType
  <2>3. try'[t].pc = "discard" => DiscardsUnrun(t)'
    BY <1>0, <1>1, <2>1, <2>2
    DEF Runner, RunsItsChange, ActsOnce, DiscardsUnrun, Quiet, Kind
  <2>4. Proceeds(t)
    BY <1>2, <2>1, <2>2, <2>3 DEF Proceeds, RunsOn, Claimed, Asking, AnsweredTruly
  <2> QED
    BY <1>1, <2>4, ProceedsOnce
<1>5. CASE Fail(t)
  <2>1. /\ try[t].pc = "called"
        /\ \/ try' = [try EXCEPT ![t].pc = "settle", ![t].answer = "refused"] /\ Over(t)
           \/ try' = [try EXCEPT ![t].pc = "settle", ![t].answer = "unknown"] /\ UNCHANGED began
    BY <1>5 DEF Fail
  <2>2. Proceeds(t)
    BY <1>0, <1>2, <2>1
    DEF Over, Proceeds, Times, TryType, RunsOn, Claimed, Asking, AnsweredTruly
  <2> QED
    BY <1>1, <2>2, ProceedsOnce
<1>6. CASE Lapse(t)
  <2>1. try' = try /\ Over(t) /\ began[t] # None
    BY <1>6 DEF Lapse, Live
  <2>2. Proceeds(t)
    BY <1>0, <1>1, <1>2, <2>1
    DEF Over, Proceeds, Times, RunsOn, AnsweredTruly, Quiet, Runner, DiscardsUnrun
  <2> QED
    BY <1>1, <2>2, ProceedsOnce
<1> QED
  BY <1>3, <1>4, <1>5, <1>6

LEMMA CommitOnce ==
  ASSUME OnceInvariant, NEW t \in Tries, Commit(t)
  PROVE  Once'
<1> DEFINE k == try[t].key
<1>0. /\ TypeOK /\ Times /\ KeysMinted /\ Once /\ Runner(t) /\ AnsweredTruly(t)
      /\ began[t] # None /\ Kind(t) = "mutation" /\ k \in Tries /\ k # None
      /\ try[t].pc \notin Asking
  <2>1. TypeOK /\ Times /\ KeysMinted /\ Once
    BY TimesTyped DEF OnceInvariant, HoldInvariant
  <2>2. Runner(t) /\ AnsweredTruly(t) /\ began[t] # None /\ Kind(t) = "mutation"
    BY <2>1 DEF Commit, Live, Once
  <2> QED
    BY <2>1, <2>2 DEF KeysMinted, Times, TryType, Asking
<1>1. /\ UNCHANGED <<now, record, issued, created>>
      /\ began' = [began EXCEPT ![t] = None] /\ began'[t] = None
      /\ \A s \in Tries \ {t} : try'[s] = try[s] /\ began'[s] = began[s]
      /\ \/ try'[t] = try[t]
         \/ /\ try'[t].pc = "settle" /\ try[t].pc = "called"
            /\ try'[t].key = k /\ try'[t].change = try[t].change
  BY <1>0 DEF Commit, Over, Times, TryType
<1>2. created[k].change = try[t].change
  BY <1>0 DEF Runner, RunsItsChange
<1>3. CASE k \in kept
  <2>1. Quiet /\ SameRecord /\ RecordOf(t)
    BY <1>1, <1>3 DEF Commit, Quiet, SameRecord, RecordOf
  <2>2. effects[k] = 1
    BY <1>0, <1>3 DEF Once, KeptHappened
  <2>3. AnsweredTruly(t)'
    BY <1>0, <1>1, <1>2, <2>1, <2>2 DEF AnsweredTruly, Quiet
  <2>4. Proceeds(t)
    BY <1>0, <1>1, <2>1, <2>3
    DEF Proceeds, RunsOn, Claimed, Asking, Quiet, Runner, DiscardsUnrun
  <2> QED
    BY <2>1, <2>4, ProceedsOnce
<1>4. CASE k \notin kept
  <2>1. kept' = kept \cup {k} /\ effects' = [effects EXCEPT ![k] = effects[k] + 1]
    BY <1>4 DEF Commit
  <2>2. effects[k] = 0
    <3> SUFFICES ASSUME effects[k] > 0 PROVE FALSE
      BY <1>0 DEF Times
    <3>1. issued[k] > began[t] - RetryWindow
      BY <1>0 DEF Runner, RetriesInTime
    <3>2. issued[k] < now + Skew - Lifetime
      BY <1>0, <1>2, <1>4 DEF Once, SweptLate, Kind
    <3>3. now <= began[t] + MaxRun
      BY <1>0 DEF Runner, RunsItsChange
    <3> QED
      BY <1>0, <3>1, <3>2, <3>3 DEF Times, RetryWindow
  <2>3. Effects(t, k)
    BY <1>0, <1>1, <2>1, <2>2 DEF Effects
  <2> QED
    BY <1>0, <2>3, EffectsOnce
<1> QED
  BY <1>3, <1>4

LEMMA ActOnce ==
  ASSUME OnceInvariant, NEW t \in Tries, Act(t)
  PROVE  Once'
<1>0. /\ Times /\ Once /\ began[t] # None /\ Kind(t) = "action" /\ Runner(t)
  <2>1. Times /\ Once
    BY TimesTyped DEF OnceInvariant, HoldInvariant
  <2> QED
    BY <2>1 DEF Act, Live, Once
<1>1. try[t].key = t /\ effects[t] = 0
  BY <1>0 DEF Runner, ActsOnce
<1>2. /\ UNCHANGED <<now, record, issued, created, kept>>
      /\ began' = [began EXCEPT ![t] = None]
      /\ effects' = [effects EXCEPT ![t] = effects[t] + 1]
      /\ \A s \in Tries \ {t} : try'[s] = try[s]
      /\ \/ try'[t] = try[t]
         \/ /\ try'[t].pc = "settle" /\ try[t].pc = "called"
            /\ try'[t].key = try[t].key /\ try'[t].change = try[t].change
  BY <1>0, <1>1 DEF Act, Over, Times, TryType
<1>3. Effects(t, t)
  BY <1>0, <1>1, <1>2 DEF Effects
<1> QED
  BY <1>3, EffectsOnce

LEMMA SettleOnce ==
  ASSUME OnceInvariant, NEW t \in Tries, Settle(t) \/ Discard(t)
  PROVE  Once'
<1>0. /\ TypeOK /\ Times /\ Once /\ Runner(t) /\ AnsweredTruly(t)
      /\ Quiet /\ UNCHANGED began /\ try[t].pc \in {"settle", "discard"}
  <2>1. TypeOK /\ Times /\ Once
    BY TimesTyped DEF OnceInvariant, HoldInvariant
  <2> QED
    BY <2>1 DEF Settle, Discard, Quiet, Once
<1>1. /\ try'[t] = Told(t, try[t].answer) /\ try[t].answer \in Answers
      /\ \A s \in Tries \ {t} : try'[s] = try[s]
  <2>1. try' = [try EXCEPT ![t] = Told(t, try[t].answer)]
    BY DEF Settle, Discard
  <2> QED
    BY <1>0, <2>1 DEF Times, TryType
<1>2. /\ try'[t].pc = "told" /\ try'[t].answer = try[t].answer
      /\ try[t].answer = "ok" \/ began[t] # None
           => try'[t].key = try[t].key /\ try'[t].change = try[t].change
  BY <1>0, <1>1, ToldKeeps DEF Live
<1>3. Proceeds(t)
  BY <1>0, <1>1, <1>2 DEF Proceeds, Asking, RunsOn, Claimed, AnsweredTruly, Quiet
<1>4. SameRecord /\ RecordOf(t)
  <2>1. CASE UNCHANGED record
    BY <2>1 DEF SameRecord, RecordOf
  <2>2. CASE Settle(t) /\ ~UNCHANGED record
    <3>1. /\ record # None /\ record.attempt = t /\ try[t].pc = "settle"
          /\ record' = [record EXCEPT !.until = NotRunning,
               !.result = @ \/ (Kind(t) = "mutation" /\ try[t].answer = "ok")]
      BY <2>2 DEF Settle
    <3>2. /\ record'.key = record.key /\ record'.change = record.change
          /\ record'.at = record.at /\ record'.attempt = record.attempt
          /\ record'.result = (record.result \/ (Kind(t) = "mutation" /\ try[t].answer = "ok"))
      BY <1>0, <3>1 DEF Times, Record
    <3>3. try[t].key = record.key
      BY <1>0, <3>1 DEF Once, AttemptTied, Claimed
    <3>4. try[t].answer = "ok" => effects[record.key] = 1
      BY <1>0, <3>3 DEF AnsweredTruly
    <3>5. record' # None
      <4>1. NotRunning \in -1..(Horizon + Lease)
        BY TimesAssumption DEF NotRunning
      <4>2. record' \in Record
        BY <1>0, <3>1, <4>1 DEF Times, Record
      <4> QED
        BY <4>2, NoneAssumption
    <3> QED
      BY <3>1, <3>2, <3>4, <3>5 DEF SameRecord, RecordOf
  <2>3. CASE Discard(t) /\ ~UNCHANGED record
    <3>1. record # None /\ record.attempt = t /\ record' = None /\ try[t].pc = "discard"
      BY <2>3 DEF Discard
    <3>2. DiscardsUnrun(t) /\ record.key = t
      BY <1>0, <3>1 DEF Once, AttemptTied, Claimed, Runner, DiscardsUnrun
    <3>3. ASSUME NEW s \in Tries, began'[s] # None, try'[s].key = t
          PROVE  FALSE
      <4>1. s # t /\ try'[s] = try[s] /\ began'[s] = began[s]
        BY <1>0, <1>1, <3>1, <3>2, <3>3 DEF DiscardsUnrun
      <4>2. RunsItsChange(s) /\ ActsOnce(s)
        BY <1>0 DEF Once, Runner
      <4>3. Kind(s) = "action" /\ try[s].key = t
        BY <3>1, <3>2, <3>3, <4>1, <4>2 DEF RunsItsChange, DiscardsUnrun, Kind
      <4> QED
        BY <3>3, <4>1, <4>2, <4>3 DEF ActsOnce
    <3>4. effects'[t] = 0
      BY <1>0, <3>1, <3>2 DEF DiscardsUnrun, Quiet
    <3>5. ~Counts(t)'
      BY <3>1, <3>3, <3>4 DEF Counts
    <3> QED
      BY <3>1, <3>2, <3>5 DEF SameRecord, RecordOf
  <2> QED
    BY <2>1, <2>2, <2>3
<1> QED
  BY <1>0, <1>3, <1>4, ProceedsOnce

LEMMA AbandonOnce ==
  ASSUME OnceInvariant, NEW t \in Tries, Abandon(t)
  PROVE  Once'
<1>0. /\ TypeOK /\ Times /\ Once /\ Quiet /\ UNCHANGED record
      /\ try[t].pc \in Claimed
  <2>1. TypeOK /\ Times /\ Once
    BY TimesTyped DEF OnceInvariant, HoldInvariant
  <2> QED
    BY <2>1 DEF Abandon, Quiet, Claimed
<1>1. /\ try'[t] = [Told(t, "none") EXCEPT !.pc = "gone"]
      /\ \A s \in Tries \ {t} : try'[s] = try[s] /\ began'[s] = began[s]
      /\ began'[t] = None \/ (Live(t) /\ began'[t] = began[t])
  BY <1>0 DEF Abandon, Over, Times, Live
<1>2. /\ Told(t, "none") \in TryType /\ Told(t, "none").answer = "none"
      /\ Live(t) => /\ Told(t, "none").key = try[t].key
                    /\ Told(t, "none").change = try[t].change
  BY <1>0, ToldKeeps DEF Answers
<1>3. /\ try'[t].pc = "gone" /\ try'[t].answer = "none"
      /\ Live(t) => try'[t].key = try[t].key /\ try'[t].change = try[t].change
  BY <1>1, <1>2 DEF TryType
<1>4. Proceeds(t)
  BY <1>0, <1>1, <1>3 DEF Proceeds, Asking, RunsOn, Claimed, AnsweredTruly
<1>5. SameRecord /\ RecordOf(t)
  BY <1>0 DEF SameRecord, RecordOf
<1> QED
  BY <1>0, <1>4, <1>5, ProceedsOnce

-----------------------------------------------------------------------------
(* The sweeps and the clock. *)

LEMMA SweepOnce ==
  ASSUME OnceInvariant, Sweep
  PROVE  Once'
<1>0. /\ Times /\ Once /\ Quiet /\ UNCHANGED <<try, began>>
      /\ record # None /\ Expired /\ record' = None
  BY TimesTyped DEF OnceInvariant, HoldInvariant, Sweep, Quiet
<1>1. SameRecord /\ \A s \in Tries : RunsOn(s)
  BY <1>0 DEF SameRecord, RunsOn
<1>2. created[record.key].at + Lifetime <= now
  BY <1>0 DEF Once, RecordCreated, Expired, Times
<1>3. KeysFresh' /\ RecordCreated' /\ ResultHappened' /\ AttemptTied'
  BY <1>0 DEF Once, KeysFresh, RecordCreated, ResultHappened, AttemptTied, Quiet
<1>4. \A s \in Tries : Runner(s)'
  <2> SUFFICES ASSUME NEW s \in Tries PROVE Runner(s)'
    OBVIOUS
  <2>1. DiscardsUnrun(s) => DiscardsUnrun(s)'
    BY <1>0 DEF DiscardsUnrun, Quiet, Kind
  <2> QED
    BY <1>0, <1>1, <2>1, RunnerKeeps DEF Once, Runner
<1>5. KeptHappened' /\ SweptLate' /\ HappensOnce'
  BY <1>0, KeysQuiet DEF Once
<1>6. CountsApart' /\ CountsSpent'
  BY <1>0, <1>1, <1>2, CountsQuiet DEF Once
<1>7. \A s \in Tries : AnsweredTruly(s)'
  BY <1>0 DEF Once, AnsweredTruly, Quiet
<1> QED
  BY <1>3, <1>4, <1>5, <1>6, <1>7 DEF Once

(* A mutation key's row is swept when no retry may start any more, and     *)
(* none that started in time can still run.                                *)
LEMMA SweepMutationKeysOnce ==
  ASSUME OnceInvariant, SweepMutationKeys
  PROVE  Once'
<1>0. /\ Times /\ Once
      /\ UNCHANGED <<now, record, try, began, issued, created, effects>>
  BY TimesTyped DEF OnceInvariant, HoldInvariant, SweepMutationKeys
<1>1. PICK clock \in HostClock : kept' = {k \in kept : issued[k] >= clock - Lifetime}
  BY DEF SweepMutationKeys
<1>2. clock \in Int /\ clock <= now + Skew
  BY <1>0 DEF HostClock, Times
<1>3. KeysFresh' /\ RecordCreated' /\ ResultHappened' /\ AttemptTied'
  BY <1>0, <1>1 DEF Once, KeysFresh, RecordCreated, ResultHappened, AttemptTied
<1>4. \A s \in Tries : Runner(s)'
  <2> SUFFICES ASSUME NEW s \in Tries PROVE Runner(s)'
    OBVIOUS
  <2>1. Runner(s)
    BY <1>0 DEF Once
  <2>2. RunsItsChange(s)' /\ RetriesInTime(s)'
    BY <1>0, <2>1 DEF Runner, RunsItsChange, RetriesInTime, Kind, RetryWindow
  <2>3. ActsOnce(s)' /\ DiscardsUnrun(s)'
    BY <1>0, <2>1 DEF Runner, ActsOnce, DiscardsUnrun, Kind
  <2> QED
    BY <2>2, <2>3 DEF Runner
<1>5. KeptHappened' /\ HappensOnce'
  BY <1>0, <1>1 DEF Once, KeptHappened, HappensOnce
<1>6. SweptLate'
  <2> SUFFICES ASSUME NEW k \in Tries, effects[k] > 0, created[k].change.kind = "mutation",
                      k \notin kept'
               PROVE  issued[k] < now + Skew - Lifetime
    BY <1>0 DEF SweptLate
  <2>1. CASE k \in kept
    BY <1>0, <1>1, <1>2, <2>1 DEF Times
  <2>2. CASE k \notin kept
    BY <1>0, <2>2 DEF Once, SweptLate
  <2> QED
    BY <2>1, <2>2
<1>7. CountsApart' /\ CountsSpent'
  <2>1. \A k \in Tries : Counts(k)' => Counts(k)
    BY <1>0 DEF Counts
  <2> QED
    BY <1>0, <2>1, CountsFall DEF Once
<1>8. \A s \in Tries : AnsweredTruly(s)'
  BY <1>0 DEF Once, AnsweredTruly
<1> QED
  BY <1>3, <1>4, <1>5, <1>6, <1>7, <1>8 DEF Once

LEMMA TickOnce ==
  ASSUME OnceInvariant, Tick
  PROVE  Once'
<1>0. /\ Times /\ Once /\ now' = now + 1
      /\ UNCHANGED <<record, try, began, kept, issued, created, effects>>
      /\ \A s \in Tries : began[s] # None => now < began[s] + MaxRun
  BY TimesTyped DEF OnceInvariant, HoldInvariant, Tick
<1>1. KeysFresh' /\ ResultHappened' /\ AttemptTied' /\ KeptHappened' /\ HappensOnce'
  BY <1>0 DEF Once, KeysFresh, ResultHappened, AttemptTied, KeptHappened, HappensOnce
<1>2. RecordCreated'
  BY <1>0 DEF Once, RecordCreated, Times
<1>3. \A s \in Tries : Runner(s)'
  <2> SUFFICES ASSUME NEW s \in Tries PROVE Runner(s)'
    OBVIOUS
  <2>1. Runner(s)
    BY <1>0 DEF Once
  <2>2. RunsItsChange(s)'
    BY <1>0, <2>1 DEF Runner, RunsItsChange, Times
  <2>3. RetriesInTime(s)' /\ ActsOnce(s)' /\ DiscardsUnrun(s)'
    BY <1>0, <2>1 DEF Runner, RetriesInTime, ActsOnce, DiscardsUnrun, Kind, RetryWindow
  <2> QED
    BY <2>2, <2>3 DEF Runner
<1>4. SweptLate'
  BY <1>0 DEF Once, SweptLate, Times
<1>5. \A k \in Tries : Counts(k)' <=> Counts(k)
  BY <1>0 DEF Counts
<1>6. CountsApart'
  BY <1>0, <1>5 DEF Once, CountsApart, LifeApart
<1>7. CountsSpent'
  <2> SUFFICES ASSUME NEW k \in Tries, Counts(k)
               PROVE  \/ record # None /\ record.key = k
                      \/ created[k].at + Lifetime <= now + 1
    BY <1>0, <1>5 DEF CountsSpent
  <2>1. created[k].at \in Int
    BY <1>0, CountsCreated
  <2> QED
    BY <1>0, <2>1 DEF Once, CountsSpent, Times
<1>8. \A s \in Tries : AnsweredTruly(s)'
  BY <1>0 DEF Once, AnsweredTruly
<1> QED
  BY <1>1, <1>2, <1>3, <1>4, <1>6, <1>7, <1>8 DEF Once

-----------------------------------------------------------------------------
(* The theorems. *)

LEMMA OnceNext == OnceInvariant /\ Next => OnceInvariant'
<1> SUFFICES ASSUME OnceInvariant, Next PROVE OnceInvariant'
  OBVIOUS
<1>1. HoldInvariant'
  BY TypeNext, HoldsNext DEF OnceInvariant, HoldInvariant, Holds
<1>2. ASSUME NEW t \in Tries,
             Ask(t) \/ Insert(t) \/ Retry(t) \/ Read(t) \/ Call(t) \/ NeverStarted(t)
      PROVE  Once'
  BY <1>2, AskOnce, InsertOnce, RetryOnce, AskAgainOnce, ReadOnce, CallOnce
<1>3. ASSUME NEW t \in Tries,
             Commit(t) \/ Act(t) \/ Fail(t) \/ Lapse(t) \/ Settle(t) \/ Discard(t) \/ Abandon(t)
      PROVE  Once'
  BY <1>3, CommitOnce, ActOnce, CallOnce, SettleOnce, AbandonOnce
<1>4. Once'
  BY <1>2, <1>3, SweepOnce, SweepMutationKeysOnce, TickOnce DEF Next
<1> QED
  BY <1>1, <1>4 DEF OnceInvariant

(* What each record's key may still lead to, and what stands against its   *)
(* happening again, is kept by every step.                                 *)
THEOREM OnceInvariantAlways == Spec => []OnceInvariant
<1>1. OnceInvariant /\ [Next]_vars => OnceInvariant'
  <2> SUFFICES ASSUME OnceInvariant, [Next]_vars PROVE OnceInvariant'
    OBVIOUS
  <2>1. CASE Next
    BY <2>1, OnceNext
  <2>2. CASE UNCHANGED vars
    <3>1. HoldInvariant'
      BY <2>2 DEF vars, OnceInvariant, HoldInvariant, TypeOK, KeysMinted, HoldsRecord,
         OneHolder, Holding
    <3>2. UNCHANGED <<now, record, try, began, kept, issued, created, effects>>
      BY <2>2 DEF vars
    <3>3. \A s \in Tries : Runner(s) <=> Runner(s)'
      BY <3>2 DEF Runner, RunsItsChange, RetriesInTime, ActsOnce, DiscardsUnrun, Kind, RetryWindow
    <3>4. \A k \in Tries : Counts(k)' <=> Counts(k)
      BY <3>2 DEF Counts
    <3>5. CountsApart' /\ CountsSpent'
      BY <3>2, <3>4 DEF OnceInvariant, Once, CountsApart, CountsSpent, LifeApart
    <3>6. \A s \in Tries : AnsweredTruly(s)'
      BY <3>2 DEF OnceInvariant, Once, AnsweredTruly
    <3>7. KeysFresh' /\ RecordCreated' /\ ResultHappened' /\ AttemptTied'
      BY <3>2 DEF OnceInvariant, Once, KeysFresh, RecordCreated, ResultHappened, AttemptTied
    <3>8. KeptHappened' /\ SweptLate' /\ HappensOnce'
      BY <3>2 DEF OnceInvariant, Once, KeptHappened, SweptLate, HappensOnce
    <3>9. Once'
      BY <3>3, <3>5, <3>6, <3>7, <3>8 DEF OnceInvariant, Once
    <3> QED
      BY <3>1, <3>9 DEF OnceInvariant
  <2> QED
    BY <2>1, <2>2
<1> QED
  BY <1>1, OnceInit, PTL DEF Spec

(* However the agent retries, the change that its key names happens at     *)
(* most once in the key's life: the retries stop early enough, for every   *)
(* lease and skew, that none finds Runtime's row swept.                    *)
THEOREM OnceADayAlways == Spec => []OnceADay
<1>1. OnceInvariant => OnceADay
  <2> SUFFICES ASSUME OnceInvariant, NEW k \in Tries
               PROVE  /\ effects[k] <= 1
                      /\ \A l \in Tries \ {k} :
                           effects[k] > 0 /\ effects[l] > 0
                             => created[k].at - created[l].at >= Lifetime
                                \/ created[l].at - created[k].at >= Lifetime
    BY DEF OnceADay
  <2>1. effects[k] <= 1
    BY DEF OnceInvariant, Once, HappensOnce
  <2>2. ASSUME NEW l \in Tries \ {k}, effects[k] > 0, effects[l] > 0
        PROVE  LifeApart(k, l)
    BY <2>2 DEF OnceInvariant, Once, CountsApart, Counts
  <2> QED
    BY <2>1, <2>2 DEF LifeApart
<1> QED
  BY <1>1, OnceInvariantAlways, PTL

(* A try told that its change happened, by running or by a replay, is told *)
(* of its own change, and it did happen.                                   *)
THEOREM AnswersItsChangeAlways == Spec => []AnswersItsChange
<1>1. OnceInvariant => AnswersItsChange
  BY DEF OnceInvariant, Once, AnsweredTruly, AnswersItsChange
<1> QED
  BY <1>1, OnceInvariantAlways, PTL
=============================================================================
