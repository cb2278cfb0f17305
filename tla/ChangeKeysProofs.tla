-------------------------- MODULE ChangeKeysProofs --------------------------
(***************************************************************************)
(* Theorems about ChangeKeys, for any tries, changes, lives, leases and    *)
(* skews: the types, and that a change's lease is held by one try.         *)
(***************************************************************************)
EXTENDS ChangeKeys, TLAPS

Asking == {"idle", "insert", "retry", "read"}

(* A record, and whatever runs or may take effect, goes under the mutation *)
(* key of a try that asks no more: no other record will have that key.     *)
(* A try that claims knows its change.                                     *)
KeysMinted ==
  /\ record # None => try[record.key].pc \notin Asking
  /\ \A t \in Tries :
       /\ try[t].key # None => try[try[t].key].pc \notin Asking
       /\ began[t] # None => try[t].key # None
       /\ try[t].pc \in Asking => began[t] = None
       /\ try[t].pc \in Asking \ {"idle"} => try[t].change \in Changes

(* A try within its lease, before its invocation was answered.             *)
Holding(t) ==
  try[t].pc \in {"claimed", "called"} /\ began[t] # None /\ now < began[t] + Lease

(* The record it runs under, if that is still there, says so.              *)
HoldsRecord ==
  \A t \in Tries :
    Holding(t) /\ record # None /\ record.key = try[t].key
      => record.attempt = t /\ record.until = began[t] + Lease

OneHolder ==
  \A t, u \in Tries :
    t # u /\ Holding(t) /\ Holding(u) => try[t].key # try[u].key

HoldInvariant == TypeOK /\ KeysMinted /\ HoldsRecord /\ OneHolder

-----------------------------------------------------------------------------
(* What the parts of a step make. *)

TryType == [pc : Steps, change : Changes \cup {None}, round : 0..(Rounds - 1),
            key : Tries \cup {None}, answer : Answers]

LEMMA IdleTyped == Idle \in TryType
  BY TimesAssumption DEF Idle, TryType, Steps, Answers

ToldOf(b, answer) == [b EXCEPT !.pc = "told", !.round = 0, !.answer = answer]

LEMMA ToldFrom ==
  ASSUME NEW b \in TryType, NEW answer \in Answers
  PROVE  /\ ToldOf(b, answer) \in TryType
         /\ ToldOf(b, answer).pc = "told"
         /\ ToldOf(b, answer).key = b.key
<1>1. "told" \in Steps /\ 0 \in 0..(Rounds - 1)
  BY TimesAssumption DEF Steps
<1> QED
  BY <1>1 DEF TryType, ToldOf

LEMMA ToldTyped ==
  ASSUME TypeOK, NEW t \in Tries, NEW answer \in Answers
  PROVE  /\ Told(t, answer) \in TryType
         /\ Told(t, answer).pc = "told"
         /\ Told(t, answer).key \in {try[t].key, None}
         /\ Live(t) => Told(t, answer).key = try[t].key
<1>1. try[t] \in TryType
  BY DEF TypeOK, TryType
<1>2. CASE answer = "ok" \/ Live(t)
  <2>1. Told(t, answer) = ToldOf(try[t], answer)
    BY <1>2 DEF Told, ToldOf
  <2> QED
    BY <1>1, <2>1, ToldFrom
<1>3. CASE ~(answer = "ok" \/ Live(t))
  <2>1. Told(t, answer) = ToldOf(Idle, answer)
    BY <1>3 DEF Told, ToldOf
  <2>2. Idle.key = None
    BY DEF Idle
  <2> QED
    BY <1>3, <2>1, <2>2, IdleTyped, ToldFrom
<1> QED
  BY <1>2, <1>3

LEMMA HostClockTyped ==
  ASSUME now \in 0..Horizon
  PROVE  HostClock \subseteq (-Skew)..(Horizon + Skew)
  BY TimesAssumption DEF HostClock

LEMMA VerdictTyped ==
  ASSUME NEW t, Verdict(t) # "again"
  PROVE  Verdict(t) \in Answers
<1>1. \/ Verdict(t) \in {"again", "conflict", "version_changed", "busy", "used", "ok", "too_late"}
  BY DEF Verdict
<1> QED
  BY <1>1 DEF Answers

-----------------------------------------------------------------------------
(* The invariant holds at first. *)

LEMMA HoldInit == Init => HoldInvariant
<1> SUFFICES ASSUME Init PROVE HoldInvariant
  OBVIOUS
<1>1. TypeOK
  BY TimesAssumption DEF Init, TypeOK, Idle, Steps, Answers
<1>2. KeysMinted
  BY DEF Init, KeysMinted, Idle
<1>3. HoldsRecord /\ OneHolder
  BY DEF Init, HoldsRecord, OneHolder, Holding
<1> QED
  BY <1>1, <1>2, <1>3 DEF HoldInvariant
-----------------------------------------------------------------------------
(* Every step keeps the types. *)

LEMMA TypesOfTry ==
  ASSUME TypeOK
  PROVE  try \in [Tries -> TryType]
  BY DEF TypeOK, TryType

LEMMA TypeNext == TypeOK /\ KeysMinted /\ Next => TypeOK'
<1> SUFFICES ASSUME TypeOK, KeysMinted, Next PROVE TypeOK'
  OBVIOUS
<1> USE TimesAssumption, TriesAssumption
<1>0. try \in [Tries -> TryType]
  BY TypesOfTry
<1>1. ASSUME NEW t \in Tries, Ask(t) PROVE TypeOK'
  <2>1. PICK c \in Changes : try' = [try EXCEPT ![t].pc = "insert", ![t].change = c]
    BY <1>1 DEF Ask
  <2>0. [try[t] EXCEPT !.pc = "insert", !.change = c] \in TryType
    BY <1>0 DEF TryType, Steps
  <2>2. try' = [try EXCEPT ![t] = [try[t] EXCEPT !.pc = "insert", !.change = c]]
    BY <2>1
  <2>3. try' \in [Tries -> TryType]
    BY <1>0, <2>0, <2>2
  <2> QED
    BY <1>1, <2>3 DEF TypeOK, Ask, TryType
<1>2. ASSUME NEW t \in Tries, Insert(t) PROVE TypeOK'
  <2>1. CASE record = None \/ Expired
    <3>1. /\ try[t].change \in Changes
          /\ now \in 0..Horizon /\ now + Lease \in -1..(Horizon + Lease)
      BY <1>0, <1>2 DEF TypeOK, KeysMinted, Asking, TryType, Insert
    <3>2. record' = [change |-> try[t].change, key |-> t, attempt |-> t,
                     result |-> FALSE, until |-> now + Lease, at |-> now]
      BY <1>2, <2>1 DEF Insert
    <3>3. record' \in Record
      <4>1. now + Lease \in -1..(Horizon + Lease) /\ FALSE \in BOOLEAN
        BY <3>1
      <4> HIDE TimesAssumption
      <4> QED
        BY <3>1, <3>2, <4>1, SMTT(30) DEF Record
    <3>4. issued' \in [Tries -> (-Skew)..(Horizon + Skew)]
      BY <1>2, <2>1, HostClockTyped DEF TypeOK, Insert
    <3>5. try' \in [Tries -> TryType] /\ began' \in [Tries -> 0..Horizon \cup {None}]
      BY <1>0, <1>2, <2>1, <3>1 DEF TypeOK, Insert, TryType, Steps
    <3>6. created' \in [Tries -> Creation \cup {None}]
      BY <1>2, <2>1, <3>1 DEF TypeOK, Creation, Insert
    <3> QED
      BY <1>2, <3>3, <3>4, <3>5, <3>6 DEF TypeOK, Insert, TryType
  <2>2. CASE ~(record = None \/ Expired)
    BY <1>0, <1>2, <2>2 DEF TypeOK, Insert, TryType, Steps
  <2> QED
    BY <2>1, <2>2
<1>3. ASSUME NEW t \in Tries, Retry(t) PROVE TypeOK'
  <2>1. CASE MayRetry(t)
    <3>1. record \in Record /\ now \in 0..Horizon
      BY <2>1 DEF TypeOK, MayRetry
    <3>2. record' = [record EXCEPT !.attempt = t, !.until = now + Lease]
      BY <1>3, <2>1 DEF Retry
    <3>3. record' \in Record
      <4>1. now + Lease \in -1..(Horizon + Lease)
        BY <3>1
      <4> QED
        BY <3>1, <3>2, <4>1 DEF Record
    <3>4. record.key \in Tries
      BY <3>1 DEF Record
    <3>5. try' \in [Tries -> TryType] /\ began' \in [Tries -> 0..Horizon \cup {None}]
      BY <1>0, <1>3, <2>1, <3>1, <3>4 DEF TypeOK, Retry, TryType, Steps
    <3> QED
      BY <1>3, <3>3, <3>5 DEF TypeOK, Retry, TryType
  <2>2. CASE ~MayRetry(t)
    BY <1>0, <1>3, <2>2 DEF TypeOK, Retry, TryType, Steps
  <2> QED
    BY <2>1, <2>2
<1>4. ASSUME NEW t \in Tries, Read(t) PROVE TypeOK'
  <2> DEFINE v == Verdict(t)
  <2>1. CASE v = "ok"
    <3>0. record # None
      BY <2>1 DEF Verdict
    <3>1. record.key \in Tries /\ v \in Answers
      BY <2>1, <3>0 DEF TypeOK, Record, Answers
    <3>2. [Told(t, v) EXCEPT !.key = record.key] \in TryType
      BY <3>1, ToldTyped DEF TryType
    <3>3. try' = [try EXCEPT ![t] = [Told(t, v) EXCEPT !.key = record.key]]
      BY <1>4, <2>1 DEF Read
    <3> QED
      BY <1>0, <1>4, <3>2, <3>3 DEF TypeOK, Read, TryType
  <2>2. CASE v \notin {"ok", "again"}
    <3>1. try' = [try EXCEPT ![t] = Told(t, v)]
      BY <1>4, <2>2 DEF Read
    <3>2. Told(t, v) \in TryType
      BY <2>2, VerdictTyped, ToldTyped
    <3> QED
      BY <1>0, <1>4, <3>1, <3>2 DEF TypeOK, Read, TryType
  <2>3. CASE v = "again" /\ LastRound(t)
    <3>1. try' = [try EXCEPT ![t] = Told(t, "busy")]
      BY <1>4, <2>3 DEF Read
    <3>2. Told(t, "busy") \in TryType
      BY ToldTyped DEF Answers
    <3> QED
      BY <1>0, <1>4, <3>1, <3>2 DEF TypeOK, Read, TryType
  <2>4. CASE v = "again" /\ ~LastRound(t)
    <3>1. try' = [try EXCEPT ![t].pc = "insert", ![t].round = @ + 1]
      BY <1>4, <2>4 DEF Read
    <3>2. try[t].round + 1 \in 0..Rounds
      BY <1>0, <2>4 DEF TryType, LastRound
    <3> QED
      BY <1>0, <1>4, <3>1, <3>2 DEF TypeOK, Read, TryType, Steps
  <2> QED
    BY <2>1, <2>2, <2>3, <2>4
<1>5. ASSUME NEW t \in Tries, Call(t) PROVE TypeOK'
  <2>1. \/ try' = [try EXCEPT ![t].pc = "settle", ![t].answer = "refused"] /\ Over(t)
        \/ try' = [try EXCEPT ![t].pc = "called"] /\ UNCHANGED began
    BY <1>5 DEF Call
  <2> QED
    BY <1>0, <1>5, <2>1 DEF TypeOK, Call, Over, TryType, Steps, Answers
<1>6. ASSUME NEW t \in Tries, NeverStarted(t) PROVE TypeOK'
  BY <1>0, <1>6 DEF TypeOK, NeverStarted, Over, TryType, Steps, Answers
<1>7. ASSUME NEW t \in Tries, Commit(t) PROVE TypeOK'
  <2>1. try[t].key \in Tries
    BY <1>0, <1>7 DEF KeysMinted, Commit, Live, TryType
  <2>2. try' \in [Tries -> TryType]
    <3>1. \/ try' = try
          \/ try' = [try EXCEPT ![t].pc = "settle", ![t].answer = "ok"]
      BY <1>7 DEF Commit
    <3> QED
      BY <1>0, <3>1 DEF TryType, Steps, Answers
  <2>3. kept' \subseteq Tries /\ effects' \in [Tries -> Nat]
    BY <1>7, <2>1 DEF TypeOK, Commit
  <2> QED
    BY <1>7, <2>2, <2>3 DEF TypeOK, Commit, Over, TryType
<1>8. ASSUME NEW t \in Tries, Act(t) PROVE TypeOK'
  <2>1. try' \in [Tries -> TryType]
    <3>1. \/ try' = try
          \/ try' = [try EXCEPT ![t].pc = "settle", ![t].answer = "ok"]
      BY <1>8 DEF Act
    <3> QED
      BY <1>0, <3>1 DEF TryType, Steps, Answers
  <2>2. effects' \in [Tries -> Nat]
    <3>1. try[t].key \in Tries
      BY <1>0, <1>8 DEF KeysMinted, Act, Live, TryType
    <3> QED
      BY <1>8, <3>1 DEF TypeOK, Act
  <2> QED
    BY <1>8, <2>1, <2>2 DEF TypeOK, Act, Over, TryType
<1>9. ASSUME NEW t \in Tries, Fail(t) PROVE TypeOK'
  BY <1>0, <1>9 DEF TypeOK, Fail, Over, TryType, Steps, Answers
<1>10. ASSUME NEW t \in Tries, Lapse(t) PROVE TypeOK'
  BY <1>10 DEF TypeOK, Lapse, Over
<1>11. ASSUME NEW t \in Tries, Settle(t) PROVE TypeOK'
  <2>1. Told(t, try[t].answer) \in TryType
    BY <1>0, ToldTyped DEF TryType
  <2>2. try' = [try EXCEPT ![t] = Told(t, try[t].answer)]
    BY <1>11 DEF Settle
  <2>3. record' \in Record \cup {None}
    <3>1. CASE UNCHANGED record
      BY <3>1 DEF TypeOK
    <3>2. CASE ~UNCHANGED record
      <4>1. /\ record # None
            /\ record' = [record EXCEPT !.until = NotRunning,
                 !.result = @ \/ (Kind(t) = "mutation" /\ try[t].answer = "ok")]
        BY <1>11, <3>2 DEF Settle
      <4>2. record \in Record /\ -1 \in -1..(Horizon + Lease)
        BY <4>1 DEF TypeOK
      <4> QED
        BY <4>1, <4>2 DEF Record, NotRunning
    <3> QED
      BY <3>1, <3>2
  <2> QED
    BY <1>0, <1>11, <2>1, <2>2, <2>3 DEF TypeOK, Settle, TryType
<1>12. ASSUME NEW t \in Tries, Discard(t) PROVE TypeOK'
  <2>1. Told(t, try[t].answer) \in TryType
    BY <1>0, ToldTyped DEF TryType
  <2>2. try' = [try EXCEPT ![t] = Told(t, try[t].answer)]
    BY <1>12 DEF Discard
  <2> QED
    BY <1>0, <1>12, <2>1, <2>2 DEF TypeOK, Discard, TryType
<1>13. ASSUME NEW t \in Tries, Abandon(t) PROVE TypeOK'
  <2>1. [Told(t, "none") EXCEPT !.pc = "gone"] \in TryType
    BY ToldTyped DEF TryType, Steps, Answers
  <2>2. began' \in [Tries -> 0..Horizon \cup {None}]
    BY <1>13 DEF TypeOK, Abandon, Over
  <2> QED
    BY <1>0, <1>13, <2>1, <2>2 DEF TypeOK, Abandon, TryType
<1>14. CASE Sweep
  BY <1>14 DEF TypeOK, Sweep
<1>15. CASE SweepMutationKeys
  BY <1>15 DEF TypeOK, SweepMutationKeys
<1>16. CASE Tick
  BY <1>16 DEF TypeOK, Tick
<1> QED
  BY <1>1, <1>2, <1>3, <1>4, <1>5, <1>6, <1>7, <1>8, <1>9, <1>10, <1>11, <1>12, <1>13,
     <1>14, <1>15, <1>16 DEF Next
-----------------------------------------------------------------------------
(* Steps of a try that asks, or that goes on from where it claimed, keep   *)
(* the minted keys and the holds.                                          *)

Holds == KeysMinted /\ HoldsRecord /\ OneHolder

KeysTyped == /\ record # None => record.key \in Tries
             /\ \A s \in Tries : try[s].key \in Tries \cup {None}

LEMMA KeysTypes == ASSUME TypeOK PROVE KeysTyped
  BY DEF TypeOK, KeysTyped, Record

(* The try asks on, or is told an answer that it did not run for.          *)
AsksOn(t) ==
  /\ try[t].pc \in Asking
  /\ UNCHANGED <<now, record, began>>
  /\ \A s \in Tries \ {t} : try'[s] = try[s]
  /\ try'[t].pc \in Asking \cup {"told"}
  /\ try'[t].pc \in Asking \ {"idle"} => try'[t].change \in Changes
  /\ try'[t].key \in Tries \cup {None}
  /\ try'[t].key # None => try[try'[t].key].pc \notin Asking

LEMMA AsksOnKeeps ==
  ASSUME TypeOK, Holds, NEW t \in Tries, AsksOn(t)
  PROVE  Holds'
<1>1. \A s \in Tries : Holding(s)' => s # t /\ Holding(s)
  BY DEF Holds, KeysMinted, AsksOn, Holding, Asking
<1>0. KeysTyped
  BY KeysTypes
<1>2. KeysMinted'
  <2>1. record' # None => try'[record'.key].pc \notin Asking
    BY <1>0 DEF KeysTyped, Holds, KeysMinted, AsksOn
  <2>2. ASSUME NEW s \in Tries
        PROVE  /\ try'[s].key # None => try'[try'[s].key].pc \notin Asking
               /\ began'[s] # None => try'[s].key # None
               /\ try'[s].pc \in Asking => began'[s] = None
               /\ try'[s].pc \in Asking \ {"idle"} => try'[s].change \in Changes
    <3>1. CASE s = t
      BY <1>0, <3>1 DEF KeysTyped, Holds, KeysMinted, AsksOn, Asking
    <3>2. CASE s # t
      BY <1>0, <3>2 DEF KeysTyped, Holds, KeysMinted, AsksOn
    <3> QED
      BY <3>1, <3>2
  <2> QED
    BY <2>1, <2>2 DEF KeysMinted
<1>3. HoldsRecord'
  BY <1>1 DEF Holds, HoldsRecord, AsksOn
<1>4. OneHolder'
  BY <1>1 DEF Holds, OneHolder, AsksOn
<1> QED
  BY <1>2, <1>3, <1>4 DEF Holds

(* The try goes on under what it claimed, lets go of it, or ends; the      *)
(* record stays, goes, or is settled by the attempt that holds it.         *)
GoesOn(t) ==
  /\ try[t].pc \notin Asking
  /\ UNCHANGED now
  /\ \A s \in Tries \ {t} : try'[s] = try[s] /\ began'[s] = began[s]
  /\ began'[t] \in {began[t], None}
  /\ try'[t].key \in {try[t].key, None}
  /\ began'[t] # None => try'[t].key = try[t].key
  /\ try'[t].pc \notin Asking \cup {"claimed"}
  /\ try'[t].pc = "called" => try[t].pc \in {"claimed", "called"}
  /\ \/ record' = record
     \/ record' = None
     \/ /\ record # None /\ record'.key = record.key
        /\ record.attempt = t /\ try'[t].pc # "called"

LEMMA GoesOnKeeps ==
  ASSUME TypeOK, Holds, NEW t \in Tries, GoesOn(t)
  PROVE  Holds'
<1>1. ASSUME NEW s \in Tries, Holding(s)'
      PROVE  Holding(s) /\ try'[s].key = try[s].key /\ began'[s] = began[s]
  BY <1>1 DEF GoesOn, Holding, Asking
<1>0. KeysTyped
  BY KeysTypes
<1>2. KeysMinted'
  <2>1. record' # None => try'[record'.key].pc \notin Asking
    BY <1>0 DEF KeysTyped, Holds, KeysMinted, GoesOn
  <2>2. ASSUME NEW s \in Tries
        PROVE  /\ try'[s].key # None => try'[try'[s].key].pc \notin Asking
               /\ began'[s] # None => try'[s].key # None
               /\ try'[s].pc \in Asking => began'[s] = None
               /\ try'[s].pc \in Asking \ {"idle"} => try'[s].change \in Changes
    <3>1. CASE s = t
      BY <1>0, <3>1 DEF KeysTyped, Holds, KeysMinted, GoesOn
    <3>2. CASE s # t
      BY <1>0, <3>2 DEF KeysTyped, Holds, KeysMinted, GoesOn
    <3> QED
      BY <3>1, <3>2
  <2> QED
    BY <2>1, <2>2 DEF KeysMinted
<1>3. HoldsRecord'
  <2> SUFFICES ASSUME NEW s \in Tries, Holding(s)', record' # None, record'.key = try'[s].key
               PROVE  record'.attempt = s /\ record'.until = began'[s] + Lease
    BY DEF HoldsRecord
  <2>1. Holding(s) /\ try'[s].key = try[s].key /\ began'[s] = began[s]
    BY <1>1
  <2>2. record # None /\ record'.key = record.key
    BY DEF GoesOn
  <2>3. record.attempt = s /\ record.until = began[s] + Lease
    BY <2>1, <2>2 DEF Holds, HoldsRecord
  <2>4. record' = record
    BY <2>3 DEF GoesOn, Holding
  <2> QED
    BY <2>1, <2>3, <2>4
<1>4. OneHolder'
  BY <1>1 DEF Holds, OneHolder
<1> QED
  BY <1>2, <1>3, <1>4 DEF Holds
-----------------------------------------------------------------------------
(* Every step keeps the holds.  A record is made, or taken up by a retry,  *)
(* only when no try holds one under its key.                               *)

(* The try claims: from now on it holds the record, under the given key.   *)
Claims(t, key) ==
  /\ try[t].pc \in Asking
  /\ UNCHANGED now
  /\ \A s \in Tries \ {t} : try'[s] = try[s] /\ began'[s] = began[s]
  /\ try'[t].pc = "claimed" /\ try'[t].key = key /\ began'[t] = now
  /\ record'.key = key /\ record'.attempt = t /\ record'.until = now + Lease
  /\ key = t \/ try[key].pc \notin Asking
  /\ \A s \in Tries \ {t} : Holding(s) => try[s].key # key

LEMMA ClaimsKeeps ==
  ASSUME TypeOK, Holds, NEW t \in Tries, NEW key \in Tries, Claims(t, key)
  PROVE  Holds'
<1>0. KeysTyped /\ key # None
  BY KeysTypes, TriesAssumption
<1>1. ASSUME NEW s \in Tries \ {t}
      PROVE  (Holding(s)' <=> Holding(s)) /\ try'[s].key = try[s].key
  BY DEF Claims, Holding
<1>2. KeysMinted'
  <2>1. try'[key].pc \notin Asking
    BY DEF Claims, Asking
  <2>2. ASSUME NEW s \in Tries
        PROVE  /\ try'[s].key # None => try'[try'[s].key].pc \notin Asking
               /\ began'[s] # None => try'[s].key # None
               /\ try'[s].pc \in Asking => began'[s] = None
               /\ try'[s].pc \in Asking \ {"idle"} => try'[s].change \in Changes
    <3>1. CASE s = t
      BY <1>0, <2>1, <3>1 DEF Claims, Asking
    <3>2. CASE s # t
      BY <1>0, <3>2 DEF KeysTyped, Holds, KeysMinted, Claims, Asking
    <3> QED
      BY <3>1, <3>2
  <2> QED
    BY <2>1, <2>2 DEF KeysMinted, Claims
<1>3. HoldsRecord'
  BY <1>1 DEF HoldsRecord, Claims
<1>4. OneHolder'
  BY <1>1 DEF Holds, OneHolder, Claims
<1> QED
  BY <1>2, <1>3, <1>4 DEF Holds

LEMMA InsertKeeps ==
  ASSUME TypeOK, Holds, NEW t \in Tries, Insert(t)
  PROVE  Holds'
<1>0. try \in [Tries -> TryType] /\ began \in [Tries -> 0..Horizon \cup {None}]
  BY TypesOfTry DEF TypeOK
<1>1. CASE record = None \/ Expired
  <2>1. \A s \in Tries \ {t} : Holding(s) => try[s].key # t
    BY TriesAssumption DEF Holds, KeysMinted, Holding, Asking, Insert
  <2>2. Claims(t, t)
    BY <1>0, <1>1, <2>1 DEF Insert, Claims, Asking, TryType
  <2> QED
    BY <2>2, ClaimsKeeps
<1>2. CASE ~(record = None \/ Expired)
  <2>1. AsksOn(t)
    BY <1>0, <1>2 DEF Insert, AsksOn, Asking, TryType, Holds, KeysMinted
  <2> QED
    BY <2>1, AsksOnKeeps
<1> QED
  BY <1>1, <1>2

LEMMA RetryKeeps ==
  ASSUME TypeOK, Holds, NEW t \in Tries, Retry(t)
  PROVE  Holds'
<1>0. try \in [Tries -> TryType] /\ began \in [Tries -> 0..Horizon \cup {None}]
  BY TypesOfTry DEF TypeOK
<1>1. CASE MayRetry(t)
  <2>1. record # None /\ record \in Record /\ record.key \in Tries /\ ~(record.until > now)
    BY <1>1 DEF TypeOK, MayRetry, Record, Running
  <2>2. \A s \in Tries : Holding(s) => try[s].key # record.key
    BY <2>1, TimesAssumption DEF Holds, HoldsRecord, Holding, TypeOK
  <2>3. record' = [record EXCEPT !.attempt = t, !.until = now + Lease]
    BY <1>1 DEF Retry
  <2>4. /\ record'.key = record.key /\ record'.attempt = t
        /\ record'.until = now + Lease
    BY <2>1, <2>3 DEF Record
  <2>5. try[record.key].pc \notin Asking
    BY <2>1 DEF Holds, KeysMinted
  <2>6. Claims(t, record.key)
    BY <1>0, <1>1, <2>2, <2>4, <2>5 DEF Retry, Claims, Asking, TryType
  <2> QED
    BY <2>1, <2>6, ClaimsKeeps
<1>2. CASE ~MayRetry(t)
  <2>1. AsksOn(t)
    BY <1>0, <1>2 DEF Retry, AsksOn, Asking, TryType, Holds, KeysMinted
  <2> QED
    BY <2>1, AsksOnKeeps
<1> QED
  BY <1>1, <1>2

LEMMA ReadKeeps ==
  ASSUME TypeOK, Holds, NEW t \in Tries, Read(t)
  PROVE  Holds'
<1> DEFINE v == Verdict(t)
<1>0. /\ try \in [Tries -> TryType] /\ try[t].pc = "read"
      /\ UNCHANGED <<now, record, began>>
      /\ \A s \in Tries \ {t} : try'[s] = try[s]
  <2>1. try \in [Tries -> TryType]
    BY TypesOfTry
  <2> QED
    BY <2>1 DEF Read
<1>1. /\ try'[t].pc \in {"insert", "told"} /\ (try'[t].pc = "insert" => try'[t].change = try[t].change)
      /\ \/ try'[t].key \in {try[t].key, None}
         \/ record # None /\ try'[t].key = record.key
  <2>1. CASE v = "ok"
    <3>0. record # None
      BY <2>1 DEF Verdict
    <3>1. record.key \in Tries /\ v \in Answers
      BY <2>1, <3>0 DEF TypeOK, Record, Answers
    <3>2. Told(t, v) \in TryType /\ Told(t, v).pc = "told"
      BY <3>1, ToldTyped
    <3>3. try'[t] = [Told(t, v) EXCEPT !.key = record.key]
      BY <1>0, <2>1 DEF Read
    <3> QED
      BY <3>0, <3>2, <3>3 DEF TryType
  <2>2. CASE v \notin {"ok", "again"}
    <3>1. try'[t] = Told(t, v)
      BY <1>0, <2>2 DEF Read
    <3> QED
      BY <2>2, <3>1, VerdictTyped, ToldTyped
  <2>3. CASE v = "again" /\ LastRound(t)
    <3>1. try'[t] = Told(t, "busy")
      BY <1>0, <2>3 DEF Read
    <3> QED
      BY <3>1, ToldTyped DEF Answers
  <2>4. CASE v = "again" /\ ~LastRound(t)
    <3>1. try' = [try EXCEPT ![t].pc = "insert", ![t].round = @ + 1]
      BY <2>4 DEF Read
    <3> QED
      BY <1>0, <3>1 DEF TryType
  <2> QED
    BY <2>1, <2>2, <2>3, <2>4
<1>2. AsksOn(t)
  <2>1. try'[t].key \in Tries \cup {None}
    BY <1>1, KeysTypes DEF KeysTyped
  <2>2. try'[t].key # None => try[try'[t].key].pc \notin Asking
    BY <1>1 DEF Holds, KeysMinted
  <2>3. try[t].change \in Changes
    BY <1>0 DEF Holds, KeysMinted, Asking
  <2> QED
    BY <1>0, <1>1, <2>1, <2>2, <2>3 DEF AsksOn, Asking
<1> QED
  BY <1>2, AsksOnKeeps

LEMMA HoldsNext == TypeOK /\ Holds /\ Next => Holds'
<1> SUFFICES ASSUME TypeOK, Holds, Next PROVE Holds'
  OBVIOUS
<1>0. try \in [Tries -> TryType] /\ began \in [Tries -> 0..Horizon \cup {None}]
  BY TypesOfTry DEF TypeOK
<1>1. ASSUME NEW t \in Tries, Ask(t) PROVE Holds'
  <2>1. PICK c \in Changes : try' = [try EXCEPT ![t].pc = "insert", ![t].change = c]
    BY <1>1 DEF Ask
  <2>2. AsksOn(t)
    BY <1>0, <1>1, <2>1, TriesAssumption
    DEF Ask, AsksOn, Asking, TryType, Holds, KeysMinted
  <2> QED
    BY <2>2, AsksOnKeeps
<1>2. ASSUME NEW t \in Tries, Insert(t) PROVE Holds'
  BY <1>2, InsertKeeps
<1>3. ASSUME NEW t \in Tries, Retry(t) PROVE Holds'
  BY <1>3, RetryKeeps
<1>4. ASSUME NEW t \in Tries, Read(t) PROVE Holds'
  BY <1>4, ReadKeeps
<1>5. ASSUME NEW t \in Tries, Call(t) PROVE Holds'
  <2>1. GoesOn(t)
    BY <1>0, <1>5 DEF Call, Over, GoesOn, Asking, TryType
  <2> QED
    BY <2>1, GoesOnKeeps
<1>6. ASSUME NEW t \in Tries, NeverStarted(t) PROVE Holds'
  <2>1. GoesOn(t)
    BY <1>0, <1>6 DEF NeverStarted, Over, GoesOn, Asking, TryType
  <2> QED
    BY <2>1, GoesOnKeeps
<1>7. ASSUME NEW t \in Tries, Live(t), Over(t), UNCHANGED <<now, record>>,
             \/ try' = [try EXCEPT ![t].pc = "settle", ![t].answer = "ok"]
             \/ try' = try /\ try[t].pc # "called"
      PROVE  Holds'
  <2>1. GoesOn(t)
    BY <1>0, <1>7 DEF Live, Over, GoesOn, Asking, TryType, Holds, KeysMinted
  <2> QED
    BY <2>1, GoesOnKeeps
<1>8. ASSUME NEW t \in Tries, Commit(t) \/ Act(t) \/ Lapse(t) PROVE Holds'
  BY <1>7, <1>8 DEF Commit, Act, Lapse
<1>9. ASSUME NEW t \in Tries, Fail(t) PROVE Holds'
  <2>1. GoesOn(t)
    BY <1>0, <1>9 DEF Fail, Over, GoesOn, Asking, TryType
  <2> QED
    BY <2>1, GoesOnKeeps
<1>10. ASSUME NEW t \in Tries, Settle(t) \/ Discard(t) PROVE Holds'
  <2>0. try' = [try EXCEPT ![t] = Told(t, try[t].answer)]
    BY <1>10 DEF Settle, Discard
  <2>1. /\ try'[t] = Told(t, try[t].answer) /\ try[t].answer \in Answers
        /\ \A s \in Tries \ {t} : try'[s] = try[s]
    BY <1>0, <2>0 DEF TryType
  <2>2. /\ try'[t].pc = "told" /\ try'[t].key \in {try[t].key, None}
        /\ began[t] # None => try'[t].key = try[t].key
    BY <1>10, <2>1, ToldTyped DEF Live, Settle, Discard
  <2>3. \/ record' = record
        \/ record' = None
        \/ record # None /\ record'.key = record.key /\ record.attempt = t
    BY <1>10 DEF Settle, Discard, TypeOK, Record
  <2>4. GoesOn(t)
    BY <1>10, <2>1, <2>2, <2>3 DEF Settle, Discard, GoesOn, Asking
  <2> QED
    BY <2>4, GoesOnKeeps
<1>11. ASSUME NEW t \in Tries, Abandon(t) PROVE Holds'
  <2>1. Told(t, "none") \in TryType
    BY ToldTyped DEF Answers
  <2>2. /\ try'[t] = [Told(t, "none") EXCEPT !.pc = "gone"]
        /\ \A s \in Tries \ {t} : try'[s] = try[s] /\ began'[s] = began[s]
        /\ UNCHANGED <<now, record>>
    BY <1>0, <1>11 DEF Abandon, Over
  <2>3. /\ try'[t].pc = "gone" /\ try'[t].key = Told(t, "none").key
    BY <2>1, <2>2 DEF TryType
  <2>4. \/ began'[t] = None
        \/ Live(t) /\ began'[t] = began[t]
    BY <1>0, <1>11 DEF Abandon, Over, Live
  <2>5. GoesOn(t)
    BY <1>11, <2>2, <2>3, <2>4, ToldTyped DEF Abandon, GoesOn, Asking, Answers
  <2> QED
    BY <2>5, GoesOnKeeps
<1>12. CASE Sweep \/ SweepMutationKeys
  BY <1>12 DEF Sweep, SweepMutationKeys, Holds, KeysMinted, HoldsRecord, OneHolder, Holding
<1>13. CASE Tick
  <2>1. /\ UNCHANGED <<record, try, began>>
        /\ \A t \in Tries : Holding(t)' => Holding(t)
    BY <1>0, <1>13, TimesAssumption DEF Tick, Holding, TypeOK
  <2> QED
    BY <2>1 DEF Holds, KeysMinted, HoldsRecord, OneHolder
<1> QED
  BY <1>1, <1>2, <1>3, <1>4, <1>5, <1>6, <1>8, <1>9, <1>10, <1>11, <1>12, <1>13 DEF Next

-----------------------------------------------------------------------------
(* The theorems. *)

(* Of the tries that run under one record, whose change the key names,     *)
(* a second one runs only when the first has outlived its lease.           *)
LEMMA HoldInvariantAlways == Spec => []HoldInvariant
<1>1. HoldInvariant /\ [Next]_vars => HoldInvariant'
  <2> SUFFICES ASSUME HoldInvariant, [Next]_vars PROVE HoldInvariant'
    OBVIOUS
  <2>1. CASE Next
    BY <2>1, TypeNext, HoldsNext DEF HoldInvariant, Holds
  <2>2. CASE UNCHANGED vars
    BY <2>2 DEF vars, HoldInvariant, TypeOK, KeysMinted, HoldsRecord, OneHolder, Holding
  <2> QED
    BY <2>1, <2>2
<1> QED
  BY <1>1, HoldInit, PTL DEF Spec

(* The claim's record, the tries and their clocks keep their types.        *)
THEOREM ChangeKeysTyped == Spec => []TypeOK
<1>1. HoldInvariant => TypeOK
  BY DEF HoldInvariant
<1> QED
  BY <1>1, HoldInvariantAlways, PTL

(* However tries, settlements, abandonments and sweeps fall: a try runs    *)
(* beside another under one record only past that one's lease, whatever    *)
(* the lease, the lives and the skew are.                                  *)
THEOREM HoldsAloneAlways == Spec => []HoldsAlone
<1>1. HoldInvariant => HoldsAlone
  <2> SUFFICES ASSUME HoldInvariant, NEW t \in Tries, NEW u \in Tries,
                      t # u, Live(t), Live(u), try[t].key = try[u].key
               PROVE  \E x \in {t, u} : began[x] + Lease <= now \/ try[x].pc # "called"
    BY DEF HoldsAlone
  <2>1. ~(Holding(t) /\ Holding(u))
    BY DEF HoldInvariant, OneHolder
  <2>2. now \in Int /\ began[t] \in Int /\ began[u] \in Int /\ Lease \in Int
    BY TimesAssumption DEF HoldInvariant, TypeOK, Live
  <2> QED
    BY <2>1, <2>2 DEF Holding, Live
<1> QED
  BY <1>1, HoldInvariantAlways, PTL
=============================================================================
