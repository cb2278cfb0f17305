----------------------------- MODULE ChangeKeys -----------------------------
(***************************************************************************)
(* Change keys of Patchy MCP: a worker agent names one intended change,    *)
(* and however often it tries the change happens at most once in the key's *)
(* 24 hours.  packages/mcp/src/ChangeKeys.ts keeps the key's record in the *)
(* control database and claims it in separate statements;                  *)
(* packages/mcp/src/Calls.ts runs, settles or discards the try; Runtime    *)
(* commits a mutation once for each mutation key (module Mutation) for as  *)
(* long as it keeps the key's row, which another sweep, on another clock,  *)
(* takes away (packages/company-database/src/OrphanSweep.ts).              *)
(*                                                                         *)
(* One agent connection, one patch and one key: others share nothing with  *)
(* it.  Time is discrete; `now` is the database's clock, and a host's may  *)
(* differ from it by up to Skew either way.                                *)
(***************************************************************************)
EXTENDS Integers, FiniteSets

CONSTANTS
  Tries,     \* calls of change_patch with the key
  Changes,   \* what they ask: records with a `call`, a `version` and a `kind`
  None,
  Lifetime,  \* tier2.mutation.keyLifetime
  Lease,     \* a try's deadline, its cleanup and the start allowance
  MaxRun,    \* the longest a try's work goes on after its claim
  Skew,      \* tier2.mutation.keyFutureSkew, and how far a host's clock may be off
  Rounds,    \* reads after which a claim gives up as busy
  Horizon    \* bound on the clock

ASSUME TimesAssumption ==
  /\ Lifetime \in Nat /\ Lease \in Nat /\ MaxRun \in Nat /\ Skew \in Nat
  /\ Horizon \in Nat /\ Rounds \in Nat \ {0}
  /\ MaxRun <= Lease
ASSUME TriesAssumption == None \notin Tries
(* A version says of each tool whether it is a mutation or an action.      *)
ASSUME ChangesAssumption ==
  \A c, d \in Changes : c.call = d.call /\ c.version = d.version => c = d

VARIABLES
  now,      \* the database's clock
  record,   \* the key's record, or None
  try,      \* each try: its step, its change, its round, the key it runs under
  began,    \* when each try that runs, or may still take effect, was claimed
  kept,     \* the mutation keys whose row Runtime keeps
  issued,   \* the time written in each mutation key, by the clock of its host
  created,  \* the change and time of the record each try inserted, or None
  effects   \* how often the change of each record took effect

vars == <<now, record, try, began, kept, issued, created, effects>>

-----------------------------------------------------------------------------
(* State.  A record, its attempt and its mutation key are all named by the *)
(* try that made them.                                                     *)

Steps == {"idle", "insert", "retry", "read", "claimed", "called", "settle",
          "discard", "told", "gone"}
Answers == {"none", "ok", "refused", "unknown", "busy", "conflict",
            "version_changed", "used", "too_late"}

Record == [change : Changes, key : Tries, attempt : Tries, result : BOOLEAN,
           until : -1..(Horizon + Lease), at : 0..Horizon]

Creation == [at : 0..Horizon, change : Changes]

ASSUME NoneAssumption == None \notin Record \cup Creation

TypeOK ==
  /\ now \in 0..Horizon
  /\ record \in Record \cup {None}
  /\ try \in [Tries -> [pc : Steps, change : Changes \cup {None}, round : 0..(Rounds - 1),
                        key : Tries \cup {None}, answer : Answers]]
  /\ began \in [Tries -> 0..Horizon \cup {None}]
  /\ kept \subseteq Tries
  /\ issued \in [Tries -> (-Skew)..(Horizon + Skew)]
  /\ created \in [Tries -> Creation \cup {None}]
  /\ effects \in [Tries -> Nat]

Idle == [pc |-> "idle", change |-> None, round |-> 0, key |-> None,
         answer |-> "none"]

Init ==
  /\ now = 0
  /\ record = None
  /\ try = [t \in Tries |-> Idle]
  /\ began = [t \in Tries |-> None]
  /\ kept = {}
  /\ issued = [t \in Tries |-> 0]
  /\ created = [t \in Tries |-> None]
  /\ effects = [t \in Tries |-> 0]

Kind(t) == try[t].change.kind

(* The invocation of t may still take effect.                              *)
Live(t) == began[t] # None /\ try[t].pc # "claimed"

Over(t) == began' = [began EXCEPT ![t] = None]

HostClock == {now + s : s \in (-Skew)..Skew}

(* Mutant: retries go on to the end of the mutation key's life.            *)
RetryWindowWhole == Lifetime

(* Retries stop one try's longest run and the hosts' skew before the end   *)
(* of the mutation key's own life.                                         *)
RetryWindow == Lifetime - Lease - Skew

Expired == record.at <= now - Lifetime
Retryable == record.change.kind = "mutation" /\ issued[record.key] > now - RetryWindow
Running == record.until > now
NotRunning == -1  \* running_until NULL

(* The try's answer is given; only a success's change and key are kept,    *)
(* and those of one whose invocation may still be under way.               *)
Told(t, answer) ==
  [(IF answer = "ok" \/ Live(t) THEN try[t] ELSE Idle)
     EXCEPT !.pc = "told", !.round = 0, !.answer = answer]

-----------------------------------------------------------------------------
(* The claim: three statements, each its own step *)

Ask(t) ==
  /\ try[t].pc = "idle"
  /\ \E c \in Changes :
       try' = [try EXCEPT ![t].pc = "insert", ![t].change = c]
  /\ UNCHANGED <<now, record, began, kept, issued, created, effects>>

(* INSERT ... ON CONFLICT DO UPDATE: the first try, or the first since the *)
(* key's 24 hours ran out, takes the record under a mutation key it mints. *)
Insert(t) ==
  /\ try[t].pc = "insert"
  /\ IF record = None \/ Expired
     THEN /\ record' = [change |-> try[t].change, key |-> t, attempt |-> t,
                        result |-> FALSE, until |-> now + Lease, at |-> now]
          /\ IF Kind(t) = "mutation"
             THEN \E at \in HostClock : issued' = [issued EXCEPT ![t] = at]
             ELSE UNCHANGED issued
          /\ created' = [created EXCEPT ![t] = [at |-> now, change |-> try[t].change]]
          /\ try' = [try EXCEPT ![t].pc = "claimed", ![t].key = t,
                                ![t].round = 0]
          /\ began' = [began EXCEPT ![t] = now]
     ELSE /\ try' = [try EXCEPT ![t].pc = "retry"]
          /\ UNCHANGED <<record, issued, created, began>>
  /\ UNCHANGED <<now, kept, effects>>

(* Mutant: a retry with another change goes on with the first one's key.   *)
MayRetryAnyChange(t) ==
  record # None /\ ~record.result /\ ~Running /\ Retryable

(* Mutant: a retry does not wait for a try that runs.                      *)
MayRetryAtOnce(t) ==
  /\ record # None /\ record.change = try[t].change
  /\ ~record.result /\ Retryable

(* UPDATE: a retry of the same mutation on the same version that nothing   *)
(* holds runs again under the first try's mutation key.                    *)
MayRetry(t) ==
  /\ record # None /\ record.change = try[t].change
  /\ ~record.result /\ ~Running /\ Retryable

Retry(t) ==
  /\ try[t].pc = "retry"
  /\ IF MayRetry(t)
     THEN /\ record' = [record EXCEPT !.attempt = t, !.until = now + Lease]
          /\ try' = [try EXCEPT ![t].pc = "claimed", ![t].key = record.key,
                                ![t].round = 0]
          /\ began' = [began EXCEPT ![t] = now]
     ELSE /\ try' = [try EXCEPT ![t].pc = "read"]
          /\ UNCHANGED <<record, began>>
  /\ UNCHANGED <<now, kept, issued, created, effects>>

(* What the record says to a try that may not run; "again" when it changed *)
(* under the claim.                                                        *)
Verdict(t) ==
  LET c == try[t].change IN
  IF record = None \/ Expired THEN "again"
  ELSE IF record.change.call # c.call THEN "conflict"
  ELSE IF record.change.version # c.version THEN "version_changed"
  ELSE IF Running THEN "busy"
  ELSE IF record.change.kind = "action" THEN "used"
  ELSE IF record.result THEN "ok"
  ELSE IF ~Retryable THEN "too_late"
  ELSE "again"

LastRound(t) == try[t].round + 1 = Rounds

Read(t) ==
  /\ try[t].pc = "read"
  /\ LET v == Verdict(t)
     IN try' = IF v = "ok" THEN [try EXCEPT ![t] = [Told(t, v) EXCEPT !.key = record.key]]
               ELSE IF v # "again" THEN [try EXCEPT ![t] = Told(t, v)]
               ELSE IF LastRound(t) THEN [try EXCEPT ![t] = Told(t, "busy")]
               ELSE [try EXCEPT ![t].pc = "insert", ![t].round = @ + 1]
  /\ UNCHANGED <<now, record, began, kept, issued, created, effects>>

-----------------------------------------------------------------------------
(* The try runs *)

(* Runtime admits the call: a mutation key must be within its life on this *)
(* host's clock.                                                           *)
Call(t) ==
  /\ try[t].pc = "claimed"
  /\ \E clock \in HostClock :
       LET valid == /\ issued[try[t].key] >= clock - Lifetime
                    /\ issued[try[t].key] <= clock + Skew
       IN IF Kind(t) = "mutation" /\ ~valid
          THEN /\ try' = [try EXCEPT ![t].pc = "settle", ![t].answer = "refused"]
               /\ Over(t)
          ELSE /\ try' = [try EXCEPT ![t].pc = "called"]
               /\ UNCHANGED began
  /\ UNCHANGED <<now, record, kept, issued, created, effects>>

(* Refused before dispatch: no slot, no server, or the service is full.    *)
NeverStarted(t) ==
  /\ try[t].pc = "called" /\ Live(t)
  /\ Over(t)
  /\ try' = [try EXCEPT ![t].answer = "refused",
                        ![t].pc = IF Kind(t) = "action" THEN "discard" ELSE "settle"]
  /\ UNCHANGED <<now, record, kept, issued, created, effects>>

(* A mutation commits, unless the key's row shows it has: the row and the  *)
(* writes go together, and a row found answers instead.                    *)
Commit(t) ==
  /\ Live(t) /\ Kind(t) = "mutation"
  /\ Over(t)
  /\ IF try[t].key \in kept THEN UNCHANGED <<kept, effects>>
     ELSE /\ kept' = kept \cup {try[t].key}
          /\ effects' = [effects EXCEPT ![try[t].key] = @ + 1]
  /\ try' = IF try[t].pc = "called"
            THEN [try EXCEPT ![t].pc = "settle", ![t].answer = "ok"] ELSE try
  /\ UNCHANGED <<now, record, issued, created>>

(* An action's handler takes effect.                                       *)
Act(t) ==
  /\ Live(t) /\ Kind(t) = "action"
  /\ Over(t)
  /\ effects' = [effects EXCEPT ![try[t].key] = @ + 1]
  /\ try' = IF try[t].pc = "called"
            THEN [try EXCEPT ![t].pc = "settle", ![t].answer = "ok"] ELSE try
  /\ UNCHANGED <<now, record, kept, issued, created>>

(* The invocation ends without an effect, or without knowing of one: then  *)
(* what it sent may take effect after the answer.                          *)
Fail(t) ==
  /\ try[t].pc = "called"
  /\ \/ /\ Over(t)
        /\ try' = [try EXCEPT ![t].pc = "settle", ![t].answer = "refused"]
     \/ /\ try' = [try EXCEPT ![t].pc = "settle", ![t].answer = "unknown"]
        /\ UNCHANGED began
  /\ UNCHANGED <<now, record, kept, issued, created, effects>>

(* An invocation whose answer nobody awaits ends without effect.           *)
Lapse(t) ==
  /\ Live(t) /\ try[t].pc # "called"
  /\ Over(t)
  /\ UNCHANGED <<now, record, try, kept, issued, created, effects>>

(* The try's hold ends and a committed mutation's result stays, if the     *)
(* record is still this attempt's; the statement may not get through.      *)
Settle(t) ==
  /\ try[t].pc = "settle"
  /\ try' = [try EXCEPT ![t] = Told(t, @.answer)]
  /\ \/ UNCHANGED record
     \/ /\ record # None /\ record.attempt = t
        /\ record' = [record EXCEPT !.until = NotRunning,
             !.result = @ \/ (Kind(t) = "mutation" /\ try[t].answer = "ok")]
  /\ UNCHANGED <<now, began, kept, issued, created, effects>>

(* An action that never started gives its key back, in the same bound.     *)
Discard(t) ==
  /\ try[t].pc = "discard"
  /\ try' = [try EXCEPT ![t] = Told(t, @.answer)]
  /\ \/ UNCHANGED record
     \/ /\ record # None /\ record.attempt = t /\ record.change.kind = "action"
        /\ record' = None
  /\ UNCHANGED <<now, began, kept, issued, created, effects>>

(* The agent goes away or the door's host dies: nobody settles the try,    *)
(* and an invocation under way goes on without it.                         *)
Abandon(t) ==
  /\ try[t].pc \in {"claimed", "called", "settle", "discard"}
  /\ try' = [try EXCEPT ![t] = [Told(t, "none") EXCEPT !.pc = "gone"]]
  /\ IF try[t].pc = "claimed" THEN Over(t) ELSE UNCHANGED began
  /\ UNCHANGED <<now, record, kept, issued, created, effects>>

-----------------------------------------------------------------------------
(* Sweeps and time *)

Sweep ==
  /\ record # None /\ Expired
  /\ record' = None
  /\ UNCHANGED <<now, try, began, kept, issued, created, effects>>

(* Runtime's keys are swept by a host's clock, from the time in them.      *)
SweepMutationKeys ==
  \E clock \in HostClock :
    /\ kept' = {k \in kept : issued[k] >= clock - Lifetime}
    /\ kept' # kept
    /\ UNCHANGED <<now, record, try, began, issued, created, effects>>

(* Deadlines end every invocation within MaxRun of its claim.              *)
Tick ==
  /\ now < Horizon
  /\ \A t \in Tries :
       began[t] # None => now < began[t] + MaxRun
  /\ now' = now + 1
  /\ UNCHANGED <<record, try, began, kept, issued, created, effects>>

Next ==
  \/ \E t \in Tries :
       \/ Ask(t) \/ Insert(t) \/ Retry(t) \/ Read(t) \/ Call(t)
       \/ NeverStarted(t) \/ Commit(t) \/ Act(t) \/ Fail(t) \/ Lapse(t)
       \/ Settle(t) \/ Discard(t) \/ Abandon(t)
  \/ Sweep \/ SweepMutationKeys \/ Tick

Spec == Init /\ [][Next]_vars

-----------------------------------------------------------------------------
(* Properties *)

(* However the agent retries, the change its key names happens at most     *)
(* once in the key's 24 hours, an action's as a mutation's, although       *)
(* tries are abandoned, outcomes are unknown, records are swept, and       *)
(* Runtime forgets the mutation key by another clock.                      *)
OnceADay ==
  \A k \in Tries :
    /\ effects[k] <= 1
    /\ \A l \in Tries \ {k} :
         effects[k] > 0 /\ effects[l] > 0
           => created[k].at - created[l].at >= Lifetime
              \/ created[l].at - created[k].at >= Lifetime

(* A try told that its change happened, by running or by replay, is told   *)
(* of its own change, and it did happen.                                   *)
AnswersItsChange ==
  \A t \in Tries :
    try[t].answer = "ok" =>
      /\ effects[try[t].key] = 1
      /\ created[try[t].key].change = try[t].change

(* A try runs while another runs under the same record only if that one    *)
(* has outlived its lease.                                                 *)
HoldsAlone ==
  \A t, u \in Tries :
    t # u /\ Live(t) /\ Live(u) /\ try[t].key = try[u].key
      => \E x \in {t, u} : began[x] + Lease <= now \/ try[x].pc # "called"

=============================================================================
