--------------------------- MODULE MutationProofs ---------------------------
(***************************************************************************)
(* Theorems about Mutation, for any set of calls and any number of         *)
(* attempts: the mutation key keeps its promise, the invocation log agrees *)
(* with the company's database, and a call that has gone leaves no         *)
(* transaction open on a live connection.                                  *)
(***************************************************************************)
EXTENDS Mutation, TLAPS

(* The dispatch and the wait for the owner, and what comes after them.     *)
Active == Dispatching \cup {"settling"}
Late == {"resolving", "finishing", "awaiting", "stopping"} \cup Stopped

Denials == {"failure", "handler_timeout"}

(* The call cannot commit any more, and it has not: its owner is gone with *)
(* no COMMIT in flight, and no later attempt will follow.                  *)
Inert(i) ==
  /\ call[i].pc \in Late
  /\ OwnerSettled(i) /\ srv[i] \in {"none", "open", "aborted"}

(* What the host believes of an attempt's transaction, against how the     *)
(* database has it: a COMMIT is out only while its fate counts as unknown. *)
FateOf(t, s, dead) ==
  /\ t.owner = "none" => s = "none"
  /\ t.owner \in {"opening", "unopening"} => s \in {"none", "open", "aborted"}
  /\ t.owner = "ready" => s \in {"open", "aborted"}
  /\ t.owner = "saving" => s \in {"open", "keyed", "aborted"}
  /\ t.owner \in {"none", "opening", "unopening", "ready", "saving", "closing"}
       => ~t.unknown
  /\ t.owner = "committing" => t.unknown /\ s \in {"sent", "committed", "aborted"}
  /\ t.owner = "rolling" /\ ~t.unknown => s \in {"open", "keyed", "aborted"}
  /\ t.owner = "rolling" /\ t.fail = "keyrace" => ~t.unknown /\ s \in {"open", "aborted"}
  /\ t.owner = "closing" => t.committed \/ s = "aborted"
  /\ t.committed => t.owner \in {"closing", "ended"} /\ s = "committed"
  /\ t.owner = "ended" /\ ~t.unknown /\ ~t.committed /\ ~dead
       => s \in {"none", "open", "aborted"}
  /\ t.owner = "ended" /\ s \in {"open", "keyed"} => t.destroyed

Fate(i) == FateOf(tx[i], srv[i], call[i].pc = "dead")

(* The key's row is the row of the transaction that committed.             *)
RowCommitted == \A i \in Calls : row = i <=> srv[i] = "committed"

(* One transaction at a time holds the key, and none once the row is in.   *)
OneKey ==
  \A i \in Calls : srv[i] \in {"keyed", "sent"} => row = None /\ ~KeyLocked(i)

(* Attempts are counted from the first invocation on.                      *)
Tries(i) ==
  /\ call[i].pc \in {"idle", "begin", "lookup"} => call[i].tries < MaxAttempts
  /\ call[i].pc = "running" => call[i].tries # 0
  /\ call[i].pc = "settling" /\ call[i].end = "rebind" => call[i].tries # 0

(* What a settlement may leave: an owner that has ended, that lost its     *)
(* connection, or that was still opening and is told to stop.              *)
Left(t) ==
  \/ t.owner \in {"none", "ended"}
  \/ t.destroyed
  \/ t.owner \in {"opening", "unopening"} /\ t.cancelled

(* What a call's fiber has learnt is so: a success has its row, and a      *)
(* refusal is settled on only when no COMMIT can follow.                   *)
Knows(i) ==
  LET c == call[i] IN
  /\ c.end = "ok" => row = i
  /\ c.stored # None => row = c.stored
  /\ c.end = "stored" => c.stored # None
  /\ c.end = "keyrace" =>
       /\ c.pc \in {"settling", "resolving"}
       /\ tx[i].owner = "ended" /\ srv[i] \in {"open", "aborted"}
  /\ c.pc = "resolving" /\ ~c.uncertain => Inert(i)
  /\ c.pc \in {"finishing", "awaiting"} /\ c.end \notin {"ok", "stored", "unknown"} =>
       Inert(i)
  /\ c.pc \in Late \ {"stopping"} => Left(tx[i])

(* What the client was told, and what the log says or will say, is so.     *)
Told(i) ==
  /\ answer[i] # Untold => call[i].pc = "done"
  /\ answer[i].tag = "no" => Inert(i)

Logged(i) ==
  /\ log[i].outcome \in Denials \/ posted[i] \cap Denials # {} => Inert(i)
  /\ log[i].outcome = "success" \/ "success" \in posted[i] => row # None
  /\ log[i].committed => row = i

Own(i) == Fate(i) /\ Tries(i) /\ Knows(i) /\ Told(i) /\ Logged(i)

KeyInvariant ==
  /\ TypeOK /\ RowCommitted /\ OneKey
  /\ \A i \in Calls : Own(i)

-----------------------------------------------------------------------------
(* What a step may do to one call's transaction and fiber *)

(* The two views of an attempt agree on whatever decides its fate.         *)
SameFate(t, u) ==
  /\ u.owner = t.owner /\ u.committed = t.committed /\ u.unknown = t.unknown
  /\ u.destroyed = t.destroyed /\ u.fail = t.fail
  /\ t.cancelled => u.cancelled

(* Closing and cancelling leave an attempt's fate as it was.               *)
LEMMA ClosedMade ==
  ASSUME NEW t \in Tx
  PROVE  Closed(t) \in Tx /\ SameFate(t, Closed(t))
<1>. DEFINE job == IF t.job = "asked" THEN "none" ELSE t.job
<1>1. job \in {"none", "asked", "running"}
  BY DEF Tx
<1>2. Closed(t) = [t EXCEPT !.closed = TRUE, !.job = job]
  BY DEF Closed
<1>. HIDE DEF job
<1>. QED BY <1>1, <1>2 DEF Tx, SameFate

LEMMA CancelledMade ==
  ASSUME NEW t \in Tx
  PROVE  /\ Cancelled(t) \in Tx /\ SameFate(t, Cancelled(t))
         /\ Cancelled(t).cancelled
<1>1. Closed(t) \in Tx /\ SameFate(t, Closed(t))
  BY ClosedMade
<1>. QED BY <1>1 DEF Cancelled, Tx, SameFate, Owners, Opening

LEMMA DestroyedMade ==
  ASSUME NEW t \in Tx
  PROVE  /\ Destroyed(t) \in Tx /\ Left(Destroyed(t))
         /\ Destroyed(t).destroyed \/ Destroyed(t).destroyed = t.destroyed
         /\ Destroyed(t).owner = t.owner /\ Destroyed(t).committed = t.committed
         /\ Destroyed(t).unknown = t.unknown /\ Destroyed(t).fail = t.fail
<1>1. Cancelled(t) \in Tx /\ SameFate(t, Cancelled(t)) /\ Cancelled(t).cancelled
  BY CancelledMade
<1>. DEFINE lost == t.destroyed \/ t.owner \notin Opening
            u == [Cancelled(t) EXCEPT !.destroyed = lost]
<1>2. lost \in BOOLEAN /\ (~lost => t.owner \in {"opening", "unopening"})
  BY DEF Opening
<1>3. lost = FALSE => t.destroyed = FALSE
  BY DEF Tx
<1>4. Destroyed(t) = u
  BY <1>1 DEF Destroyed, SameFate
<1>. HIDE DEF lost
<1>5. /\ u \in Tx /\ u.destroyed = lost /\ u.cancelled
      /\ u.owner = t.owner /\ u.committed = t.committed
      /\ u.unknown = t.unknown /\ u.fail = t.fail
  BY <1>1, <1>2 DEF Tx, SameFate
<1>. HIDE DEF u
<1>. QED BY <1>2, <1>3, <1>4, <1>5 DEF Left

LEMMA NewTxMade == NewTx \in Tx
  BY DEF NewTx, Tx, Owners, Opening

LEMMA NewCallMade ==
  /\ NewCall \in Call /\ NewCall.end = "none" /\ NewCall.stored = None
  /\ NewCall.tries = 0
  BY AttemptsAssumption DEF NewCall, Call, Pcs, Dispatching, Stopped, Ends

LEMMA GoneMade ==
  ASSUME NEW pc \in Pcs
  PROVE  /\ Gone(pc) \in Call /\ Gone(pc).pc = pc /\ Gone(pc).end = "none"
         /\ Gone(pc).stored = None
  BY NewCallMade DEF Gone, Call

Settling(c, e, cap) == [c EXCEPT !.pc = "settling", !.end = e, !.cap = cap]

LEMMA SettlingMade ==
  ASSUME NEW c \in Call, NEW e \in Ends, NEW cap \in {"none", "live", "fenced"}
  PROVE  LET d == Settling(c, e, cap) IN
         /\ d \in Call /\ d.pc = "settling" /\ d.end = e
         /\ d.stored = c.stored /\ d.tries = c.tries /\ d.uncertain = c.uncertain
<1>1. "settling" \in Pcs
  BY DEF Pcs
<1>. QED BY <1>1 DEF Call, Settling

(* The dispatch's end leaves the call settling, whatever it knew kept.     *)
LEMMA EndsMove ==
  ASSUME TypeOK, NEW i \in Calls, NEW e \in Ends, NEW t \in Tx, EndsWith(i, e, t)
  PROVE  /\ call' \in [Calls -> Call] /\ tx' \in [Calls -> Tx]
         /\ \A j \in Calls \ {i} : call'[j] = call[j] /\ tx'[j] = tx[j]
         /\ call'[i].pc = "settling" /\ call'[i].end = e
         /\ call'[i].stored = call[i].stored /\ call'[i].tries = call[i].tries
         /\ call'[i].uncertain = call[i].uncertain
         /\ SameFate(t, tx'[i])
<1>1. call[i] \in Call /\ FencedCap(i) \in {"none", "live", "fenced"}
  BY DEF FencedCap, TypeOK, Call
<1>. DEFINE d == Settling(call[i], e, FencedCap(i))
<1>2. call' = [call EXCEPT ![i] = d]
  BY DEF EndsWith, Settling
<1>3. /\ d \in Call /\ d.pc = "settling" /\ d.end = e
      /\ d.stored = call[i].stored /\ d.tries = call[i].tries
      /\ d.uncertain = call[i].uncertain
  BY <1>1, SettlingMade
<1>. HIDE DEF d
<1>4. /\ call' \in [Calls -> Call] /\ call'[i] = d
      /\ \A j \in Calls \ {i} : call'[j] = call[j]
  BY <1>2, <1>3 DEF TypeOK
<1>5. PICK u \in Tx : SameFate(t, u) /\ tx' = [tx EXCEPT ![i] = u]
  <2>1. CASE call[i].cap = "live"
    BY <2>1, CancelledMade DEF EndsWith
  <2>2. CASE call[i].cap # "live"
    BY <2>2 DEF EndsWith, SameFate
  <2>. QED BY <2>1, <2>2
<1>. QED BY <1>3, <1>4, <1>5 DEF TypeOK

-----------------------------------------------------------------------------
(* What a step of one call leaves true of the others *)

Elsewhere(i) ==
  \A j \in Calls \ {i} :
    /\ call'[j] = call[j] /\ tx'[j] = tx[j] /\ srv'[j] = srv[j]
    /\ posted'[j] = posted[j] /\ answer'[j] = answer[j]

(* The key's row is written once, and the committer's log row may be       *)
(* proved by another call.                                                 *)
LEMMA OthersKeep ==
  ASSUME TypeOK, NEW i \in Calls, Elsewhere(i), row' = row \/ row = None,
         NEW j \in Calls \ {i}, Own(j),
         \/ log'[j] = log[j]
         \/ log'[j].outcome \in {"pending", "success"} /\ row' = j
  PROVE  Own(j)'
<1>1. /\ call'[j] = call[j] /\ tx'[j] = tx[j] /\ srv'[j] = srv[j]
      /\ posted'[j] = posted[j] /\ answer'[j] = answer[j]
  BY DEF Elsewhere
<1>2. j # None
  BY CallsAssumption
<1>3. Fate(j)' /\ Tries(j)'
  BY <1>1 DEF Own, Fate, FateOf, Tries
<1>4. Inert(j) => Inert(j)'
  BY <1>1 DEF Inert, OwnerSettled
<1>5. Knows(j)'
  BY <1>1, <1>2, <1>4 DEF Own, Knows, OwnerSettled
<1>6. Told(j)'
  BY <1>1, <1>4 DEF Own, Told
<1>7. Logged(j)'
  BY <1>1, <1>2, <1>4 DEF Own, Logged, Denials
<1>. QED BY <1>3, <1>5, <1>6, <1>7 DEF Own

(* No step but Commits writes the key's row, and only InsertKey takes it.  *)
LEMMA KeyKept ==
  ASSUME TypeOK, NEW i \in Calls, Elsewhere(i), RowCommitted, OneKey, row' = row,
         \/ srv'[i] = srv[i]
         \/ srv[i] # "committed" /\ srv'[i] \in {"none", "open", "aborted"}
         \/ srv[i] = "keyed" /\ srv'[i] = "sent"
  PROVE  RowCommitted' /\ OneKey'
<1>1. \A j \in Calls : srv'[j] = "committed" <=> srv[j] = "committed"
  BY DEF Elsewhere
<1>2. \A j \in Calls : srv'[j] \in {"keyed", "sent"} => srv[j] \in {"keyed", "sent"}
  BY DEF Elsewhere
<1>. QED BY <1>1, <1>2 DEF RowCommitted, OneKey, KeyLocked

-----------------------------------------------------------------------------
(* Kinds of steps of one call *)

Unheard(i) == posted'[i] = posted[i] /\ answer'[i] = answer[i]

(* Nothing of the call that the invariant reads has changed.               *)
LEMMA QuietKeeps ==
  ASSUME TypeOK, NEW i \in Calls, Own(i), SameFate(tx[i], tx'[i]), srv'[i] = srv[i],
         row' = row, log'[i] = log[i], Unheard(i),
         call'[i].pc = call[i].pc, call'[i].end = call[i].end,
         call'[i].stored = call[i].stored, call'[i].tries = call[i].tries,
         call'[i].uncertain = call[i].uncertain
  PROVE  Own(i)'
<1>1. Fate(i)' /\ Tries(i)'
  BY DEF Own, Fate, FateOf, Tries, SameFate
<1>2. Inert(i)' <=> Inert(i)
  BY DEF Inert, OwnerSettled, SameFate
<1>3. Knows(i)'
  BY <1>2 DEF Own, Knows, OwnerSettled, SameFate, Left
<1>4. Told(i)' /\ Logged(i)'
  BY <1>2 DEF Own, Told, Logged, Unheard
<1>. QED BY <1>1, <1>3, <1>4 DEF Own

(* A call that has not settled yet moves on, its transaction untouched or  *)
(* merely closed to it.                                                    *)
LEMMA DispatchKeeps ==
  ASSUME TypeOK, NEW i \in Calls, Own(i), SameFate(tx[i], tx'[i]), srv'[i] = srv[i],
         row' = row, Unheard(i),
         call[i].pc \in Active \cup {"idle"}, call'[i].pc \in Active,
         \/ call'[i].pc = call[i].pc /\ call'[i].end = call[i].end
         \/ /\ call[i].pc # "settling"
            /\ \/ call'[i].end = call[i].end
               \/ call'[i].end \in {"refused", "timeout", "conflict", "rebind", "stored"},
         call'[i].end = "stored" => call'[i].stored # None,
         call'[i].stored # None => row = call'[i].stored,
         call'[i].pc \in {"begin", "lookup"} => call'[i].tries < MaxAttempts,
         call'[i].pc = "running" => call'[i].tries # 0,
         call'[i].pc = "settling" /\ call'[i].end = "rebind" => call'[i].tries # 0,
         \/ log'[i] = log[i]
         \/ log'[i].outcome = "pending" /\ log'[i].committed = log[i].committed
  PROVE  Own(i)'
<1>1. Fate(i)'
  BY DEF Own, Fate, FateOf, SameFate, Active, Dispatching
<1>2. Tries(i)'
  BY DEF Own, Tries, Active, Dispatching
<1>3. Knows(i)'
  BY DEF Own, Knows, SameFate, Active, Dispatching, Late, Stopped
<1>4. ~Inert(i) /\ answer[i] = Untold
  BY DEF Inert, Own, Told, Active, Dispatching, Late, Stopped
<1>5. Told(i)'
  BY <1>4 DEF Told, Unheard, Untold
<1>6. Logged(i)'
  BY <1>4 DEF Own, Logged, Unheard, Denials
<1>. QED BY <1>1, <1>2, <1>3, <1>5, <1>6 DEF Own

(* The owner works on; a call that awaits its reply may learn its end.     *)
LEMMA OwnerKeeps ==
  ASSUME TypeOK, NEW i \in Calls, Own(i), Fate(i)', NEW e \in Ends,
         tx[i].owner \notin {"none", "ended"},
         tx'[i].destroyed = tx[i].destroyed \/ tx'[i].destroyed,
         Left(tx[i]) => Left(tx'[i]),
         row' = row, log'[i] = log[i], Unheard(i),
         \/ call'[i] = call[i]
         \/ /\ call[i].pc = "completing" /\ call'[i].pc = "settling"
            /\ call'[i].end = e /\ call'[i].stored = call[i].stored
            /\ e \in {"none", "ok", "refused", "conflict", "keyrace"},
         e = "ok" => row = i,
         e = "keyrace" => tx'[i].owner = "ended" /\ srv'[i] \in {"open", "aborted"}
  PROVE  Own(i)'
<1>1. Tries(i)'
  BY DEF Own, Tries
<1>2. ~Inert(i) /\ call[i].end # "keyrace"
  BY DEF Inert, OwnerSettled, Own, Knows
<1>3. Knows(i)'
  BY <1>2 DEF Own, Knows, OwnerSettled, Late, Stopped
<1>4. Told(i)' /\ Logged(i)'
  BY <1>2 DEF Own, Told, Logged, Unheard
<1>. QED BY <1>1, <1>3, <1>4 DEF Own

-----------------------------------------------------------------------------
(* The steps of a dispatch *)

(* A step of one call keeps the invariant if it keeps what the call's own  *)
(* part says, and leaves the key's row and the other calls alone.          *)
LEMMA StepKeeps ==
  ASSUME KeyInvariant, NEW i \in Calls, TypeOK', Elsewhere(i), row' = row, Own(i)',
         \/ srv'[i] = srv[i]
         \/ srv[i] # "committed" /\ srv'[i] \in {"none", "open", "aborted"}
         \/ srv[i] = "keyed" /\ srv'[i] = "sent",
         \A j \in Calls \ {i} :
           \/ log'[j] = log[j]
           \/ log'[j].outcome \in {"pending", "success"} /\ row' = j
  PROVE  KeyInvariant'
<1>1. RowCommitted' /\ OneKey'
  BY KeyKept DEF KeyInvariant
<1>2. \A j \in Calls \ {i} : Own(j)'
  BY OthersKeep DEF KeyInvariant
<1>. QED BY <1>1, <1>2 DEF KeyInvariant

(* The log's table after a row of it is opened.                            *)
LEMMA LogOpens ==
  ASSUME TypeOK, NEW i \in Calls,
         UNCHANGED log \/ log' = [log EXCEPT ![i].outcome = "pending"]
  PROVE  /\ log' \in [Calls -> [outcome : Outcomes \cup {"none", "pending"},
                                committed : BOOLEAN]]
         /\ \A j \in Calls \ {i} : log'[j] = log[j]
         /\ \/ log'[i] = log[i]
            \/ log'[i].outcome = "pending" /\ log'[i].committed = log[i].committed
  BY DEF TypeOK

LEMMA EndsKeep ==
  ASSUME KeyInvariant, NEW i \in Calls, NEW t \in Tx, SameFate(tx[i], t),
         call[i].pc \in Dispatching,
         NEW e \in {"refused", "timeout", "conflict", "rebind"},
         e = "rebind" => call[i].pc = "running",
         EndsWith(i, e, t), UNCHANGED <<srv, row, posted, answer>>,
         UNCHANGED log \/ log' = [log EXCEPT ![i].outcome = "pending"]
  PROVE  KeyInvariant'
<1>1. TypeOK /\ Own(i)
  BY DEF KeyInvariant
<1>2. e \in Ends
  BY DEF Ends
<1>3. /\ call' \in [Calls -> Call] /\ tx' \in [Calls -> Tx]
      /\ \A j \in Calls \ {i} : call'[j] = call[j] /\ tx'[j] = tx[j]
      /\ call'[i].pc = "settling" /\ call'[i].end = e
      /\ call'[i].stored = call[i].stored /\ call'[i].tries = call[i].tries
      /\ SameFate(t, tx'[i])
  BY <1>1, <1>2, EndsMove
<1>4. /\ log' \in [Calls -> [outcome : Outcomes \cup {"none", "pending"},
                             committed : BOOLEAN]]
      /\ \A j \in Calls \ {i} : log'[j] = log[j]
      /\ \/ log'[i] = log[i]
         \/ log'[i].outcome = "pending" /\ log'[i].committed = log[i].committed
  BY <1>1, LogOpens
<1>5. SameFate(tx[i], tx'[i])
  BY <1>3 DEF SameFate
<1>6. TypeOK' /\ Elsewhere(i)
  BY <1>1, <1>3, <1>4 DEF TypeOK, Elsewhere
<1>7. Own(i)'
  <2>1. Unheard(i) /\ call[i].pc \in Active /\ "settling" \in Active
    BY DEF Unheard, Active
  <2>2. call[i].pc # "settling"
    BY DEF Dispatching
  <2>3. call[i].stored # None => row = call[i].stored
    BY <1>1 DEF Own, Knows
  <2>4. call[i].pc = "running" => call[i].tries # 0
    BY <1>1 DEF Own, Tries
  <2>. QED BY <1>1, <1>3, <1>4, <1>5, <2>1, <2>2, <2>3, <2>4, DispatchKeeps
<1>. QED BY <1>4, <1>6, <1>7, StepKeeps

LEMMA TxSame ==
  ASSUME TypeOK, NEW i \in Calls
  PROVE  tx[i] \in Tx /\ SameFate(tx[i], tx[i])
  BY DEF TypeOK, SameFate

LEMMA NotInvokedKeeps ==
  ASSUME KeyInvariant, NEW i \in Calls, NotInvoked(i)
  PROVE  KeyInvariant'
<1>1. TypeOK /\ tx[i] \in Tx /\ SameFate(tx[i], tx[i])
  BY TxSame DEF KeyInvariant
<1>2. /\ call[i].pc \in Dispatching /\ UNCHANGED <<srv, row, log, posted, answer>>
      /\ EndsWith(i, "timeout", tx[i]) \/ EndsWith(i, "refused", tx[i])
  BY DEF NotInvoked, Dispatching
<1>. QED BY <1>1, <1>2, EndsKeep

LEMMA NeverRanKeeps ==
  ASSUME KeyInvariant, NEW i \in Calls, NeverRan(i)
  PROVE  KeyInvariant'
<1>1. TypeOK /\ tx[i] \in Tx /\ SameFate(tx[i], tx[i])
  BY TxSame DEF KeyInvariant
<1>2. /\ call[i].pc = "running" /\ call[i].pc \in Dispatching
      /\ EndsWith(i, "rebind", tx[i]) /\ UNCHANGED <<srv, row, log, posted, answer>>
  BY DEF NeverRan, Dispatching
<1>. QED BY <1>1, <1>2, EndsKeep

LEMMA ExecutorFailsKeeps ==
  ASSUME KeyInvariant, NEW i \in Calls, ExecutorFails(i)
  PROVE  KeyInvariant'
<1>1. TypeOK /\ tx[i] \in Tx /\ SameFate(tx[i], tx[i])
  BY TxSame DEF KeyInvariant
<1>2. /\ call[i].pc \in Dispatching
      /\ EndsWith(i, "refused", tx[i]) /\ UNCHANGED <<srv, row, log, posted, answer>>
  BY DEF ExecutorFails, Dispatching
<1>. QED BY <1>1, <1>2, EndsKeep

LEMMA GuestFailsKeeps ==
  ASSUME KeyInvariant, NEW i \in Calls, GuestFails(i)
  PROVE  KeyInvariant'
<1>1. tx[i] \in Tx
  BY TxSame DEF KeyInvariant
<1>2. Closed(tx[i]) \in Tx /\ SameFate(tx[i], Closed(tx[i]))
  BY <1>1, ClosedMade
<1>3. /\ call[i].pc \in Dispatching /\ UNCHANGED <<srv, row, log, posted, answer>>
      /\ \/ EndsWith(i, "conflict", Closed(tx[i]))
         \/ EndsWith(i, "refused", Closed(tx[i]))
  BY DEF GuestFails, Dispatching
<1>. QED BY <1>2, <1>3, EndsKeep

LEMMA DeadlineWinsKeeps ==
  ASSUME KeyInvariant, NEW i \in Calls, DeadlineWins(i)
  PROVE  KeyInvariant'
<1>1. TypeOK /\ tx[i] \in Tx /\ SameFate(tx[i], tx[i])
  BY TxSame DEF KeyInvariant
<1>2. /\ call[i].pc \in Dispatching /\ EndsWith(i, "timeout", tx[i])
      /\ UNCHANGED <<srv, row, posted, answer>>
      /\ UNCHANGED log \/ log' = [log EXCEPT ![i].outcome = "pending"]
  BY DEF DeadlineWins
<1>. QED BY <1>1, <1>2, EndsKeep

(* The call's fiber goes on to c, and touches neither its transaction nor  *)
(* the database.                                                           *)
LEMMA MovesKeep ==
  ASSUME KeyInvariant, NEW i \in Calls, NEW c \in Call,
         call' = [call EXCEPT ![i] = c],
         UNCHANGED <<tx, srv, row, posted, answer>>,
         UNCHANGED log \/ log' = [log EXCEPT ![i].outcome = "pending"],
         call[i].pc \in Active \cup {"idle"}, c.pc \in Active,
         \/ c.pc = call[i].pc /\ c.end = call[i].end
         \/ call[i].pc # "settling" /\ c.end \in {call[i].end, "stored"},
         c.end = "stored" => c.stored # None,
         c.stored # None => row = c.stored,
         c.pc \in {"begin", "lookup"} => c.tries < MaxAttempts,
         c.pc = "running" => c.tries # 0,
         c.pc = "settling" /\ c.end = "rebind" => c.tries # 0
  PROVE  KeyInvariant'
<1>1. TypeOK /\ Own(i)
  BY DEF KeyInvariant
<1>2. /\ call' \in [Calls -> Call] /\ call'[i] = c
      /\ \A j \in Calls \ {i} : call'[j] = call[j]
  BY <1>1 DEF TypeOK
<1>3. /\ log' \in [Calls -> [outcome : Outcomes \cup {"none", "pending"},
                             committed : BOOLEAN]]
      /\ \A j \in Calls \ {i} : log'[j] = log[j]
      /\ \/ log'[i] = log[i]
         \/ log'[i].outcome = "pending" /\ log'[i].committed = log[i].committed
  BY <1>1, LogOpens
<1>4. TypeOK' /\ Elsewhere(i) /\ Unheard(i)
  BY <1>1, <1>2, <1>3 DEF TypeOK, Elsewhere, Unheard
<1>5. SameFate(tx[i], tx'[i])
  BY DEF SameFate
<1>6. \/ c.pc = call[i].pc /\ c.end = call[i].end
      \/ /\ call[i].pc # "settling"
         /\ \/ c.end = call[i].end
            \/ c.end \in {"refused", "timeout", "conflict", "rebind", "stored"}
  OBVIOUS
<1>7. Own(i)'
  BY <1>1, <1>2, <1>3, <1>4, <1>5, <1>6, DispatchKeeps
<1>. QED BY <1>3, <1>4, <1>7, StepKeeps

(* The facts of a call that has not settled yet.                           *)
LEMMA Moving ==
  ASSUME KeyInvariant, NEW i \in Calls
  PROVE  /\ TypeOK /\ call[i] \in Call /\ Tries(i)
         /\ call[i].stored # None => row = call[i].stored
         /\ call[i].end = "stored" => call[i].stored # None
  BY DEF KeyInvariant, TypeOK, Own, Knows

Going(c, pc) == [c EXCEPT !.pc = pc]

LEMMA GoingMade ==
  ASSUME NEW c \in Call, NEW pc \in Pcs
  PROVE  LET d == Going(c, pc) IN
         /\ d \in Call /\ d.pc = pc /\ d.end = c.end /\ d.stored = c.stored
         /\ d.tries = c.tries /\ d.uncertain = c.uncertain
  BY DEF Going, Call

LEMMA ArriveKeeps ==
  ASSUME KeyInvariant, NEW i \in Calls, Arrive(i)
  PROVE  KeyInvariant'
<1>. DEFINE c == Going(call[i], "begin")
<1>1. /\ call[i].pc = "idle" /\ UNCHANGED <<tx, srv, row, log, posted, answer>>
      /\ call' = [call EXCEPT ![i] = c]
  BY DEF Arrive, Going
<1>2. "begin" \in Pcs /\ "begin" \in Active
  BY DEF Pcs, Active, Dispatching
<1>3. /\ c \in Call /\ c.pc = "begin" /\ c.end = call[i].end
      /\ c.stored = call[i].stored /\ c.tries = call[i].tries
  BY <1>2, Moving, GoingMade
<1>4. c.tries < MaxAttempts
  BY <1>1, <1>3, Moving DEF Tries
<1>. HIDE DEF c
<1>. QED BY <1>1, <1>2, <1>3, <1>4, Moving, MovesKeep

Journaled(c) == [c EXCEPT !.pc = "lookup", !.logged = TRUE]

LEMMA BeginKeeps ==
  ASSUME KeyInvariant, NEW i \in Calls, Begin(i)
  PROVE  KeyInvariant'
<1>1. CASE EndsWith(i, "refused", tx[i]) /\ UNCHANGED log
  <2>1. TypeOK /\ tx[i] \in Tx /\ SameFate(tx[i], tx[i])
    BY TxSame DEF KeyInvariant
  <2>2. call[i].pc \in Dispatching /\ UNCHANGED <<srv, row, posted, answer>>
    BY DEF Begin, Dispatching
  <2>. QED BY <1>1, <2>1, <2>2, EndsKeep
<1>2. CASE ~(EndsWith(i, "refused", tx[i]) /\ UNCHANGED log)
  <2>. DEFINE c == Journaled(call[i])
  <2>1. /\ call[i].pc = "begin" /\ UNCHANGED <<tx, srv, row, posted, answer>>
        /\ log' = [log EXCEPT ![i].outcome = "pending"]
        /\ call' = [call EXCEPT ![i] = c]
    BY <1>2 DEF Begin, Journaled
  <2>2. call[i].pc \in Active /\ "lookup" \in Active
    BY <2>1 DEF Active, Dispatching
  <2>3. /\ c \in Call /\ c.pc = "lookup" /\ c.end = call[i].end
        /\ c.stored = call[i].stored /\ c.tries = call[i].tries
    <3>1. call[i] \in Call /\ "lookup" \in Pcs
      BY Moving DEF Pcs, Dispatching
    <3>. QED BY <3>1 DEF Journaled, Call
  <2>4. c.tries < MaxAttempts
    BY <2>1, <2>3, Moving DEF Tries
  <2>. HIDE DEF c
  <2>. QED BY <2>1, <2>2, <2>3, <2>4, Moving, MovesKeep
<1>. QED BY <1>1, <1>2

Finding(c, pc, who) == [c EXCEPT !.pc = pc, !.end = "stored", !.stored = who]

LEMMA FindingMade ==
  ASSUME NEW c \in Call, NEW pc \in Pcs, NEW who \in Calls
  PROVE  LET d == Finding(c, pc, who) IN
         /\ d \in Call /\ d.pc = pc /\ d.end = "stored" /\ d.stored = who
         /\ d.tries = c.tries /\ d.uncertain = c.uncertain
<1>1. "stored" \in Ends
  BY DEF Ends
<1>. QED BY <1>1 DEF Finding, Call

LEMMA FindsCommitKeeps ==
  ASSUME KeyInvariant, NEW i \in Calls, FindsCommit(i)
  PROVE  KeyInvariant'
<1>. DEFINE c == Finding(call[i], "settling", row)
<1>1. /\ call[i].pc = "lookup" /\ row # None
      /\ UNCHANGED <<tx, srv, row, log, posted, answer>>
      /\ call' = [call EXCEPT ![i] = c]
  BY DEF FindsCommit, Finding
<1>2. row \in Calls /\ call[i] \in Call
  BY <1>1, Moving DEF TypeOK
<1>3. "settling" \in Pcs /\ "settling" \in Active /\ call[i].pc \in Active
  BY <1>1 DEF Pcs, Active, Dispatching
<1>4. /\ c \in Call /\ c.pc = "settling" /\ c.end = "stored" /\ c.stored = row
  BY <1>2, <1>3, FindingMade
<1>. HIDE DEF c
<1>. QED BY <1>1, <1>2, <1>3, <1>4, MovesKeep

Invoking(c, tries) == [c EXCEPT !.pc = "running", !.cap = "live", !.tries = tries]

LEMMA InvokeKeeps ==
  ASSUME KeyInvariant, NEW i \in Calls, Invoke(i)
  PROVE  KeyInvariant'
<1>. DEFINE tries == call[i].tries + 1
            c == Invoking(call[i], tries)
<1>1. /\ call[i].pc = "lookup"
      /\ UNCHANGED <<tx, srv, row, log, posted, answer>>
      /\ call' = [call EXCEPT ![i] = c]
  BY DEF Invoke, Invoking
<1>2. call[i] \in Call /\ call[i].tries \in 0..MaxAttempts
  BY Moving DEF Call
<1>3. tries \in 0..MaxAttempts /\ tries # 0
  BY <1>1, <1>2, Moving, AttemptsAssumption DEF Tries
<1>. HIDE DEF tries
<1>4. "running" \in Pcs /\ "running" \in Active /\ call[i].pc \in Active
  BY <1>1 DEF Pcs, Active, Dispatching
<1>5. /\ c \in Call /\ c.pc = "running" /\ c.end = call[i].end
      /\ c.stored = call[i].stored /\ c.tries = tries
  BY <1>2, <1>3, <1>4 DEF Call, Invoking
<1>. HIDE DEF c
<1>. QED BY <1>1, <1>3, <1>4, <1>5, Moving, MovesKeep

LatePassed(c) == [c EXCEPT !.late = TRUE]

LEMMA DeadlinePassesKeeps ==
  ASSUME KeyInvariant, NEW i \in Calls, DeadlinePasses(i)
  PROVE  KeyInvariant'
<1>. DEFINE c == LatePassed(call[i])
<1>1. /\ call[i].pc \in Active
      /\ UNCHANGED <<tx, srv, row, log, posted, answer>>
      /\ call' = [call EXCEPT ![i] = c]
  BY DEF DeadlinePasses, LatePassed, Active
<1>2. call[i] \in Call
  BY Moving
<1>3. /\ c \in Call /\ c.pc = call[i].pc /\ c.end = call[i].end
      /\ c.stored = call[i].stored /\ c.tries = call[i].tries
  BY <1>2 DEF Call, LatePassed
<1>. HIDE DEF c
<1>4. /\ c.pc \in {"begin", "lookup"} => c.tries < MaxAttempts
      /\ c.pc = "running" => c.tries # 0
      /\ c.pc = "settling" /\ c.end = "rebind" => c.tries # 0
  BY <1>3, Moving DEF Tries
<1>. QED BY <1>1, <1>3, <1>4, Moving, MovesKeep

-----------------------------------------------------------------------------
(* The steps of a transaction's owner *)

Sessions == {"none", "open", "keyed", "sent", "committed", "aborted"}

(* What OwnerEnds does to the owner, and to a call that awaits its reply.  *)
LEMMA OwnerEndsMove ==
  ASSUME TypeOK, NEW i \in Calls, NEW u \in Tx, NEW e \in Ends,
         OwnerEnds(i, u, e) \/ (tx' = [tx EXCEPT ![i] = u] /\ UNCHANGED call)
  PROVE  /\ call' \in [Calls -> Call] /\ tx' \in [Calls -> Tx]
         /\ \A j \in Calls \ {i} : call'[j] = call[j] /\ tx'[j] = tx[j]
         /\ SameFate(u, tx'[i])
         /\ \/ call'[i] = call[i]
            \/ /\ call[i].pc = "completing" /\ call'[i].pc = "settling"
               /\ call'[i].end = e /\ call'[i].stored = call[i].stored
<1>1. CASE call[i].pc = "completing" /\ EndsWith(i, e, u)
  BY <1>1, EndsMove
<1>2. CASE tx' = [tx EXCEPT ![i] = u] /\ UNCHANGED call
  BY <1>2 DEF TypeOK, SameFate
<1>. QED BY <1>1, <1>2 DEF OwnerEnds

(* The owner reaches u, and its session s; whoever awaits it learns e.     *)
LEMMA OwnerStep ==
  ASSUME KeyInvariant, NEW i \in Calls, NEW u \in Tx, NEW s \in Sessions,
         NEW e \in {"none", "ok", "refused", "conflict", "keyrace"},
         tx[i].owner \notin {"none", "ended"},
         u.destroyed = tx[i].destroyed \/ u.destroyed,
         \/ tx[i].owner \notin {"opening", "unopening"} \/ u.owner = "ended"
         \/ ~tx[i].cancelled
         \/ u.owner = "unopening" /\ u.cancelled,
         OwnerEnds(i, u, e) \/ (tx' = [tx EXCEPT ![i] = u] /\ UNCHANGED call),
         srv' = [srv EXCEPT ![i] = s],
         UNCHANGED <<row, log, posted, answer>>,
         FateOf(u, s, FALSE),
         \/ s = srv[i]
         \/ srv[i] # "committed" /\ s \in {"none", "open", "aborted"}
         \/ srv[i] = "keyed" /\ s = "sent",
         e = "ok" => row = i,
         e = "keyrace" => u.owner = "ended" /\ s \in {"open", "aborted"}
  PROVE  KeyInvariant'
<1>1. TypeOK /\ Own(i) /\ e \in Ends
  BY DEF KeyInvariant, Ends
<1>2. /\ call' \in [Calls -> Call] /\ tx' \in [Calls -> Tx]
      /\ \A j \in Calls \ {i} : call'[j] = call[j] /\ tx'[j] = tx[j]
      /\ SameFate(u, tx'[i])
      /\ \/ call'[i] = call[i]
         \/ /\ call[i].pc = "completing" /\ call'[i].pc = "settling"
            /\ call'[i].end = e /\ call'[i].stored = call[i].stored
  BY <1>1, OwnerEndsMove
<1>3. /\ srv' \in [Calls -> Sessions] /\ srv'[i] = s
      /\ \A j \in Calls \ {i} : srv'[j] = srv[j]
  BY <1>1 DEF TypeOK, Sessions
<1>4. TypeOK' /\ Elsewhere(i) /\ Unheard(i)
  BY <1>1, <1>2, <1>3 DEF TypeOK, Elsewhere, Unheard, Sessions
<1>5. Fate(i)'
  BY <1>2, <1>3 DEF Fate, FateOf, SameFate
<1>6. /\ tx'[i].destroyed = tx[i].destroyed \/ tx'[i].destroyed
      /\ Left(tx[i]) => Left(tx'[i])
  BY <1>2 DEF SameFate, Left
<1>7. e = "keyrace" => tx'[i].owner = "ended" /\ srv'[i] \in {"open", "aborted"}
  BY <1>2, <1>3 DEF SameFate
<1>8. Own(i)'
  BY <1>1, <1>2, <1>4, <1>5, <1>6, <1>7, OwnerKeeps
<1>. QED BY <1>3, <1>4, <1>8, StepKeeps

(* What is known of a transaction before its owner's step.                 *)
LEMMA Owning ==
  ASSUME KeyInvariant, NEW i \in Calls
  PROVE  /\ tx[i] \in Tx /\ srv[i] \in Sessions
         /\ srv' = srv => srv' = [srv EXCEPT ![i] = srv[i]]
         /\ FateOf(tx[i], srv[i], call[i].pc = "dead")
         /\ row = i <=> srv[i] = "committed"
  BY DEF KeyInvariant, TypeOK, Sessions, Own, Fate, RowCommitted

Opened(t, final) == [t EXCEPT !.owner = "ready", !.final = final]

LEMMA OpenKeeps ==
  ASSUME KeyInvariant, NEW i \in Calls, Open(i)
  PROVE  KeyInvariant'
<1>. DEFINE final == call[i].pc = "completing"
            u == Opened(tx[i], final)
<1>1. /\ tx[i].owner = "opening" /\ ~tx[i].cancelled /\ srv[i] # "none"
      /\ UNCHANGED <<call, srv, row, log, posted, answer>>
      /\ tx' = [tx EXCEPT ![i] = u]
  BY DEF Open, Opened
<1>2. /\ tx[i] \in Tx /\ FateOf(tx[i], srv[i], call[i].pc = "dead") /\ final \in BOOLEAN
      /\ srv[i] \in Sessions /\ srv' = [srv EXCEPT ![i] = srv[i]]
  BY <1>1, Owning
<1>. HIDE DEF final
<1>3. /\ u \in Tx /\ u.owner = "ready" /\ u.committed = tx[i].committed
      /\ u.unknown = tx[i].unknown /\ u.destroyed = tx[i].destroyed
  BY <1>2 DEF Opened, Tx, Owners, Opening
<1>. HIDE DEF u
<1>4. FateOf(u, srv[i], FALSE)
  BY <1>1, <1>2, <1>3 DEF FateOf
<1>. QED BY <1>1, <1>2, <1>3, <1>4, OwnerStep

OwnerAt(t, owner) == [t EXCEPT !.owner = owner]

LEMMA OwnerAtMade ==
  ASSUME NEW t \in Tx, NEW owner \in Owners
  PROVE  LET u == OwnerAt(t, owner) IN
         /\ u \in Tx /\ u.owner = owner /\ u.committed = t.committed
         /\ u.unknown = t.unknown /\ u.destroyed = t.destroyed /\ u.fail = t.fail
  BY DEF OwnerAt, Tx

LEMMA OpenFailsKeeps ==
  ASSUME KeyInvariant, NEW i \in Calls, OpenFails(i)
  PROVE  KeyInvariant'
<1>1. PICK left \in {"ended", "unopening"} :
        /\ left = "ended" => srv[i] = "none"
        /\ OwnerEnds(i, OwnerAt(Closed(tx[i]), left), "refused")
  BY DEF OpenFails, OwnerAt
<1>. DEFINE t == Closed(tx[i])
            u == OwnerAt(t, left)
<1>2. tx[i].owner = "opening" /\ UNCHANGED <<srv, row, log, posted, answer>>
  BY DEF OpenFails
<1>3. /\ tx[i] \in Tx /\ FateOf(tx[i], srv[i], call[i].pc = "dead")
      /\ srv[i] \in Sessions /\ srv' = [srv EXCEPT ![i] = srv[i]]
  BY <1>2, Owning
<1>4. t \in Tx /\ SameFate(tx[i], t)
  BY <1>3, ClosedMade
<1>5. left \in Owners
  BY DEF Owners, Opening
<1>6. /\ u \in Tx /\ u.owner = left /\ u.committed = tx[i].committed
      /\ u.unknown = tx[i].unknown /\ u.destroyed = tx[i].destroyed
      /\ tx[i].cancelled => u.cancelled
  <2>1. u.cancelled = t.cancelled
    BY <1>4 DEF OwnerAt, Tx
  <2>. QED BY <1>4, <1>5, <2>1, OwnerAtMade DEF SameFate
<1>7. OwnerEnds(i, u, "refused")
  BY <1>1
<1>. HIDE DEF t, u
<1>8. FateOf(u, srv[i], FALSE)
  BY <1>1, <1>2, <1>3, <1>6 DEF FateOf
<1>. QED BY <1>2, <1>3, <1>6, <1>7, <1>8, OwnerStep

LostOpening(t) == [t EXCEPT !.owner = "ended", !.destroyed = TRUE]

LEMMA UnopenKeeps ==
  ASSUME KeyInvariant, NEW i \in Calls, Unopen(i)
  PROVE  KeyInvariant'
<1>1. tx[i].owner = "unopening" /\ UNCHANGED <<call, row, log, posted, answer>>
  BY DEF Unopen
<1>2. /\ tx[i] \in Tx /\ FateOf(tx[i], srv[i], call[i].pc = "dead")
      /\ srv[i] \in Sessions /\ (srv' = srv => srv' = [srv EXCEPT ![i] = srv[i]])
      /\ "aborted" \in Sessions
  BY Owning DEF Sessions
<1>3. CASE /\ tx' = [tx EXCEPT ![i] = OwnerAt(tx[i], "ended")]
           /\ srv' = [srv EXCEPT ![i] = "aborted"]
  <2>. DEFINE u == OwnerAt(tx[i], "ended")
  <2>1. /\ u \in Tx /\ u.owner = "ended" /\ u.committed = tx[i].committed
        /\ u.unknown = tx[i].unknown /\ u.destroyed = tx[i].destroyed
    BY <1>2, OwnerAtMade DEF Owners, Opening
  <2>2. tx' = [tx EXCEPT ![i] = u] /\ srv' = [srv EXCEPT ![i] = "aborted"]
    BY <1>3
  <2>. HIDE DEF u
  <2>3. FateOf(u, "aborted", FALSE) /\ srv[i] # "committed"
    BY <1>1, <1>2, <2>1 DEF FateOf
  <2>. QED BY <1>1, <1>2, <2>1, <2>2, <2>3, OwnerStep
<1>4. CASE tx' = [tx EXCEPT ![i] = LostOpening(tx[i])] /\ UNCHANGED srv
  <2>. DEFINE u == LostOpening(tx[i])
  <2>1. /\ u \in Tx /\ u.owner = "ended" /\ u.committed = tx[i].committed
        /\ u.unknown = tx[i].unknown /\ u.destroyed
    BY <1>2 DEF LostOpening, Tx, Owners
  <2>2. tx' = [tx EXCEPT ![i] = u] /\ srv' = [srv EXCEPT ![i] = srv[i]]
    BY <1>2, <1>4
  <2>. HIDE DEF u
  <2>3. FateOf(u, srv[i], FALSE)
    BY <1>1, <1>2, <2>1 DEF FateOf
  <2>. QED BY <1>1, <1>2, <2>1, <2>2, <2>3, OwnerStep
<1>. QED BY <1>3, <1>4 DEF Unopen, OwnerAt, LostOpening

LEMMA ReleaseKeeps ==
  ASSUME KeyInvariant, NEW i \in Calls, Release(i)
  PROVE  KeyInvariant'
<1>. DEFINE u == OwnerAt(tx[i], "ended")
<1>1. /\ tx[i].owner = "closing" /\ UNCHANGED <<call, srv, row, log, posted, answer>>
      /\ tx' = [tx EXCEPT ![i] = u]
  BY DEF Release, OwnerAt
<1>2. /\ tx[i] \in Tx /\ FateOf(tx[i], srv[i], call[i].pc = "dead")
      /\ srv[i] \in Sessions /\ srv' = [srv EXCEPT ![i] = srv[i]]
  BY <1>1, Owning
<1>3. /\ u \in Tx /\ u.owner = "ended" /\ u.committed = tx[i].committed
      /\ u.unknown = tx[i].unknown /\ u.destroyed = tx[i].destroyed
  BY <1>2, OwnerAtMade DEF Owners, Opening
<1>. HIDE DEF u
<1>4. FateOf(u, srv[i], FALSE)
  BY <1>1, <1>2, <1>3 DEF FateOf
<1>. QED BY <1>1, <1>2, <1>3, <1>4, OwnerStep

(* An owner that fails before its rollback.                                *)
Failing(t, why) == [t EXCEPT !.owner = "rolling", !.job = "none", !.fail = why]

LEMMA OwnerFailsKeeps ==
  ASSUME KeyInvariant, NEW i \in Calls, NEW why \in {"refused", "conflict", "keyrace"},
         OwnerFails(i, why), UNCHANGED <<call, srv, row, log, posted, answer>>,
         tx[i].owner \in {"ready", "saving", "committing"},
         why = "keyrace" => tx[i].owner = "saving" /\ srv[i] = "open"
  PROVE  KeyInvariant'
<1>. DEFINE t == Closed(tx[i])
            u == Failing(t, why)
<1>1. tx' = [tx EXCEPT ![i] = u]
  BY DEF OwnerFails, Failing
<1>2. /\ tx[i] \in Tx /\ FateOf(tx[i], srv[i], call[i].pc = "dead")
      /\ srv[i] \in Sessions /\ srv' = [srv EXCEPT ![i] = srv[i]]
  BY Owning
<1>3. t \in Tx /\ SameFate(tx[i], t)
  BY <1>2, ClosedMade
<1>. HIDE DEF t
<1>4. /\ u \in Tx /\ u.owner = "rolling" /\ u.committed = t.committed
      /\ u.unknown = t.unknown /\ u.destroyed = t.destroyed /\ u.fail = why
  BY <1>3 DEF Failing, Tx, Owners, Opening
<1>. HIDE DEF u
<1>5. FateOf(u, srv[i], FALSE) /\ u.destroyed = tx[i].destroyed
  BY <1>2, <1>3, <1>4 DEF FateOf, SameFate
<1>. QED BY <1>1, <1>2, <1>4, <1>5, OwnerStep

LEMMA SaveKeeps ==
  ASSUME KeyInvariant, NEW i \in Calls, Save(i)
  PROVE  KeyInvariant'
<1>1. tx[i].owner = "ready" /\ UNCHANGED <<call, srv, row, log, posted, answer>>
  BY DEF Save
<1>2. CASE OwnerFails(i, "conflict")
  BY <1>1, <1>2, OwnerFailsKeeps
<1>3. CASE ~OwnerFails(i, "conflict")
  <2>. DEFINE u == OwnerAt(tx[i], "saving")
  <2>1. tx' = [tx EXCEPT ![i] = u]
    BY <1>3 DEF Save, OwnerAt
  <2>2. /\ tx[i] \in Tx /\ FateOf(tx[i], srv[i], call[i].pc = "dead")
        /\ srv[i] \in Sessions /\ srv' = [srv EXCEPT ![i] = srv[i]]
    BY <1>1, Owning
  <2>3. /\ u \in Tx /\ u.owner = "saving" /\ u.committed = tx[i].committed
        /\ u.unknown = tx[i].unknown /\ u.destroyed = tx[i].destroyed
    BY <2>2, OwnerAtMade DEF Owners, Opening
  <2>. HIDE DEF u
  <2>4. FateOf(u, srv[i], FALSE)
    BY <1>1, <2>2, <2>3 DEF FateOf
  <2>. QED BY <1>1, <2>1, <2>2, <2>3, <2>4, OwnerStep
<1>. QED BY <1>2, <1>3

LEMMA SaveFailsKeeps ==
  ASSUME KeyInvariant, NEW i \in Calls, SaveFails(i)
  PROVE  KeyInvariant'
<1>1. /\ tx[i].owner = "saving" /\ UNCHANGED <<call, srv, row, log, posted, answer>>
      /\ \/ OwnerFails(i, "keyrace") /\ srv[i] = "open"
         \/ OwnerFails(i, "conflict")
         \/ OwnerFails(i, "refused")
  BY DEF SaveFails
<1>. QED BY <1>1, OwnerFailsKeeps

LEMMA CommitUnknownKeeps ==
  ASSUME KeyInvariant, NEW i \in Calls, CommitUnknown(i)
  PROVE  KeyInvariant'
  BY OwnerFailsKeeps DEF CommitUnknown

LEMMA OwnerInterruptedKeeps ==
  ASSUME KeyInvariant, NEW i \in Calls, OwnerInterrupted(i)
  PROVE  KeyInvariant'
  BY OwnerFailsKeeps DEF OwnerInterrupted

Sending(t) == [t EXCEPT !.owner = "committing", !.unknown = TRUE]

LEMMA SendCommitKeeps ==
  ASSUME KeyInvariant, NEW i \in Calls, SendCommit(i)
  PROVE  KeyInvariant'
<1>. DEFINE u == Sending(tx[i])
<1>1. /\ tx[i].owner = "saving" /\ srv[i] = "keyed"
      /\ UNCHANGED <<call, row, log, posted, answer>>
      /\ tx' = [tx EXCEPT ![i] = u] /\ srv' = [srv EXCEPT ![i] = "sent"]
  BY DEF SendCommit, Sending
<1>2. tx[i] \in Tx /\ FateOf(tx[i], srv[i], call[i].pc = "dead") /\ "sent" \in Sessions
  BY Owning DEF Sessions
<1>3. /\ u \in Tx /\ u.owner = "committing" /\ u.committed = tx[i].committed
      /\ u.unknown /\ u.destroyed = tx[i].destroyed
  BY <1>2 DEF Sending, Tx, Owners, Opening
<1>. HIDE DEF u
<1>4. FateOf(u, "sent", FALSE)
  BY <1>1, <1>2, <1>3 DEF FateOf
<1>. QED BY <1>1, <1>2, <1>3, <1>4, OwnerStep

Decided(t, committed) ==
  [t EXCEPT !.owner = "closing", !.unknown = FALSE, !.committed = committed]

LEMMA DecidedMade ==
  ASSUME NEW t \in Tx, NEW committed \in BOOLEAN
  PROVE  LET u == Decided(t, committed) IN
         /\ u \in Tx /\ u.owner = "closing" /\ u.committed = committed
         /\ ~u.unknown /\ u.destroyed = t.destroyed
  BY DEF Decided, Tx, Owners, Opening

LEMMA CommitAckedKeeps ==
  ASSUME KeyInvariant, NEW i \in Calls, CommitAcked(i)
  PROVE  KeyInvariant'
<1>. DEFINE u == Decided(tx[i], TRUE)
<1>1. /\ tx[i].owner = "committing" /\ srv[i] = "committed"
      /\ UNCHANGED <<srv, row, log, posted, answer>>
      /\ OwnerEnds(i, u, "ok")
  BY DEF CommitAcked, Decided
<1>2. /\ tx[i] \in Tx /\ srv[i] \in Sessions /\ srv' = [srv EXCEPT ![i] = srv[i]]
      /\ row = i
  BY <1>1, Owning
<1>3. /\ u \in Tx /\ u.owner = "closing" /\ u.committed
      /\ ~u.unknown /\ u.destroyed = tx[i].destroyed
  BY <1>2, DecidedMade
<1>. HIDE DEF u
<1>4. FateOf(u, srv[i], FALSE)
  BY <1>1, <1>2, <1>3 DEF FateOf
<1>. QED BY <1>1, <1>2, <1>3, <1>4, OwnerStep

LEMMA CommitRejectedKeeps ==
  ASSUME KeyInvariant, NEW i \in Calls, CommitRejected(i)
  PROVE  KeyInvariant'
<1>. DEFINE u == Decided(tx[i], tx[i].committed)
<1>1. /\ tx[i] \in Tx /\ FateOf(tx[i], srv[i], call[i].pc = "dead")
      /\ tx[i].committed \in BOOLEAN
  BY Owning DEF Tx
<1>2. [tx[i] EXCEPT !.owner = "closing", !.unknown = FALSE] = u
  BY <1>1 DEF Decided, Tx
<1>3. /\ tx[i].owner = "committing" /\ srv[i] = "aborted"
      /\ UNCHANGED <<srv, row, log, posted, answer>>
      /\ OwnerEnds(i, u, "refused") \/ OwnerEnds(i, u, "conflict")
  BY <1>2 DEF CommitRejected
<1>4. srv[i] \in Sessions /\ srv' = [srv EXCEPT ![i] = srv[i]]
  BY <1>3, Owning
<1>5. /\ u \in Tx /\ u.owner = "closing" /\ u.committed = tx[i].committed
      /\ ~u.unknown /\ u.destroyed = tx[i].destroyed
  BY <1>1, DecidedMade
<1>. HIDE DEF u
<1>6. FateOf(u, srv[i], FALSE)
  BY <1>1, <1>3, <1>5 DEF FateOf
<1>. QED BY <1>3, <1>4, <1>5, <1>6, OwnerStep

Undone(t) == [t EXCEPT !.owner = "ended", !.fail = "none"]
Lost(t) == [t EXCEPT !.owner = "ended", !.fail = "none",
                     !.unknown = TRUE, !.destroyed = TRUE]

LEMMA RollbackKeeps ==
  ASSUME KeyInvariant, NEW i \in Calls, Rollback(i)
  PROVE  KeyInvariant'
<1>1. /\ tx[i] \in Tx /\ FateOf(tx[i], srv[i], call[i].pc = "dead")
      /\ srv[i] \in Sessions /\ (srv' = srv => srv' = [srv EXCEPT ![i] = srv[i]])
      /\ "aborted" \in Sessions
  BY Owning DEF Sessions
<1>2. tx[i].owner = "rolling" /\ UNCHANGED <<row, log, posted, answer>>
  BY DEF Rollback
<1>3. PICK e \in {"none", "ok", "refused", "conflict", "keyrace"} :
        tx[i].fail = e /\ e # "ok"
  BY <1>1 DEF Tx
<1>4. e = "keyrace" => ~tx[i].unknown /\ srv[i] \in {"open", "aborted"}
  BY <1>1, <1>2, <1>3 DEF FateOf
<1>5. CASE /\ ~tx[i].unknown /\ OwnerEnds(i, Undone(tx[i]), e)
           /\ srv' = [srv EXCEPT ![i] = "aborted"]
  <2>. DEFINE u == Undone(tx[i])
  <2>1. /\ u \in Tx /\ u.owner = "ended" /\ u.committed = tx[i].committed
        /\ u.unknown = tx[i].unknown /\ u.destroyed = tx[i].destroyed
    BY <1>1 DEF Undone, Tx, Owners, Opening
  <2>2. OwnerEnds(i, u, e) /\ srv' = [srv EXCEPT ![i] = "aborted"]
    BY <1>5
  <2>. HIDE DEF u
  <2>3. FateOf(u, "aborted", FALSE) /\ srv[i] # "committed"
    BY <1>1, <1>2, <1>5, <2>1 DEF FateOf
  <2>. QED BY <1>1, <1>2, <1>3, <2>1, <2>2, <2>3, OwnerStep
<1>6. CASE OwnerEnds(i, Lost(tx[i]), e) /\ UNCHANGED srv
  <2>. DEFINE u == Lost(tx[i])
  <2>1. /\ u \in Tx /\ u.owner = "ended" /\ u.committed = tx[i].committed
        /\ u.unknown /\ u.destroyed
    BY <1>1 DEF Lost, Tx, Owners, Opening
  <2>2. OwnerEnds(i, u, e) /\ srv' = [srv EXCEPT ![i] = srv[i]]
    BY <1>1, <1>6
  <2>. HIDE DEF u
  <2>3. FateOf(u, srv[i], FALSE)
    BY <1>1, <1>2, <2>1 DEF FateOf
  <2>. QED BY <1>1, <1>2, <1>3, <1>4, <2>1, <2>2, <2>3, OwnerStep
<1>. QED BY <1>3, <1>5, <1>6 DEF Rollback, Undone, Lost

-----------------------------------------------------------------------------
(* The database, the callbacks and the fences *)

LEMMA BegunKeeps ==
  ASSUME KeyInvariant, NEW i \in Calls, Begun(i)
  PROVE  KeyInvariant'
<1>1. /\ TypeOK /\ Own(i) /\ srv[i] = "none"
      /\ tx[i].owner \in {"opening", "unopening"}
  BY DEF KeyInvariant, Begun, Opening
<1>2. /\ UNCHANGED <<call, tx, row, log, posted, answer>>
      /\ srv' \in [Calls -> Sessions] /\ srv'[i] = "open"
      /\ \A j \in Calls \ {i} : srv'[j] = srv[j]
  BY <1>1 DEF Begun, TypeOK, Sessions
<1>3. TypeOK' /\ Elsewhere(i) /\ Unheard(i)
  BY <1>1, <1>2 DEF TypeOK, Sessions, Elsewhere, Unheard
<1>4. Fate(i)'
  BY <1>1, <1>2 DEF Own, Fate, FateOf
<1>5. "refused" \in Ends
  BY DEF Ends
<1>6. Left(tx[i]) => Left(tx'[i])
  BY <1>2
<1>7. Own(i)'
  BY <1>1, <1>2, <1>3, <1>4, <1>5, <1>6, OwnerKeeps
<1>. QED BY <1>1, <1>2, <1>3, <1>7, StepKeeps

LEMMA AbortsKeeps ==
  ASSUME KeyInvariant, NEW i \in Calls, Aborts(i)
  PROVE  KeyInvariant'
<1>1. TypeOK /\ Own(i) /\ srv[i] \in {"open", "keyed", "sent"}
  BY DEF KeyInvariant, Aborts
<1>2. /\ UNCHANGED <<call, tx, row, log, posted, answer>>
      /\ srv' \in [Calls -> Sessions] /\ srv'[i] = "aborted"
      /\ \A j \in Calls \ {i} : srv'[j] = srv[j]
  BY <1>1 DEF Aborts, TypeOK, Sessions
<1>3. TypeOK' /\ Elsewhere(i)
  BY <1>1, <1>2 DEF TypeOK, Sessions, Elsewhere
<1>4. Inert(i) => Inert(i)'
  BY <1>2 DEF Inert, OwnerSettled
<1>5. Fate(i)' /\ Tries(i)'
  BY <1>1, <1>2 DEF Own, Fate, FateOf, Tries
<1>6. Knows(i)' /\ Told(i)' /\ Logged(i)'
  BY <1>1, <1>2, <1>4 DEF Own, Knows, OwnerSettled, Told, Logged
<1>7. Own(i)'
  BY <1>5, <1>6 DEF Own
<1>. QED BY <1>1, <1>2, <1>3, <1>7, StepKeeps

LEMMA InsertKeyKeeps ==
  ASSUME KeyInvariant, NEW i \in Calls, InsertKey(i)
  PROVE  KeyInvariant'
<1>1. /\ TypeOK /\ Own(i) /\ RowCommitted /\ OneKey
      /\ tx[i].owner = "saving" /\ srv[i] = "open" /\ ~KeyLocked(i) /\ row = None
  BY DEF KeyInvariant, InsertKey
<1>2. /\ UNCHANGED <<call, tx, row, log, posted, answer>>
      /\ srv' \in [Calls -> Sessions] /\ srv'[i] = "keyed"
      /\ \A j \in Calls \ {i} : srv'[j] = srv[j]
  BY <1>1 DEF InsertKey, TypeOK, Sessions
<1>3. TypeOK' /\ Elsewhere(i) /\ Unheard(i)
  BY <1>1, <1>2 DEF TypeOK, Sessions, Elsewhere, Unheard
<1>4. \A j \in Calls \ {i} : srv[j] \notin {"keyed", "sent"}
  BY <1>1 DEF KeyLocked
<1>5. RowCommitted' /\ OneKey'
  BY <1>1, <1>2, <1>4 DEF RowCommitted, OneKey, KeyLocked
<1>6. Fate(i)'
  BY <1>1, <1>2 DEF Own, Fate, FateOf
<1>7. "refused" \in Ends
  BY DEF Ends
<1>8. Own(i)'
  BY <1>1, <1>2, <1>3, <1>6, <1>7, OwnerKeeps
<1>9. \A j \in Calls \ {i} : Own(j)'
  BY <1>1, <1>2, <1>3, OthersKeep DEF KeyInvariant
<1>. QED BY <1>3, <1>5, <1>8, <1>9 DEF KeyInvariant

(* The one step that writes the key's row: nobody else held the key, and   *)
(* nobody had been told of a commit.                                       *)
LEMMA CommitsKeeps ==
  ASSUME KeyInvariant, NEW i \in Calls, Commits(i)
  PROVE  KeyInvariant'
<1>1. /\ TypeOK /\ Own(i) /\ RowCommitted /\ OneKey /\ srv[i] = "sent"
      /\ i # None /\ row' = i
  BY CallsAssumption DEF KeyInvariant, Commits
<1>2. /\ UNCHANGED <<call, tx, log, posted, answer>>
      /\ srv' \in [Calls -> Sessions] /\ srv'[i] = "committed"
      /\ \A j \in Calls \ {i} : srv'[j] = srv[j]
  BY <1>1 DEF Commits, TypeOK, Sessions
<1>3. TypeOK' /\ Elsewhere(i)
  BY <1>1, <1>2 DEF TypeOK, Sessions, Elsewhere
<1>4. row = None /\ \A j \in Calls \ {i} : srv[j] \notin {"keyed", "sent"}
  BY <1>1 DEF OneKey, KeyLocked
<1>5. \A j \in Calls : srv[j] # "committed"
  BY <1>1, <1>4, CallsAssumption DEF RowCommitted
<1>6. RowCommitted' /\ OneKey'
  BY <1>1, <1>2, <1>4, <1>5 DEF RowCommitted, OneKey
<1>7. ~Inert(i)
  BY <1>1 DEF Inert
<1>8. Fate(i)' /\ Tries(i)'
  BY <1>1, <1>2 DEF Own, Fate, FateOf, Tries
<1>9. Knows(i)'
  BY <1>1, <1>2, <1>4, <1>7 DEF Own, Knows, OwnerSettled
<1>10. Told(i)' /\ Logged(i)'
  BY <1>1, <1>2, <1>4, <1>7 DEF Own, Told, Logged
<1>11. Own(i)'
  BY <1>8, <1>9, <1>10 DEF Own
<1>12. \A j \in Calls \ {i} : Own(j)'
  BY <1>1, <1>2, <1>3, <1>4, OthersKeep DEF KeyInvariant
<1>. QED BY <1>3, <1>6, <1>11, <1>12 DEF KeyInvariant

(* The transaction is marked, and the call at most fenced.                 *)
LEMMA QuietStep ==
  ASSUME KeyInvariant, NEW i \in Calls, NEW u \in Tx, SameFate(tx[i], u),
         tx' = [tx EXCEPT ![i] = u],
         UNCHANGED call \/ call' = [call EXCEPT ![i].cap = "fenced"],
         UNCHANGED <<srv, row, log, posted, answer>>
  PROVE  KeyInvariant'
<1>1. TypeOK /\ Own(i) /\ call[i] \in Call
  BY DEF KeyInvariant, TypeOK
<1>. DEFINE c == [call[i] EXCEPT !.cap = "fenced"]
<1>2. /\ c \in Call /\ c.pc = call[i].pc /\ c.end = call[i].end
      /\ c.stored = call[i].stored /\ c.tries = call[i].tries
      /\ c.uncertain = call[i].uncertain
  BY <1>1 DEF Call
<1>3. UNCHANGED call \/ call' = [call EXCEPT ![i] = c]
  OBVIOUS
<1>. HIDE DEF c
<1>4. /\ call' \in [Calls -> Call]
      /\ \A j \in Calls \ {i} : call'[j] = call[j]
      /\ call'[i].pc = call[i].pc /\ call'[i].end = call[i].end
      /\ call'[i].stored = call[i].stored /\ call'[i].tries = call[i].tries
      /\ call'[i].uncertain = call[i].uncertain
  BY <1>1, <1>2, <1>3 DEF TypeOK
<1>5. TypeOK' /\ Elsewhere(i) /\ Unheard(i) /\ tx'[i] = u
  BY <1>1, <1>4 DEF TypeOK, Elsewhere, Unheard
<1>6. Own(i)'
  BY <1>1, <1>4, <1>5, QuietKeeps
<1>. QED BY <1>5, <1>6, StepKeeps

LEMMA FenceKeeps ==
  ASSUME KeyInvariant, NEW i \in Calls, Fence(i)
  PROVE  KeyInvariant'
<1>. DEFINE u == Cancelled(tx[i])
<1>1. /\ tx' = [tx EXCEPT ![i] = u] /\ call' = [call EXCEPT ![i].cap = "fenced"]
      /\ UNCHANGED <<srv, row, log, posted, answer>>
  BY DEF Fence
<1>2. u \in Tx /\ SameFate(tx[i], u)
  BY Owning, CancelledMade
<1>. HIDE DEF u
<1>. QED BY <1>1, <1>2, QuietStep

Taking(t, job) == [t EXCEPT !.job = job]

LEMMA TakeJobKeeps ==
  ASSUME KeyInvariant, NEW i \in Calls, TakeJob(i)
  PROVE  KeyInvariant'
<1>. DEFINE job == IF tx[i].closed THEN "none" ELSE "running"
            u == Taking(tx[i], job)
<1>1. tx' = [tx EXCEPT ![i] = u] /\ UNCHANGED <<call, srv, row, log, posted, answer>>
  BY DEF TakeJob, Taking
<1>2. tx[i] \in Tx /\ job \in {"none", "asked", "running"}
  BY Owning
<1>. HIDE DEF job
<1>3. u \in Tx /\ SameFate(tx[i], u)
  BY <1>2 DEF Taking, Tx, SameFate
<1>. HIDE DEF u
<1>. QED BY <1>1, <1>3, QuietStep

Answered(t, conflict, closed) ==
  [t EXCEPT !.job = "none", !.conflict = conflict, !.closed = closed]

LEMMA JobEndsKeeps ==
  ASSUME KeyInvariant, NEW i \in Calls, JobEnds(i)
  PROVE  KeyInvariant'
<1>1. PICK conflict \in BOOLEAN :
        tx' = [tx EXCEPT ![i].job = "none",
                         ![i].conflict = @ \/ conflict,
                         ![i].closed = @ \/ conflict]
  BY DEF JobEnds
<1>. DEFINE now == tx[i].conflict \/ conflict
            closed == tx[i].closed \/ conflict
            u == Answered(tx[i], now, closed)
<1>2. tx' = [tx EXCEPT ![i] = u] /\ UNCHANGED <<call, srv, row, log, posted, answer>>
  BY <1>1 DEF JobEnds, Answered
<1>3. tx[i] \in Tx /\ now \in BOOLEAN /\ closed \in BOOLEAN
  BY Owning
<1>. HIDE DEF now, closed
<1>4. u \in Tx /\ SameFate(tx[i], u)
  BY <1>3 DEF Answered, Tx, SameFate
<1>. HIDE DEF u
<1>. QED BY <1>2, <1>4, QuietStep

(* The owner of t is running in u, started now if none was.                *)
Started(t, u) ==
  /\ \/ u.owner = t.owner
     \/ t.owner = "none" /\ u.owner = "opening"
  /\ u.committed = t.committed /\ u.unknown = t.unknown
  /\ u.destroyed = t.destroyed /\ u.fail = t.fail

(* A running call's owner is started, or told that its reply is final.     *)
LEMMA StartsKeeps ==
  ASSUME KeyInvariant, NEW i \in Calls, NEW u \in Tx, tx' = [tx EXCEPT ![i] = u],
         Started(tx[i], u),
         call[i].pc = "running", NEW c \in Call, call' = [call EXCEPT ![i] = c],
         c.pc \in {"running", "completing"}, c.end = call[i].end,
         c.stored = call[i].stored, c.tries = call[i].tries,
         UNCHANGED <<srv, row, log, posted, answer>>
  PROVE  KeyInvariant'
<1>1. TypeOK /\ Own(i)
  BY DEF KeyInvariant
<1>2. /\ call' \in [Calls -> Call] /\ call'[i] = c
      /\ tx' \in [Calls -> Tx] /\ tx'[i] = u
      /\ \A j \in Calls \ {i} : call'[j] = call[j] /\ tx'[j] = tx[j]
  BY <1>1 DEF TypeOK
<1>3. TypeOK' /\ Elsewhere(i) /\ Unheard(i)
  BY <1>1, <1>2 DEF TypeOK, Elsewhere, Unheard
<1>4. ~Inert(i) /\ answer[i] = Untold /\ call[i].end # "keyrace"
  BY <1>1 DEF Inert, Own, Told, Knows, Late, Stopped
<1>5. Fate(i)'
  BY <1>1, <1>2 DEF Own, Fate, FateOf, Started
<1>6. Tries(i)' /\ Knows(i)'
  BY <1>1, <1>2, <1>4 DEF Own, Tries, Knows, Late, Stopped
<1>7. Told(i)' /\ Logged(i)'
  BY <1>1, <1>3, <1>4 DEF Own, Told, Logged, Unheard, Untold
<1>8. Own(i)'
  BY <1>5, <1>6, <1>7 DEF Own
<1>. QED BY <1>3, <1>8, StepKeeps

Asked(t, owner) == [t EXCEPT !.job = "asked", !.owner = owner]

LEMMA CallbackKeeps ==
  ASSUME KeyInvariant, NEW i \in Calls, Callback(i)
  PROVE  KeyInvariant'
<1>. DEFINE owner == IF tx[i].owner = "none" THEN "opening" ELSE tx[i].owner
            u == Asked(tx[i], owner)
<1>1. /\ call[i].pc = "running" /\ tx' = [tx EXCEPT ![i] = u]
      /\ UNCHANGED <<call, srv, row, log, posted, answer>>
  BY DEF Callback, Asked
<1>2. tx[i] \in Tx /\ owner \in Owners /\ call[i] \in Call
  BY Owning, Moving DEF Tx, Owners, Opening
<1>3. \/ owner = tx[i].owner
      \/ tx[i].owner = "none" /\ owner = "opening"
  OBVIOUS
<1>. HIDE DEF owner
<1>4. u \in Tx /\ Started(tx[i], u)
  BY <1>2, <1>3 DEF Asked, Tx, Started
<1>. HIDE DEF u
<1>5. call' = [call EXCEPT ![i] = call[i]]
  BY <1>1, Moving DEF TypeOK
<1>. QED BY <1>1, <1>2, <1>4, <1>5, StartsKeeps

Replied(t, owner, final) == [t EXCEPT !.owner = owner, !.final = final]

LEMMA GuestReturnsKeeps ==
  ASSUME KeyInvariant, NEW i \in Calls, GuestReturns(i)
  PROVE  KeyInvariant'
<1>. DEFINE owner == IF tx[i].owner = "none" THEN "opening" ELSE tx[i].owner
            final == tx[i].owner = "ready"
            t == Closed(tx[i])
            u == Replied(t, owner, final)
            c == Going(call[i], "completing")
<1>1. /\ call[i].pc = "running" /\ tx' = [tx EXCEPT ![i] = u]
      /\ call' = [call EXCEPT ![i] = c]
      /\ UNCHANGED <<srv, row, log, posted, answer>>
  BY DEF GuestReturns, Replied, Going
<1>2. /\ tx[i] \in Tx /\ owner \in Owners /\ final \in BOOLEAN
  BY Owning DEF Tx, Owners, Opening
<1>3. \/ owner = tx[i].owner
      \/ tx[i].owner = "none" /\ owner = "opening"
  OBVIOUS
<1>4. t \in Tx /\ SameFate(tx[i], t)
  BY <1>2, ClosedMade
<1>. HIDE DEF owner, final, t
<1>5. /\ u \in Tx /\ u.owner = owner
      /\ u.committed = t.committed /\ u.unknown = t.unknown
      /\ u.destroyed = t.destroyed /\ u.fail = t.fail
  BY <1>2, <1>4 DEF Replied, Tx
<1>. HIDE DEF u
<1>6. "completing" \in Pcs
  BY DEF Pcs, Dispatching
<1>7. /\ c \in Call /\ c.pc = "completing" /\ c.end = call[i].end
      /\ c.stored = call[i].stored /\ c.tries = call[i].tries
  BY <1>6, Moving, GoingMade
<1>. HIDE DEF c
<1>8. Started(tx[i], u)
  BY <1>3, <1>4, <1>5 DEF SameFate, Started
<1>. QED BY <1>1, <1>5, <1>8, <1>7, StartsKeeps

-----------------------------------------------------------------------------
(* Settlement *)

Over(c, uncertain, pc, end) ==
  [NewCall EXCEPT !.pc = pc, !.end = end, !.uncertain = uncertain,
                  !.stored = c.stored, !.logged = c.logged]

LEMMA OverMade ==
  ASSUME NEW c \in Call, NEW uncertain \in BOOLEAN, NEW pc \in Pcs, NEW end \in Ends
  PROVE  LET d == Over(c, uncertain, pc, end) IN
         /\ d \in Call /\ d.pc = pc /\ d.end = end /\ d.stored = c.stored
         /\ d.uncertain = uncertain
<1>1. NewCall \in Call /\ c.stored \in Calls \cup {None} /\ c.logged \in BOOLEAN
  BY NewCallMade DEF Call
<1>. QED BY <1>1 DEF Over, Call

Again(c, uncertain) ==
  [c EXCEPT !.uncertain = uncertain, !.pc = "lookup", !.cap = "none", !.end = "none"]

LEMMA AgainMade ==
  ASSUME NEW c \in Call, NEW uncertain \in BOOLEAN
  PROVE  LET d == Again(c, uncertain) IN
         /\ d \in Call /\ d.pc = "lookup" /\ d.end = "none" /\ d.stored = c.stored
         /\ d.tries = c.tries
<1>1. "lookup" \in Pcs /\ "none" \in Ends
  BY DEF Pcs, Dispatching, Ends
<1>. QED BY <1>1 DEF Again, Call

Rebinding(c, tries) == [c EXCEPT !.tries = tries]

(* What a settled attempt may come to.                                     *)
JudgedOk(c, t, d) ==
  t.committed /\ d.pc = "finishing" /\ d.end = "ok"

JudgedOpen(c, t, uncertain, d) ==
  /\ ~t.committed /\ d.pc = "resolving" /\ d.end = c.end
  /\ ~d.uncertain => ~uncertain

JudgedRefused(c, t, uncertain, d) ==
  /\ ~t.committed /\ ~uncertain /\ c.end # "keyrace"
  /\ d.pc = "finishing" /\ d.end \in {"refused", c.end}

JudgedAgain(c, t, uncertain, d) ==
  /\ ~t.committed /\ ~uncertain /\ c.end # "keyrace"
  /\ d.pc = "lookup" /\ d.end = "none" /\ d.tries < MaxAttempts

LEMMA JudgedCases ==
  ASSUME KeyInvariant, NEW i \in Calls, call[i].pc = "settling",
         NEW uncertain \in BOOLEAN
  PROVE  LET d == Judged(i, uncertain)
             c == call[i]
             t == tx[i]
         IN /\ d \in Call /\ d.stored = c.stored
            /\ \/ JudgedOk(c, t, d)
               \/ JudgedOpen(c, t, uncertain, d)
               \/ JudgedRefused(c, t, uncertain, d)
               \/ JudgedAgain(c, t, uncertain, d)
<1>. DEFINE c == call[i]
            d == Judged(i, uncertain)
            tries == c.tries - 1
            again == Again(c, uncertain)
<1>1. /\ c \in Call /\ c.end \in Ends /\ c.tries \in 0..MaxAttempts
      /\ c.end = "rebind" => c.tries # 0
  BY Moving DEF Call, Tries
<1>2. /\ "finishing" \in Pcs /\ "resolving" \in Pcs
      /\ "ok" \in Ends /\ "refused" \in Ends
  BY DEF Pcs, Ends
<1>3. again \in Call /\ again.pc = "lookup" /\ again.end = "none"
      /\ again.stored = c.stored /\ again.tries = c.tries
  BY <1>1, AgainMade
<1>4. CASE tx[i].committed
  <2>1. d = Over(c, uncertain, "finishing", "ok")
    BY <1>4 DEF Judged, Over
  <2>2. d \in Call /\ d.stored = c.stored /\ d.pc = "finishing" /\ d.end = "ok"
    BY <1>1, <1>2, <2>1, OverMade
  <2>. QED BY <1>4, <2>2 DEF JudgedOk
<1>5. CASE ~tx[i].committed /\ (uncertain \/ c.end \in {"keyrace", "timeout"})
  <2>1. d = Over(c, uncertain, "resolving", c.end)
    BY <1>5, <1>1 DEF Judged, Over, Call
  <2>2. /\ d \in Call /\ d.stored = c.stored /\ d.pc = "resolving" /\ d.end = c.end
        /\ d.uncertain = uncertain
    BY <1>1, <1>2, <2>1, OverMade
  <2>. QED BY <1>5, <2>2 DEF JudgedOpen
<1>6. CASE ~tx[i].committed /\ ~uncertain /\ c.end \notin {"keyrace", "timeout"}
  <2>1. \/ d = Over(c, uncertain, "finishing", "refused")
        \/ d = Over(c, uncertain, "finishing", c.end)
        \/ d = again /\ c.tries < MaxAttempts
        \/ d = Rebinding(again, tries) /\ c.end = "rebind"
    <3>1. CASE Conflicted(i)
      BY <1>1, <1>6, <3>1 DEF Judged, Over, Again, MayRetry, Call
    <3>2. CASE ~Conflicted(i) /\ c.end = "rebind"
      <4>1. /\ [c EXCEPT !.uncertain = uncertain].end = c.end
            /\ [[c EXCEPT !.uncertain = uncertain] EXCEPT
                  !.pc = "lookup", !.cap = "none", !.end = "none"] = again
        BY <1>1 DEF Again, Call
      <4>. QED BY <1>1, <1>6, <3>2, <4>1 DEF Judged, Over, Again, Rebinding, Call
    <3>3. CASE ~Conflicted(i) /\ c.end # "rebind"
      BY <1>1, <1>6, <3>3 DEF Judged, Over, Call
    <3>. QED BY <3>1, <3>2, <3>3
  <2>2. CASE \/ d = Over(c, uncertain, "finishing", "refused")
             \/ d = Over(c, uncertain, "finishing", c.end)
    <3>1. d \in Call /\ d.stored = c.stored /\ d.pc = "finishing"
          /\ d.end \in {"refused", c.end}
      BY <1>1, <1>2, <2>2, OverMade
    <3>. QED BY <1>6, <3>1 DEF JudgedRefused
  <2>3. CASE d = again /\ c.tries < MaxAttempts
    BY <1>3, <1>6, <2>3 DEF JudgedAgain
  <2>4. CASE d = Rebinding(again, tries) /\ c.end = "rebind"
    <3>1. tries \in 0..MaxAttempts /\ tries < MaxAttempts
      BY <1>1, <2>4, AttemptsAssumption
    <3>. HIDE DEF tries, again
    <3>2. /\ d \in Call /\ d.pc = "lookup" /\ d.end = "none"
          /\ d.stored = c.stored /\ d.tries = tries
      BY <1>3, <2>4, <3>1 DEF Rebinding, Call
    <3>. QED BY <1>6, <3>1, <3>2 DEF JudgedAgain
  <2>. QED BY <2>1, <2>2, <2>3, <2>4
<1>. QED BY <1>4, <1>5, <1>6

(* A fiber at c holds that no commit of its call can follow.               *)
Denies(c) ==
  \/ c.pc = "resolving" /\ ~c.uncertain
  \/ c.pc = "finishing" /\ c.end \notin {"ok", "stored", "unknown"}

(* The call leaves its settlement with c, its transaction's fate as it     *)
(* was, if it knows what it claims.                                        *)
LEMMA SettlesKeep ==
  ASSUME KeyInvariant, NEW i \in Calls, call[i].pc = "settling",
         NEW c \in Call, call' = [call EXCEPT ![i] = c],
         NEW u \in Tx, tx' = [tx EXCEPT ![i] = u],
         u = tx[i] \/ u = Destroyed(tx[i]),
         UNCHANGED <<srv, row, log, posted, answer>>,
         c.stored = call[i].stored, c.pc \in {"resolving", "finishing"},
         c.end = "ok" => tx[i].committed \/ c.end = call[i].end,
         c.end = "stored" => c.end = call[i].end,
         c.end = "keyrace" => c.pc = "resolving" /\ c.end = call[i].end,
         Denies(c) => OwnerSettled(i) /\ ~tx[i].committed /\ ~tx[i].unknown,
         Left(u)
  PROVE  KeyInvariant'
<1>1. TypeOK /\ Own(i) /\ tx[i] \in Tx /\ (row = i <=> srv[i] = "committed")
  BY Owning DEF KeyInvariant
<1>2. /\ call' \in [Calls -> Call] /\ call'[i] = c
      /\ tx' \in [Calls -> Tx] /\ tx'[i] = u
      /\ \A j \in Calls \ {i} : call'[j] = call[j] /\ tx'[j] = tx[j]
  BY <1>1 DEF TypeOK
<1>3. TypeOK' /\ Elsewhere(i) /\ Unheard(i)
  BY <1>1, <1>2 DEF TypeOK, Elsewhere, Unheard
<1>4. /\ u.owner = tx[i].owner /\ u.committed = tx[i].committed
      /\ u.unknown = tx[i].unknown /\ u.fail = tx[i].fail
      /\ u.destroyed \/ u.destroyed = tx[i].destroyed
  BY <1>1, DestroyedMade
<1>5. ~Inert(i) /\ answer[i] = Untold
  BY <1>1 DEF Inert, Own, Told, Late, Stopped
<1>6. Fate(i)'
  BY <1>1, <1>2, <1>4 DEF Own, Fate, FateOf
<1>7. Tries(i)'
  BY <1>2 DEF Tries
<1>8. Denies(c) => Inert(i)'
  <2>1. HAVE Denies(c)
  <2>2. OwnerSettled(i) /\ ~tx[i].committed /\ ~tx[i].unknown
    BY <2>1
  <2>3. srv'[i] \in {"none", "open", "aborted"}
    BY <1>1, <2>2 DEF Own, Fate, FateOf, OwnerSettled
  <2>. QED BY <1>2, <1>4, <2>2, <2>3 DEF Inert, OwnerSettled, Late
<1>9. c.end = "ok" => row = i
  BY <1>1 DEF Own, Knows, Fate, FateOf
<1>10. Knows(i)'
  BY <1>1, <1>2, <1>4, <1>8, <1>9 DEF Own, Knows, OwnerSettled, Denies
<1>11. Told(i)' /\ Logged(i)'
  BY <1>1, <1>3, <1>5 DEF Own, Told, Logged, Unheard, Untold
<1>12. Own(i)'
  BY <1>6, <1>7, <1>10, <1>11 DEF Own
<1>. QED BY <1>3, <1>12, StepKeeps

LEMMA SettledKeeps ==
  ASSUME KeyInvariant, NEW i \in Calls, Settled(i)
  PROVE  KeyInvariant'
<1>. DEFINE c == Judged(i, tx[i].unknown)
<1>1. /\ call[i].pc = "settling" /\ OwnerSettled(i)
      /\ call' = [call EXCEPT ![i] = c]
      /\ tx' = IF Retries(i) THEN [tx EXCEPT ![i] = NewTx] ELSE tx
      /\ srv' = IF Retries(i) THEN [srv EXCEPT ![i] = "none"] ELSE srv
      /\ UNCHANGED <<row, log, posted, answer>>
  BY DEF Settled
<1>2. /\ TypeOK /\ Own(i) /\ tx[i] \in Tx
      /\ tx[i].unknown \in BOOLEAN
  BY Owning DEF KeyInvariant, Tx
<1>3. /\ c \in Call /\ c.stored = call[i].stored
      /\ \/ JudgedOk(call[i], tx[i], c)
         \/ JudgedOpen(call[i], tx[i], tx[i].unknown, c)
         \/ JudgedRefused(call[i], tx[i], tx[i].unknown, c)
         \/ JudgedAgain(call[i], tx[i], tx[i].unknown, c)
  BY <1>1, <1>2, JudgedCases
<1>. HIDE DEF c
<1>4. call'[i] = c /\ (Retries(i) <=> c.pc = "lookup")
  BY <1>1, <1>2 DEF TypeOK, Retries
<1>5. CASE JudgedAgain(call[i], tx[i], tx[i].unknown, c)
  <2>1. /\ Retries(i) /\ c.pc = "lookup" /\ c.end = "none" /\ c.tries < MaxAttempts
        /\ ~tx[i].committed /\ ~tx[i].unknown
    BY <1>4, <1>5 DEF JudgedAgain
  <2>2. /\ call' \in [Calls -> Call]
        /\ tx' \in [Calls -> Tx] /\ tx'[i] = NewTx
        /\ srv' \in [Calls -> Sessions] /\ srv'[i] = "none"
        /\ \A j \in Calls \ {i} :
             call'[j] = call[j] /\ tx'[j] = tx[j] /\ srv'[j] = srv[j]
    BY <1>1, <1>2, <1>3, <2>1, NewTxMade DEF TypeOK, Sessions
  <2>3. TypeOK' /\ Elsewhere(i) /\ Unheard(i)
    BY <1>1, <1>2, <2>2 DEF TypeOK, Sessions, Elsewhere, Unheard
  <2>4. srv[i] \in {"none", "open", "aborted"}
    BY <1>1, <1>2, <2>1 DEF Own, Fate, FateOf, OwnerSettled
  <2>5. ~Inert(i) /\ answer[i] = Untold
    BY <1>1, <1>2 DEF Inert, Own, Told, Late, Stopped
  <2>6. Fate(i)'
    BY <1>4, <2>1, <2>2 DEF Fate, FateOf, NewTx
  <2>7. Tries(i)' /\ Knows(i)'
    BY <1>1, <1>2, <1>3, <1>4, <2>1 DEF Own, Tries, Knows, Late, Stopped
  <2>8. Told(i)' /\ Logged(i)'
    BY <1>1, <1>2, <2>3, <2>5 DEF Own, Told, Logged, Unheard, Untold
  <2>9. Own(i)'
    BY <2>6, <2>7, <2>8 DEF Own
  <2>. QED BY <1>1, <2>2, <2>3, <2>4, <2>9, StepKeeps
<1>6. CASE ~JudgedAgain(call[i], tx[i], tx[i].unknown, c)
  <2>1. /\ c.pc \in {"resolving", "finishing"}
        /\ c.end = "ok" => tx[i].committed \/ c.end = call[i].end
        /\ c.end = "stored" => c.end = call[i].end
        /\ c.end = "keyrace" => c.pc = "resolving" /\ c.end = call[i].end
    BY <1>3, <1>6 DEF JudgedOk, JudgedOpen, JudgedRefused
  <2>2. Denies(c) => OwnerSettled(i) /\ ~tx[i].committed /\ ~tx[i].unknown
    BY <1>1, <1>3, <1>6 DEF Denies, JudgedOk, JudgedOpen, JudgedRefused
  <2>3. /\ UNCHANGED <<srv, row, log, posted, answer>>
        /\ tx' = [tx EXCEPT ![i] = tx[i]] /\ Left(tx[i])
    BY <1>1, <1>2, <1>4, <2>1 DEF TypeOK, Left, OwnerSettled
  <2>. QED BY <1>1, <1>2, <1>3, <2>1, <2>2, <2>3, SettlesKeep
<1>. QED BY <1>5, <1>6

LEMMA SettleGivesUpKeeps ==
  ASSUME KeyInvariant, NEW i \in Calls, SettleGivesUp(i)
  PROVE  KeyInvariant'
<1>. DEFINE c == Judged(i, TRUE)
            u == IF OwnerSettled(i) THEN tx[i] ELSE Destroyed(tx[i])
<1>1. /\ TypeOK /\ tx[i] \in Tx /\ TRUE \in BOOLEAN
      /\ call[i].pc = "settling" /\ call' = [call EXCEPT ![i] = c]
      /\ tx' = IF OwnerSettled(i) THEN tx ELSE [tx EXCEPT ![i] = Destroyed(tx[i])]
      /\ UNCHANGED <<srv, row, log, posted, answer>>
  BY Owning DEF SettleGivesUp, KeyInvariant
<1>2. /\ c \in Call /\ c.stored = call[i].stored
      /\ \/ JudgedOk(call[i], tx[i], c)
         \/ JudgedOpen(call[i], tx[i], TRUE, c)
         \/ JudgedRefused(call[i], tx[i], TRUE, c)
         \/ JudgedAgain(call[i], tx[i], TRUE, c)
  BY <1>1, JudgedCases
<1>3. /\ u \in Tx
      /\ u = tx[i] \/ u = Destroyed(tx[i])
      /\ Left(u)
      /\ tx' = [tx EXCEPT ![i] = u]
  BY <1>1, DestroyedMade DEF TypeOK, Left, OwnerSettled
<1>. HIDE DEF c, u
<1>4. /\ c.pc \in {"resolving", "finishing"} /\ ~Denies(c)
      /\ c.end = "ok" => tx[i].committed \/ c.end = call[i].end
      /\ c.end = "stored" => c.end = call[i].end
      /\ c.end = "keyrace" => c.pc = "resolving" /\ c.end = call[i].end
  BY <1>2 DEF JudgedOk, JudgedOpen, JudgedRefused, JudgedAgain, Denies
<1>. QED BY <1>1, <1>2, <1>3, <1>4, SettlesKeep

(* The step leaves the call's log row, and what is on its way to it, true. *)
Recorded(i) ==
  /\ log'[i].outcome \in Denials \/ posted'[i] \cap Denials # {} => Inert(i)
  /\ log'[i].outcome = "success" \/ "success" \in posted'[i] => row # None
  /\ log'[i].committed => row = i

(* A settled call that goes on to its answer keeps what it has learnt, and *)
(* says no more than that.                                                 *)
LEMMA AnswerKeeps ==
  ASSUME TypeOK, NEW i \in Calls, Own(i), UNCHANGED <<tx, srv, row>>,
         call[i].pc \in {"resolving", "finishing", "awaiting"},
         call'[i].pc \in {"finishing", "awaiting", "done"},
         call'[i].end # "keyrace", call'[i].end = "ok" => row = i,
         call'[i].end = "stored" => call'[i].stored # None,
         call'[i].stored # None => row = call'[i].stored,
         call'[i].pc = "done" \/ call'[i].end \in {"ok", "stored", "unknown"} \/ Inert(i),
         answer'[i] # Untold => call'[i].pc = "done",
         answer'[i].tag = "no" => Inert(i),
         Recorded(i)
  PROVE  Own(i)'
<1>1. Inert(i) => Inert(i)'
  BY DEF Inert, OwnerSettled, Late, Stopped
<1>2. Fate(i)' /\ Tries(i)'
  BY DEF Own, Fate, FateOf, Tries
<1>3. Knows(i)'
  BY <1>1 DEF Own, Knows, OwnerSettled, Late, Stopped
<1>4. Told(i)' /\ Logged(i)'
  BY <1>1 DEF Told, Logged, Recorded
<1>. QED BY <1>2, <1>3, <1>4 DEF Own

Resolving(c, end) == [c EXCEPT !.pc = "finishing", !.end = end]

LEMMA ResolvedKeeps ==
  ASSUME KeyInvariant, NEW i \in Calls, call[i].pc = "resolving",
         UNCHANGED <<tx, srv, row, log, posted, answer>>,
         NEW c \in Call, call' = [call EXCEPT ![i] = c], c.pc = "finishing",
         c.end \in {"stored", "unknown", "timeout", "refused"},
         c.stored # None => row = c.stored,
         c.end = "stored" => c.stored # None,
         c.end \in {"timeout", "refused"} =>
           ~call[i].uncertain \/ call[i].end = "keyrace"
  PROVE  KeyInvariant'
<1>1. TypeOK /\ Own(i)
  BY DEF KeyInvariant
<1>2. /\ call' \in [Calls -> Call] /\ call'[i] = c
      /\ \A j \in Calls \ {i} : call'[j] = call[j]
  BY <1>1 DEF TypeOK
<1>3. TypeOK' /\ Elsewhere(i)
  BY <1>1, <1>2 DEF TypeOK, Elsewhere
<1>4. call[i].end = "keyrace" => Inert(i)
  BY <1>1 DEF Own, Knows, Inert, OwnerSettled, Late
<1>5. c.end \notin {"ok", "stored", "unknown"} => Inert(i)
  BY <1>1, <1>4 DEF Own, Knows
<1>6. Own(i)'
  BY <1>1, <1>2, <1>5, AnswerKeeps DEF Own, Told, Logged, Recorded
<1>. QED BY <1>3, <1>6, StepKeeps

LEMMA ResolveKeeps ==
  ASSUME KeyInvariant, NEW i \in Calls, Resolve(i)
  PROVE  KeyInvariant'
<1>1. /\ TypeOK /\ call[i].pc = "resolving" /\ call[i] \in Call
      /\ UNCHANGED <<tx, srv, row, log, posted, answer>> /\ "finishing" \in Pcs
      /\ call[i].stored # None => row = call[i].stored
  BY Moving DEF Resolve, Pcs
<1>2. CASE row # None /\ call' = [call EXCEPT ![i] = Finding(call[i], "finishing", row)]
  <2>. DEFINE c == Finding(call[i], "finishing", row)
  <2>1. row \in Calls /\ call' = [call EXCEPT ![i] = c]
    BY <1>1, <1>2 DEF TypeOK
  <2>2. c \in Call /\ c.pc = "finishing" /\ c.end = "stored" /\ c.stored = row
    BY <1>1, <2>1, FindingMade
  <2>. HIDE DEF c
  <2>. QED BY <1>1, <1>2, <2>1, <2>2, ResolvedKeeps
<1>3. ASSUME NEW end \in {"unknown", "timeout", "refused"},
             call' = [call EXCEPT ![i] = Resolving(call[i], end)],
             end # "unknown" => ~call[i].uncertain \/ call[i].end = "keyrace"
      PROVE  KeyInvariant'
  <2>. DEFINE c == Resolving(call[i], end)
  <2>1. end \in Ends
    BY DEF Ends
  <2>2. /\ c \in Call /\ c.pc = "finishing" /\ c.end = end
        /\ c.stored = call[i].stored
    BY <1>1, <2>1 DEF Resolving, Call
  <2>3. call' = [call EXCEPT ![i] = c]
    BY <1>3
  <2>. HIDE DEF c
  <2>. QED BY <1>1, <1>3, <2>2, <2>3, ResolvedKeeps
<1>4. CASE call' = [call EXCEPT ![i] = Resolving(call[i],
                      IF call[i].uncertain THEN "unknown"
                      ELSE IF call[i].end = "timeout" THEN "timeout" ELSE "refused")]
  BY <1>3, <1>4
<1>5. CASE call[i].end = "keyrace" /\ call' = [call EXCEPT ![i] = Resolving(call[i], "refused")]
  BY <1>3, <1>5
<1>. QED BY <1>2, <1>4, <1>5 DEF Resolve, Finding, Resolving

-----------------------------------------------------------------------------
(* The journal and the answer *)

LogRow == [outcome : Outcomes \cup {"none", "pending"}, committed : BOOLEAN]

Answers == [tag : {"none", "no", "unknown"}] \cup [tag : {"ok"}, of : Calls]

(* What a call that has settled will be told and logged is so.             *)
LEMMA SettledOutcome ==
  ASSUME KeyInvariant, NEW i \in Calls, call[i].pc \in {"finishing", "awaiting"}
  PROVE  /\ Outcome(i) \in Outcomes
         /\ Outcome(i) \in Denials => Inert(i)
         /\ Outcome(i) = "success" => row # None
         /\ Reply(i) \in Answers /\ Reply(i) # Untold
         /\ Reply(i).tag = "no" => Inert(i)
         /\ Reply(i).tag = "ok" => row # None /\ Reply(i).of = row
<1>1. /\ Knows(i) /\ call[i].stored \in Calls \cup {None}
      /\ i # None
  BY CallsAssumption DEF KeyInvariant, Own, TypeOK, Call
<1>2. CASE call[i].end \in {"ok", "stored"}
  <2>. DEFINE of == IF call[i].stored = None THEN i ELSE call[i].stored
  <2>1. Outcome(i) = "success" /\ Reply(i) = [tag |-> "ok", of |-> of]
    BY <1>2 DEF Outcome, Reply
  <2>2. of \in Calls /\ row = of
    BY <1>1, <1>2 DEF Knows
  <2>. HIDE DEF of
  <2>3. row # None
    BY <2>2, CallsAssumption
  <2>. QED BY <2>1, <2>2, <2>3 DEF Outcomes, Denials, Answers, Untold
<1>3. CASE call[i].end = "unknown"
  <2>1. Outcome(i) = "unknown_outcome" /\ Reply(i) = [tag |-> "unknown"]
    BY <1>3 DEF Outcome, Reply
  <2>. QED BY <2>1 DEF Outcomes, Denials, Answers, Untold
<1>4. CASE call[i].end \notin {"ok", "stored", "unknown"}
  <2>1. Outcome(i) \in Denials /\ Reply(i) = [tag |-> "no"]
    BY <1>4 DEF Outcome, Reply, Denials
  <2>2. Inert(i)
    BY <1>1, <1>4 DEF Knows
  <2>. QED BY <2>1, <2>2 DEF Outcomes, Denials, Answers, Untold
<1>. QED BY <1>2, <1>3, <1>4

(* A proof written by another call marks only the committer's row.         *)
LEMMA ReconciledMade ==
  ASSUME TypeOK, NEW i \in Calls, Reconciled(i),
         call[i].stored # None => row = call[i].stored
  PROVE  /\ log' \in [Calls -> LogRow]
         /\ \A j \in Calls :
              \/ log'[j] = log[j]
              \/ log'[j].outcome \in {"pending", "success"} /\ row = j
<1>1. log \in [Calls -> LogRow]
  BY DEF TypeOK, LogRow
<1>2. CASE UNCHANGED log
  BY <1>1, <1>2
<1>3. CASE ~UNCHANGED log
  <2>. DEFINE who == call[i].stored
              now == IF log[who].outcome = "pending" THEN "pending" ELSE "success"
              l == [committed |-> TRUE, outcome |-> now]
  <2>1. who # None /\ row = who /\ log' = [log EXCEPT ![who] = l]
    BY <1>3 DEF Reconciled
  <2>2. who \in Calls
    BY <2>1 DEF TypeOK
  <2>3. now \in {"pending", "success"}
    OBVIOUS
  <2>. HIDE DEF now
  <2>4. l \in LogRow /\ l.outcome \in {"pending", "success"}
    BY <2>3 DEF LogRow, Outcomes
  <2>. HIDE DEF l, who
  <2>. QED BY <1>1, <2>1, <2>2, <2>4
<1>. QED BY <1>2, <1>3

LEMMA FinishKeeps ==
  ASSUME KeyInvariant, NEW i \in Calls, Finish(i)
  PROVE  KeyInvariant'
<1>1. /\ TypeOK /\ Own(i) /\ call[i] \in Call /\ call[i].pc = "finishing"
      /\ UNCHANGED <<tx, srv, row>> /\ Reconciled(i)
      /\ call[i].stored # None => row = call[i].stored
  BY Moving DEF Finish, KeyInvariant
<1>2. /\ Outcome(i) \in Outcomes
      /\ Outcome(i) \in Denials => Inert(i)
      /\ Outcome(i) = "success" => row # None
      /\ Reply(i) \in Answers
      /\ Reply(i).tag = "no" => Inert(i)
  BY <1>1, SettledOutcome
<1>3. /\ log' \in [Calls -> LogRow]
      /\ \A j \in Calls :
           \/ log'[j] = log[j]
           \/ log'[j].outcome \in {"pending", "success"} /\ row = j
  BY <1>1, ReconciledMade
<1>4. "awaiting" \in Pcs /\ "done" \in Pcs
  BY DEF Pcs, Stopped
<1>5. /\ call' \in [Calls -> Call]
      /\ \A j \in Calls \ {i} : call'[j] = call[j]
      /\ \/ /\ call'[i].pc = "awaiting" /\ call'[i].end = call[i].end
            /\ call'[i].stored = call[i].stored /\ answer' = answer
            /\ posted' = [posted EXCEPT ![i] = @ \cup {Outcome(i)}]
         \/ /\ call'[i].pc = "done" /\ call'[i].end = "none" /\ call'[i].stored = None
            /\ answer' = [answer EXCEPT ![i] = Reply(i)] /\ posted' = posted
  <2>1. CASE call[i].logged
    <3>1. call' = [call EXCEPT ![i] = Going(call[i], "awaiting")]
      BY <2>1 DEF Finish, Going
    <3>2. LET d == Going(call[i], "awaiting") IN
          d \in Call /\ d.pc = "awaiting" /\ d.end = call[i].end /\ d.stored = call[i].stored
      BY <1>1, <1>4, GoingMade
    <3>3. answer' = answer /\ posted' = [posted EXCEPT ![i] = @ \cup {Outcome(i)}]
      BY <2>1 DEF Finish
    <3>. QED BY <1>1, <3>1, <3>2, <3>3 DEF TypeOK
  <2>2. CASE ~call[i].logged
    <3>1. /\ call' = [call EXCEPT ![i] = Gone("done")]
          /\ answer' = [answer EXCEPT ![i] = Reply(i)] /\ posted' = posted
      BY <2>2 DEF Finish
    <3>. QED BY <1>1, <1>4, <3>1, GoneMade DEF TypeOK
  <2>. QED BY <2>1, <2>2
<1>6. /\ answer' \in [Calls -> Answers]
      /\ \/ answer'[i] = answer[i]
         \/ answer'[i] = Reply(i) /\ call'[i].pc = "done"
      /\ \A j \in Calls \ {i} : answer'[j] = answer[j]
  BY <1>1, <1>2, <1>5 DEF TypeOK, Answers
<1>7. /\ posted' \in [Calls -> SUBSET Outcomes]
      /\ \A j \in Calls \ {i} : posted'[j] = posted[j]
      /\ posted'[i] \subseteq posted[i] \cup {Outcome(i)}
  <2>1. posted' = posted \/ posted' = [posted EXCEPT ![i] = @ \cup {Outcome(i)}]
    BY <1>5
  <2>2. posted \in [Calls -> SUBSET Outcomes]
    BY <1>1 DEF TypeOK
  <2>. QED BY <1>2, <2>1, <2>2
<1>8. TypeOK' /\ Elsewhere(i)
  BY <1>1, <1>3, <1>5, <1>6, <1>7 DEF TypeOK, Elsewhere, LogRow, Answers
<1>9. /\ answer'[i] # Untold => call'[i].pc = "done"
      /\ answer'[i].tag = "no" => Inert(i)
  BY <1>1, <1>2, <1>6 DEF Own, Told
<1>10. Recorded(i)
  BY <1>1, <1>2, <1>3, <1>7, CallsAssumption DEF Own, Logged, Denials, Recorded
<1>11. /\ call'[i].pc \in {"awaiting", "done"}
       /\ call'[i].end # "keyrace"
       /\ call'[i].end = "ok" => row = i
       /\ call'[i].end = "stored" => call'[i].stored # None
       /\ call'[i].stored # None => row = call'[i].stored
       /\ call'[i].pc = "done" \/ call'[i].end \in {"ok", "stored", "unknown"} \/ Inert(i)
  BY <1>1, <1>5 DEF Own, Knows
<1>12. Own(i)'
  BY <1>1, <1>9, <1>10, <1>11, AnswerKeeps
<1>. QED BY <1>1, <1>3, <1>8, <1>12, StepKeeps

(* A journal write leaves the row's proof as it is, and tells nothing that *)
(* neither the row nor the write says.                                     *)
LEMMA FinishedMade ==
  ASSUME NEW l \in LogRow, NEW o \in Outcomes
  PROVE  LET m == Finished(l, o) IN
         /\ m \in LogRow /\ (m.committed <=> l.committed)
         /\ \/ m.outcome \in {l.outcome, o}
            \/ l.committed /\ m.outcome = "success"
<1>1. CASE Finished(l, o) = l
  BY <1>1
<1>2. CASE Finished(l, o) # l
  <2>. DEFINE now == IF l.committed THEN "success" ELSE o
              m == [l EXCEPT !.outcome = now]
  <2>1. Finished(l, o) = m
    BY <1>2 DEF Finished
  <2>2. now \in Outcomes /\ (now = o \/ (l.committed /\ now = "success"))
    BY DEF Outcomes
  <2>. HIDE DEF now
  <2>3. m \in LogRow /\ m.outcome = now /\ (m.committed <=> l.committed)
    BY <2>2 DEF LogRow
  <2>. QED BY <2>1, <2>2, <2>3
<1>. QED BY <1>1, <1>2

LEMMA JournalLandsKeeps ==
  ASSUME KeyInvariant, NEW i \in Calls, NEW o \in Outcomes, JournalLands(i, o)
  PROVE  KeyInvariant'
<1>1. /\ TypeOK /\ Own(i) /\ call[i] \in Call /\ o \in posted[i]
      /\ UNCHANGED <<tx, srv, row>>
      /\ call[i].stored # None => row = call[i].stored
  BY Moving DEF JournalLands, KeyInvariant
<1>. DEFINE m == Finished(log[i], o)
<1>2. /\ log[i] \in LogRow /\ log' = [log EXCEPT ![i] = m]
  BY <1>1 DEF TypeOK, LogRow, JournalLands
<1>3. /\ m \in LogRow /\ (m.committed <=> log[i].committed)
      /\ \/ m.outcome \in {log[i].outcome, o}
         \/ log[i].committed /\ m.outcome = "success"
  BY <1>2, FinishedMade
<1>. HIDE DEF m
<1>4. /\ log' \in [Calls -> LogRow] /\ log'[i] = m
      /\ \A j \in Calls \ {i} : log'[j] = log[j]
  BY <1>1, <1>2, <1>3 DEF TypeOK, LogRow
<1>5. /\ posted' \in [Calls -> SUBSET Outcomes] /\ posted'[i] \subseteq posted[i]
      /\ \A j \in Calls \ {i} : posted'[j] = posted[j]
  BY <1>1 DEF JournalLands, TypeOK
<1>6. Recorded(i)
  <2>1. (log[i].outcome \in Denials \/ o \in Denials) => Inert(i)
    BY <1>1 DEF Own, Logged
  <2>2. (log[i].outcome = "success" \/ o = "success") => row # None
    BY <1>1 DEF Own, Logged
  <2>3. log[i].committed => row = i
    BY <1>1 DEF Own, Logged
  <2>4. "success" \notin Denials /\ i # None
    BY CallsAssumption DEF Denials
  <2>5. posted[i] \cap Denials # {} => Inert(i)
    BY <1>1 DEF Own, Logged
  <2>6. "success" \in posted[i] => row # None
    BY <1>1 DEF Own, Logged
  <2>. QED BY <1>3, <1>4, <1>5, <2>1, <2>2, <2>3, <2>4, <2>5, <2>6 DEF Recorded
<1>7. CASE call[i].pc = "awaiting"
  <2>1. /\ call' = [call EXCEPT ![i] = Gone("done")]
        /\ answer' = [answer EXCEPT ![i] = Reply(i)]
    BY <1>7 DEF JournalLands
  <2>2. "done" \in Pcs
    BY DEF Pcs, Stopped
  <2>3. /\ call' \in [Calls -> Call] /\ call'[i].pc = "done"
        /\ call'[i].end = "none" /\ call'[i].stored = None
        /\ answer' \in [Calls -> Answers] /\ answer'[i] = Reply(i)
        /\ \A j \in Calls \ {i} : call'[j] = call[j] /\ answer'[j] = answer[j]
    <3>1. Reply(i) \in Answers
      BY <1>7, SettledOutcome
    <3>. QED BY <1>1, <2>1, <3>1, <2>2, GoneMade DEF TypeOK, Answers
  <2>4. TypeOK' /\ Elsewhere(i)
    BY <1>1, <1>4, <1>5, <2>3 DEF TypeOK, Elsewhere, LogRow, Answers
  <2>5. answer'[i].tag = "no" => Inert(i)
    BY <1>7, <2>3, SettledOutcome
  <2>6. Own(i)'
    BY <1>1, <1>6, <1>7, <2>3, <2>5, AnswerKeeps
  <2>. QED BY <1>1, <1>4, <2>4, <2>6, StepKeeps
<1>8. CASE call[i].pc # "awaiting"
  <2>1. UNCHANGED <<call, answer>>
    BY <1>8 DEF JournalLands
  <2>2. TypeOK' /\ Elsewhere(i)
    BY <1>1, <1>4, <1>5, <2>1 DEF TypeOK, Elsewhere, LogRow
  <2>3. Inert(i)' <=> Inert(i)
    BY <1>1, <2>1 DEF Inert, OwnerSettled
  <2>4. Fate(i)' /\ Tries(i)' /\ Knows(i)' /\ Told(i)'
    BY <1>1, <2>1, <2>3 DEF Own, Fate, FateOf, Tries, Knows, Told, OwnerSettled
  <2>5. Logged(i)'
    BY <1>1, <1>6, <2>3 DEF Logged, Recorded
  <2>6. Own(i)'
    BY <2>4, <2>5 DEF Own
  <2>. QED BY <1>1, <1>4, <2>2, <2>6, StepKeeps
<1>. QED BY <1>7, <1>8

LEMMA FinishGivesUpKeeps ==
  ASSUME KeyInvariant, NEW i \in Calls, FinishGivesUp(i)
  PROVE  KeyInvariant'
<1>. DEFINE a == [tag |-> "unknown"]
<1>1. /\ TypeOK /\ Own(i) /\ call[i].pc = "awaiting"
      /\ call' = [call EXCEPT ![i] = Gone("done")]
      /\ answer' = [answer EXCEPT ![i] = a]
      /\ UNCHANGED <<tx, srv, row, log, posted>> /\ "done" \in Pcs
  BY DEF FinishGivesUp, KeyInvariant, Pcs, Stopped
<1>2. a \in Answers /\ a.tag = "unknown"
  BY DEF Answers
<1>. HIDE DEF a
<1>3. /\ call' \in [Calls -> Call] /\ call'[i].pc = "done"
      /\ call'[i].end = "none" /\ call'[i].stored = None
      /\ answer' \in [Calls -> Answers] /\ answer'[i] = a
      /\ \A j \in Calls \ {i} : call'[j] = call[j] /\ answer'[j] = answer[j]
  BY <1>1, <1>2, GoneMade DEF TypeOK, Answers
<1>4. TypeOK' /\ Elsewhere(i)
  BY <1>1, <1>3 DEF TypeOK, Elsewhere, Answers
<1>5. Recorded(i)
  BY <1>1 DEF Own, Logged, Recorded
<1>6. Own(i)'
  BY <1>1, <1>2, <1>3, <1>5, AnswerKeeps
<1>. QED BY <1>1, <1>4, <1>6, StepKeeps

-----------------------------------------------------------------------------
(* Hosts that stop *)

(* The call's fiber is stopped, or gone: it forgets what it knew, and its  *)
(* transaction is fenced, destroyed or lost with it.                       *)
LEMMA StopKeeps ==
  ASSUME KeyInvariant, NEW i \in Calls, Working(i),
         NEW c \in Call, call' = [call EXCEPT ![i] = c],
         c.pc \in {"stopping", "halted", "dead"}, c.end = "none", c.stored = None,
         NEW u \in Tx, tx' = [tx EXCEPT ![i] = u],
         FateOf(u, srv[i], c.pc = "dead"),
         OwnerSettled(i) => u.owner \in {"none", "ended"},
         c.pc = "stopping" \/ Left(u),
         UNCHANGED <<srv, row, log, answer>>,
         \/ UNCHANGED posted
         \/ posted' = [posted EXCEPT ![i] = @ \cup {"unknown_outcome"}]
  PROVE  KeyInvariant'
<1>1. TypeOK /\ Own(i)
  BY DEF KeyInvariant
<1>2. /\ call' \in [Calls -> Call] /\ call'[i] = c
      /\ tx' \in [Calls -> Tx] /\ tx'[i] = u
      /\ \A j \in Calls \ {i} : call'[j] = call[j] /\ tx'[j] = tx[j]
  BY <1>1 DEF TypeOK
<1>3. /\ posted' \in [Calls -> SUBSET Outcomes]
      /\ posted'[i] \subseteq posted[i] \cup {"unknown_outcome"}
      /\ \A j \in Calls \ {i} : posted'[j] = posted[j]
  <2>1. posted \in [Calls -> SUBSET Outcomes] /\ "unknown_outcome" \in Outcomes
    BY <1>1 DEF TypeOK, Outcomes
  <2>. QED BY <2>1
<1>4. TypeOK' /\ Elsewhere(i)
  BY <1>1, <1>2, <1>3 DEF TypeOK, Elsewhere
<1>5. Inert(i) => Inert(i)'
  BY <1>2 DEF Inert, OwnerSettled, Late, Stopped
<1>6. answer[i] = Untold
  BY <1>1 DEF Own, Told, Working, Stopped
<1>7. Fate(i)' /\ Tries(i)'
  BY <1>2 DEF Fate, Tries
<1>8. Knows(i)'
  BY <1>2 DEF Knows, OwnerSettled
<1>9. Told(i)'
  BY <1>6 DEF Told, Untold
<1>10. Logged(i)'
  BY <1>1, <1>3, <1>5 DEF Own, Logged, Denials
<1>11. Own(i)'
  BY <1>7, <1>8, <1>9, <1>10 DEF Own
<1>. QED BY <1>4, <1>11, StepKeeps

Stopping(logged) == [Gone("stopping") EXCEPT !.logged = logged]

LEMMA ShutdownKeeps ==
  ASSUME KeyInvariant, NEW i \in Calls, Shutdown(i)
  PROVE  KeyInvariant'
<1>. DEFINE c == Stopping(call[i].logged)
            u == Fenced(i)
<1>1. /\ Working(i) /\ call' = [call EXCEPT ![i] = c] /\ tx' = [tx EXCEPT ![i] = u]
      /\ UNCHANGED <<srv, row, log, posted, answer>>
  BY DEF Shutdown, Stopping
<1>2. /\ tx[i] \in Tx /\ FateOf(tx[i], srv[i], call[i].pc = "dead")
      /\ call[i].logged \in BOOLEAN
  BY Owning, Moving DEF Call
<1>3. u \in Tx /\ SameFate(tx[i], u)
  BY <1>2, CancelledMade DEF Fenced, SameFate
<1>4. c \in Call /\ c.pc = "stopping" /\ c.end = "none" /\ c.stored = None
  <2>1. "stopping" \in Pcs
    BY DEF Pcs
  <2>2. /\ Gone("stopping") \in Call /\ Gone("stopping").pc = "stopping"
        /\ Gone("stopping").end = "none" /\ Gone("stopping").stored = None
    BY <2>1, GoneMade
  <2>. QED BY <1>2, <2>2 DEF Stopping, Call
<1>. HIDE DEF c, u
<1>5. call[i].pc # "dead"
  BY <1>1 DEF Working, Stopped
<1>6. FateOf(u, srv[i], c.pc = "dead")
  BY <1>2, <1>3, <1>4, <1>5 DEF FateOf, SameFate
<1>7. OwnerSettled(i) => u.owner \in {"none", "ended"}
  BY <1>3 DEF OwnerSettled, SameFate
<1>. QED BY <1>1, <1>3, <1>4, <1>6, <1>7, StopKeeps

LEMMA HaltKeeps ==
  ASSUME KeyInvariant, NEW i \in Calls, Halt(i)
  PROVE  KeyInvariant'
<1>. DEFINE c == Gone("halted")
            u == IF OwnerSettled(i) THEN tx[i] ELSE Destroyed(tx[i])
<1>1. /\ Working(i) /\ call[i].pc = "stopping" /\ call' = [call EXCEPT ![i] = c]
      /\ UNCHANGED <<srv, row, log, answer>>
      /\ \/ UNCHANGED posted
         \/ posted' = [posted EXCEPT ![i] = @ \cup {"unknown_outcome"}]
  BY DEF Halt, Working, Stopped
<1>2. tx[i] \in Tx /\ FateOf(tx[i], srv[i], call[i].pc = "dead")
  BY Owning
<1>3. tx' = [tx EXCEPT ![i] = u]
  BY Moving DEF Halt, TypeOK
<1>4. /\ u \in Tx /\ u.owner = tx[i].owner /\ u.committed = tx[i].committed
      /\ u.unknown = tx[i].unknown /\ u.fail = tx[i].fail
      /\ u.destroyed \/ u.destroyed = tx[i].destroyed
      /\ Left(u)
  BY <1>2, DestroyedMade DEF Left, OwnerSettled
<1>5. "halted" \in Pcs
  BY DEF Pcs, Stopped
<1>6. c \in Call /\ c.pc = "halted" /\ c.end = "none" /\ c.stored = None
  BY <1>5, GoneMade
<1>. HIDE DEF c, u
<1>7. FateOf(u, srv[i], c.pc = "dead")
  BY <1>1, <1>2, <1>4, <1>6 DEF FateOf
<1>8. OwnerSettled(i) => u.owner \in {"none", "ended"}
  BY <1>4 DEF OwnerSettled
<1>. QED BY <1>1, <1>3, <1>4, <1>6, <1>7, <1>8, StopKeeps

LostWithHost == [NewTx EXCEPT !.owner = "ended", !.closed = TRUE, !.destroyed = TRUE]

LEMMA CrashKeeps ==
  ASSUME KeyInvariant, NEW i \in Calls, Crash(i)
  PROVE  KeyInvariant'
<1>. DEFINE c == Gone("dead")
<1>1. /\ Working(i) /\ call' = [call EXCEPT ![i] = c]
      /\ tx' = [tx EXCEPT ![i] = LostWithHost]
      /\ UNCHANGED <<srv, row, log, posted, answer>>
  BY DEF Crash, LostWithHost
<1>2. /\ LostWithHost \in Tx /\ LostWithHost.owner = "ended" /\ LostWithHost.destroyed
      /\ ~LostWithHost.committed /\ ~LostWithHost.unknown /\ LostWithHost.fail = "none"
  BY DEF LostWithHost, NewTx, Tx, Owners, Opening
<1>3. "dead" \in Pcs
  BY DEF Pcs, Stopped
<1>4. c \in Call /\ c.pc = "dead" /\ c.end = "none" /\ c.stored = None
  BY <1>3, GoneMade
<1>. HIDE DEF c
<1>5. FateOf(LostWithHost, srv[i], c.pc = "dead")
  BY <1>2, <1>4 DEF FateOf
<1>6. Left(LostWithHost)
  BY <1>2 DEF Left
<1>. QED BY <1>1, <1>2, <1>4, <1>5, <1>6, StopKeeps

-----------------------------------------------------------------------------
(* The invariant *)

LEMMA InitKeeps ==
  ASSUME Init
  PROVE  KeyInvariant
<1>1. NewCall \in Call /\ NewTx \in Tx /\ Untold \in Answers
  BY NewCallMade, NewTxMade DEF Answers, Untold
<1>2. [outcome |-> "none", committed |-> FALSE] \in LogRow
  BY DEF LogRow
<1>3. TypeOK
  BY <1>1, <1>2 DEF Init, TypeOK, LogRow, Answers
<1>4. RowCommitted /\ OneKey
  BY CallsAssumption DEF Init, RowCommitted, OneKey
<1>5. ASSUME NEW i \in Calls
      PROVE  Own(i)
  <2>1. /\ call[i] = NewCall /\ tx[i] = NewTx /\ srv[i] = "none" /\ row = None
        /\ log[i].outcome = "none" /\ ~log[i].committed /\ posted[i] = {}
        /\ answer[i] = Untold
    BY DEF Init
  <2>2. Fate(i)
    BY <2>1 DEF Fate, FateOf, NewTx
  <2>3. Tries(i) /\ Knows(i)
    BY <2>1, AttemptsAssumption DEF Tries, Knows, NewCall, Late, Stopped
  <2>4. Told(i)
    BY <2>1 DEF Told, Untold
  <2>5. Logged(i)
    BY <2>1 DEF Logged, Denials
  <2>. QED BY <2>2, <2>3, <2>4, <2>5 DEF Own
<1>. QED BY <1>3, <1>4, <1>5 DEF KeyInvariant

LEMMA NextKeeps ==
  ASSUME KeyInvariant, [Next]_vars
  PROVE  KeyInvariant'
<1>1. CASE UNCHANGED vars
  <2>1. TypeOK' /\ RowCommitted' /\ OneKey'
    BY <1>1 DEF vars, KeyInvariant, TypeOK, RowCommitted, OneKey, KeyLocked
  <2>2. ASSUME NEW i \in Calls
        PROVE  Own(i)'
    BY <1>1 DEF vars, KeyInvariant, Own, Fate, Tries, Knows, Told, Logged, Inert,
                OwnerSettled
  <2>. QED BY <2>1, <2>2 DEF KeyInvariant
<1>2. ASSUME NEW i \in Calls,
             \/ Arrive(i) \/ Begin(i) \/ FindsCommit(i) \/ Invoke(i) \/ NotInvoked(i)
             \/ Callback(i) \/ NeverRan(i) \/ ExecutorFails(i) \/ GuestFails(i)
             \/ GuestReturns(i) \/ DeadlinePasses(i) \/ Fence(i) \/ DeadlineWins(i)
      PROVE  KeyInvariant'
  BY <1>2, ArriveKeeps, BeginKeeps, FindsCommitKeeps, InvokeKeeps, NotInvokedKeeps,
     CallbackKeeps, NeverRanKeeps, ExecutorFailsKeeps, GuestFailsKeeps,
     GuestReturnsKeeps, DeadlinePassesKeeps, FenceKeeps, DeadlineWinsKeeps
<1>3. ASSUME NEW i \in Calls,
             \/ Begun(i) \/ Open(i) \/ Unopen(i)
             \/ TakeJob(i) \/ JobEnds(i) \/ Save(i) \/ InsertKey(i)
             \/ SendCommit(i) \/ SaveFails(i) \/ CommitAcked(i) \/ CommitRejected(i)
             \/ CommitUnknown(i) \/ OpenFails(i) \/ OwnerInterrupted(i)
             \/ Rollback(i) \/ Release(i) \/ Commits(i) \/ Aborts(i)
      PROVE  KeyInvariant'
  BY <1>3, BegunKeeps, OpenKeeps, UnopenKeeps,
     TakeJobKeeps, JobEndsKeeps, SaveKeeps, InsertKeyKeeps,
     SendCommitKeeps, SaveFailsKeeps, CommitAckedKeeps, CommitRejectedKeeps,
     CommitUnknownKeeps, OpenFailsKeeps, OwnerInterruptedKeeps, RollbackKeeps,
     ReleaseKeeps, CommitsKeeps, AbortsKeeps
<1>4. ASSUME NEW i \in Calls,
             \/ Settled(i) \/ SettleGivesUp(i) \/ Resolve(i) \/ Finish(i)
             \/ FinishGivesUp(i) \/ Shutdown(i) \/ Halt(i) \/ Crash(i)
      PROVE  KeyInvariant'
  BY <1>4, SettledKeeps, SettleGivesUpKeeps, ResolveKeeps, FinishKeeps,
     FinishGivesUpKeeps, ShutdownKeeps, HaltKeeps, CrashKeeps
<1>5. ASSUME NEW i \in Calls, NEW o \in Outcomes, JournalLands(i, o)
      PROVE  KeyInvariant'
  BY <1>5, JournalLandsKeeps
<1>. QED BY <1>1, <1>2, <1>3, <1>4, <1>5 DEF Next

(* The inductive invariant: what the host believes of each transaction,    *)
(* what each fiber has learnt, and what was told and logged agree with the *)
(* company's database.                                                     *)
THEOREM KeyInvariantAlways == Spec => []KeyInvariant
<1>1. Init => KeyInvariant
  BY InitKeeps
<1>2. KeyInvariant /\ [Next]_vars => KeyInvariant'
  BY NextKeeps
<1>. QED BY <1>1, <1>2, PTL DEF Spec

(* Every variable keeps its type, at any number of calls and attempts.     *)
THEOREM MutationTyped == Spec => []TypeOK
<1>1. KeyInvariant => TypeOK
  BY DEF KeyInvariant
<1>. QED BY <1>1, KeyInvariantAlways, PTL

(* The log never contradicts the database: reconcileMutation and finish    *)
(* leave no committed call read as failed, and no success without the      *)
(* key's commit.                                                           *)
THEOREM LogAgreesAlways == Spec => []LogAgrees
<1>1. KeyInvariant => LogAgrees
  <2>. SUFFICES ASSUME KeyInvariant, NEW i \in Calls
                PROVE  /\ row = i => Reading(i) \notin {"failure", "handler_timeout"}
                       /\ Reading(i) = "success" => row # None
                       /\ log[i].committed => row = i
    BY DEF LogAgrees
  <2>1. Logged(i) /\ (row = i => srv[i] = "committed") /\ i # None
    BY CallsAssumption DEF KeyInvariant, Own, RowCommitted
  <2>2. row = i => ~Inert(i)
    BY <2>1 DEF Inert
  <2>. QED BY <2>1, <2>2 DEF Logged, Denials, Reading
<1>. QED BY <1>1, KeyInvariantAlways, PTL

(* A call that has gone past its settlement leaves no open transaction on  *)
(* a live connection: the owner ended it, or its connection was destroyed, *)
(* or it had not finished opening and has been told to give up.            *)
THEOREM NothingLeftOpenAlways == Spec => []NothingLeftOpen
<1>1. KeyInvariant => NothingLeftOpen
  <2>. SUFFICES ASSUME KeyInvariant, NEW i \in Calls, PastSettlement(i),
                       srv[i] \in {"open", "keyed"}
                PROVE  tx[i].destroyed \/ (tx[i].owner \in Opening /\ tx[i].cancelled)
    BY DEF NothingLeftOpen
  <2>1. Fate(i) /\ Left(tx[i])
    BY DEF KeyInvariant, Own, Knows, PastSettlement, Late, Stopped
  <2>. QED BY <2>1 DEF Fate, FateOf, Left, Opening
<1>. QED BY <1>1, KeyInvariantAlways, PTL

-----------------------------------------------------------------------------
(* The promise of a mutation key *)

LEMMA Tells ==
  ASSUME NEW i \in Calls, NEW a \in Answers, answer[i] = Untold,
         a.tag = "ok" => row # None /\ a.of = row,
         a.tag = "no" => row # i,
         answer' = [answer EXCEPT ![i] = a], UNCHANGED row
  PROVE  Key!Next
<1>1. Key!Tell(i, a) /\ a \in Key!Answers
  BY DEF Key!Tell, Key!Untold, Key!Answers, Untold, Answers
<1>. QED BY <1>1 DEF Key!Next

(* What a settled call is told is what Tell allows.                        *)
LEMMA ReplyTells ==
  ASSUME KeyInvariant, NEW i \in Calls, call[i].pc \in {"finishing", "awaiting"},
         answer' = [answer EXCEPT ![i] = Reply(i)], UNCHANGED row
  PROVE  Key!Next
<1>1. /\ Reply(i) \in Answers
      /\ Reply(i).tag = "no" => Inert(i)
      /\ Reply(i).tag = "ok" => row # None /\ Reply(i).of = row
  BY SettledOutcome
<1>2. answer[i] = Untold
  BY DEF KeyInvariant, Own, Told
<1>3. Inert(i) => row # i
  BY DEF KeyInvariant, RowCommitted, Inert
<1>. DEFINE a == Reply(i)
<1>. HIDE DEF a
<1>4. /\ a \in Answers /\ answer' = [answer EXCEPT ![i] = a]
      /\ a.tag = "no" => row # i
      /\ a.tag = "ok" => row # None /\ a.of = row
  BY <1>1, <1>3 DEF a
<1>. QED BY <1>2, <1>4, Tells

(* Each step of the calls, hosts and database commits for the key, tells   *)
(* one call its answer, or changes neither.                                *)
LEMMA StepsKeep ==
  ASSUME KeyInvariant, [Next]_vars
  PROVE  [Key!Next]_<<row, answer>>
<1>1. CASE UNCHANGED vars
  BY <1>1 DEF vars
<1>2. ASSUME NEW i \in Calls, Commits(i)
      PROVE  Key!Next
  <2>1. srv[i] = "sent" /\ row' = i /\ UNCHANGED answer
    BY <1>2 DEF Commits
  <2>2. row = None /\ answer[i].tag # "no"
    BY <2>1 DEF KeyInvariant, OneKey, Own, Told, Inert
  <2>3. Key!Commit(i)
    BY <2>1, <2>2 DEF Key!Commit
  <2>. QED BY <2>3 DEF Key!Next
<1>3. ASSUME NEW i \in Calls, Finish(i)
      PROVE  Key!Next \/ UNCHANGED <<row, answer>>
  BY <1>3, ReplyTells DEF Finish
<1>4. ASSUME NEW i \in Calls, NEW o \in Outcomes, JournalLands(i, o)
      PROVE  Key!Next \/ UNCHANGED <<row, answer>>
  BY <1>4, ReplyTells DEF JournalLands
<1>5. ASSUME NEW i \in Calls, FinishGivesUp(i)
      PROVE  Key!Next
  <2>. DEFINE a == [tag |-> "unknown"]
  <2>1. answer' = [answer EXCEPT ![i] = a] /\ UNCHANGED row /\ call[i].pc = "awaiting"
    BY <1>5 DEF FinishGivesUp
  <2>2. a \in Answers /\ a.tag = "unknown"
    BY DEF Answers
  <2>3. answer[i] = Untold
    BY <2>1 DEF KeyInvariant, Own, Told
  <2>. HIDE DEF a
  <2>. QED BY <2>1, <2>2, <2>3, Tells
<1>6. ASSUME NEW i \in Calls,
             \/ Arrive(i) \/ Begin(i) \/ FindsCommit(i) \/ Invoke(i) \/ NotInvoked(i)
             \/ Callback(i) \/ NeverRan(i) \/ ExecutorFails(i) \/ GuestFails(i)
             \/ GuestReturns(i) \/ DeadlinePasses(i) \/ Fence(i) \/ DeadlineWins(i)
             \/ Begun(i) \/ Open(i) \/ Unopen(i)
             \/ TakeJob(i) \/ JobEnds(i) \/ Save(i) \/ InsertKey(i)
             \/ SendCommit(i) \/ SaveFails(i) \/ CommitAcked(i) \/ CommitRejected(i)
             \/ CommitUnknown(i) \/ OpenFails(i) \/ OwnerInterrupted(i)
             \/ Rollback(i) \/ Release(i) \/ Aborts(i)
             \/ Settled(i) \/ SettleGivesUp(i) \/ Resolve(i)
             \/ Shutdown(i) \/ Halt(i) \/ Crash(i)
      PROVE  UNCHANGED <<row, answer>>
  BY <1>6 DEF Arrive, Begin, FindsCommit, Invoke, NotInvoked, Callback, NeverRan,
              ExecutorFails, GuestFails, GuestReturns, DeadlinePasses, Fence,
              DeadlineWins, Begun, Open, Unopen, TakeJob, JobEnds, Save, InsertKey, SendCommit,
              SaveFails, CommitAcked, CommitRejected, CommitUnknown, OpenFails,
              OwnerInterrupted, Rollback, Release, Aborts, Settled, SettleGivesUp,
              Resolve, Shutdown, Halt, Crash
<1>. QED BY <1>1, <1>2, <1>3, <1>4, <1>5, <1>6 DEF Next

(* However the calls of a key are tried, timed out, cancelled, lost or     *)
(* stopped, at most one commits, every success reports that commit, and no *)
(* call is told it failed that has committed or ever will.                 *)
THEOREM KeyPromiseKept == Spec => KeyPromise
<1>1. Init => Key!Init
  BY DEF Init, Key!Init, Key!Untold, Untold
<1>2. KeyInvariant /\ [Next]_vars => [Key!Next]_<<row, answer>>
  BY StepsKeep
<1>. QED BY <1>1, <1>2, KeyInvariantAlways, PTL DEF Spec, KeyPromise, Key!Spec
=============================================================================
