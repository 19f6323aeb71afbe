------------------------- MODULE NotificationProofs -------------------------
(***************************************************************************)
(* No paid order drops out of the scheduler's and the operators' lists:    *)
(* NothingForgotten, for any orders and workers, while statements and the  *)
(* process do not fail.                                                    *)
(*                                                                         *)
(* The difficulty is retry_count, which overlapping workers share.  A      *)
(* worker of the pool that counts an attempt will mark the row.  A manual  *)
(* retry may not, as its context is cancelled, but it counts at most one   *)
(* attempt, and began with a reset.                                        *)
(***************************************************************************)
EXTENDS PaymentFlowProofs, FiniteSetTheorems

\* What the theorem asks of the instance.
Undisturbed ==
  /\ Disturbances \cap {"crash", "dbfault"} = {}
  /\ IsFiniteSet(ManualSlots) /\ Cardinality(ManualSlots) < MaxNotifyRetries

-----------------------------------------------------------------------------
(* The invariant.                                                          *)

\* A worker of the pool that is past getApp ends by marking its row.
Announces(w, o) == worker[w].order = o /\ worker[w].pc \notin {"idle", "getApp"}
Announced(o) == \E w \in PoolSlots : Announces(w, o)

\* A manual retry that has reset its row and may still count an attempt.
Owes(w, o) ==
  worker[w].order = o /\ worker[w].pc \in {"post", "count"} /\ ~worker[w].cancelled
Owing(o) == {w \in ManualSlots : Owes(w, o)}

SlotInv(w) ==
  /\ w \in PoolSlots => ~worker[w].cancelled
  /\ w \in ManualSlots => worker[w].pc # "getApp"

CountInv(o) ==
  notifyStatus[o] = "pending" /\ ~Announced(o)
    => retryCount[o] + Cardinality(Owing(o)) <= Cardinality(ManualSlots)

RetriesInv ==
  /\ \A w \in Workers : SlotInv(w)
  /\ \A o \in Orders : CountInv(o)

\* How many manual retries owe an attempt.
LEMMA OwingFacts ==
  ASSUME Undisturbed, NEW o \in Orders
  PROVE  /\ IsFiniteSet(Owing(o)) /\ Cardinality(Owing(o)) \in Nat
         /\ Cardinality(ManualSlots) \in Nat
         /\ Cardinality(Owing(o)) <= Cardinality(ManualSlots)
         /\ \A T \in SUBSET Owing(o) : Cardinality(T) \in Nat /\ Cardinality(T) <= Cardinality(Owing(o))
         /\ \A w \in Owing(o) : Cardinality(Owing(o) \ {w}) = Cardinality(Owing(o)) - 1
<1>1. Owing(o) \in SUBSET ManualSlots
  BY DEF Owing
<1>2. IsFiniteSet(Owing(o)) /\ Cardinality(Owing(o)) <= Cardinality(ManualSlots)
  BY <1>1, FS_Subset DEF Undisturbed
<1>3. Cardinality(Owing(o)) \in Nat /\ Cardinality(ManualSlots) \in Nat
  BY <1>2, FS_CardinalityType DEF Undisturbed
<1>4. \A T \in SUBSET Owing(o) : Cardinality(T) \in Nat /\ Cardinality(T) <= Cardinality(Owing(o))
  BY <1>2, FS_Subset, FS_CardinalityType
<1>5. \A w \in Owing(o) : Cardinality(Owing(o) \ {w}) = Cardinality(Owing(o)) - 1
  BY <1>2, FS_RemoveElement
<1>6. QED
  BY <1>2, <1>3, <1>4, <1>5

\* A step that leaves the columns alone, ends no announcement and starts no manual
\* retry.
LEMMA CountStays ==
  ASSUME IInv, Undisturbed, NEW o \in Orders, CountInv(o),
         notifyStatus'[o] = notifyStatus[o], retryCount'[o] = retryCount[o],
         Announced(o) => Announced(o)',
         \A w \in ManualSlots : Owes(w, o)' => Owes(w, o)
  PROVE  CountInv(o)'
<1>1. Owing(o)' \in SUBSET Owing(o)
  BY DEF Owing
<1>2. Cardinality(Owing(o))' \in Nat /\ Cardinality(Owing(o))' <= Cardinality(Owing(o))
  BY <1>1, OwingFacts
<1>3. /\ Cardinality(Owing(o)) \in Nat /\ Cardinality(ManualSlots) \in Nat
      /\ retryCount[o] \in Nat
  BY OwingFacts DEF IInv, TypeOK, OrderTypeOK
<1>4. QED
  BY <1>2, <1>3 DEF CountInv

\* A reset, whatever the manual retries do at the same time.
LEMMA CountReset ==
  ASSUME Undisturbed, NEW o \in Orders, retryCount'[o] = 0
  PROVE  CountInv(o)'
<1>1. Owing(o)' \in SUBSET ManualSlots
  BY DEF Owing
<1>2. /\ Cardinality(Owing(o))' \in Nat /\ Cardinality(ManualSlots) \in Nat
      /\ Cardinality(Owing(o))' <= Cardinality(ManualSlots)
  BY <1>1, FS_Subset, FS_CardinalityType DEF Undisturbed
<1>3. QED
  BY <1>2 DEF CountInv

-----------------------------------------------------------------------------
(* The steps of a worker.                                                  *)

\* The others stay as they are.
LEMMA Others ==
  ASSUME NEW w \in Workers, \A v \in Workers \ {w} : worker'[v] = worker[v]
  PROVE  \A v \in Workers \ {w} :
           /\ SlotInv(v) => SlotInv(v)'
           /\ \A o \in Orders : Announces(v, o)' <=> Announces(v, o)
           /\ \A o \in Orders : Owes(v, o)' <=> Owes(v, o)
BY DEF SlotInv, Announces, Owes

\* A step of a worker that leaves the columns alone.
LEMMA WorkerMoves ==
  ASSUME IInv, Undisturbed, RetriesInv, NEW w \in Workers,
         \A v \in Workers \ {w} : worker'[v] = worker[v],
         UNCHANGED <<notifyStatus, retryCount>>, SlotInv(w)',
         w \in PoolSlots => \A o \in Orders : Announces(w, o) => Announces(w, o)',
         w \in ManualSlots => \A o \in Orders : Owes(w, o)' => Owes(w, o)
  PROVE  RetriesInv'
<1>1. \A v \in Workers : SlotInv(v)'
  BY Others DEF RetriesInv
<1>2. ASSUME NEW o \in Orders PROVE CountInv(o)'
  <2>1. CountInv(o)
    BY DEF RetriesInv
  <2>2. Announced(o) => Announced(o)'
    BY Others DEF Announced, Workers
  <2>3. \A v \in ManualSlots : Owes(v, o)' => Owes(v, o)
    BY Others DEF Workers
  <2>4. QED
    BY <2>1, <2>2, <2>3, CountStays
<1>3. QED
  BY <1>1, <1>2 DEF RetriesInv

\* The state of a worker that is not idle.
LEMMA BusyFacts ==
  ASSUME IInv, NEW w \in Workers, worker[w].pc # "idle"
  PROVE  worker[w] \in BusyWorker /\ worker[w].order \in Orders
BY DEF IInv, TypeOK, NotifyTypeOK, Idle, BusyWorker

LEMMA IdleQuiet ==
  Idle.pc = "idle" /\ ~Idle.cancelled /\ Idle.order = NoOrder
BY DEF Idle

\* A new worker of the pool, or none.
LEMMA NotifyAsyncRetries ==
  ASSUME IInv, Undisturbed, RetriesInv, NEW o, NEW b, NotifyAsync(o, b),
         UNCHANGED <<notifyStatus, retryCount>>
  PROVE  RetriesInv'
<1>1. CASE UNCHANGED worker
  BY <1>1 DEF RetriesInv, SlotInv, CountInv, Announced, Announces, Owing, Owes
<1>2. ASSUME NEW w \in PoolSlots, worker[w] = Idle, Start(w, "getApp", o, b)
      PROVE  RetriesInv'
  <2>1. w \in Workers /\ w \notin ManualSlots
    BY SlotsAssumption DEF Workers
  <2>2. /\ worker'[w].pc = "getApp" /\ ~worker'[w].cancelled
        /\ \A v \in Workers \ {w} : worker'[v] = worker[v]
    BY <1>2, <2>1 DEF Start, IInv, TypeOK, NotifyTypeOK
  <2>3. SlotInv(w)' /\ \A p \in Orders : ~Announces(w, p)
    BY <1>2, <2>1, <2>2, IdleQuiet DEF SlotInv, Announces
  <2>4. QED
    BY <2>1, <2>2, <2>3, WorkerMoves
<1>3. QED
  BY <1>1, <1>2 DEF NotifyAsync

\* The worker works for another order.
LEMMA OtherOrders ==
  ASSUME IInv, Undisturbed, RetriesInv, NEW w \in Workers, NEW o \in Orders,
         worker[w].order # o, worker'[w].order # o,
         \A v \in Workers \ {w} : worker'[v] = worker[v],
         notifyStatus'[o] = notifyStatus[o], retryCount'[o] = retryCount[o]
  PROVE  CountInv(o)'
<1>1. ~Announces(w, o) /\ ~Owes(w, o)'
  BY DEF Announces, Owes
<1>2. Announced(o) => Announced(o)'
  BY <1>1, Others DEF Announced, Workers
<1>3. \A v \in ManualSlots : Owes(v, o)' => Owes(v, o)
  BY <1>1, Others DEF Workers
<1>4. QED
  BY <1>2, <1>3, CountStays DEF RetriesInv

LEMMA GetAppRetries ==
  ASSUME IInv, Undisturbed, RetriesInv, NEW w \in Workers, GetApp(w)
  PROVE  RetriesInv'
<1>1. worker[w].pc = "getApp" /\ SlotInv(w) /\ worker[w] \in BusyWorker
  BY BusyFacts DEF GetApp, RetriesInv
<1>2. w \in PoolSlots /\ w \notin ManualSlots
  BY <1>1, SlotsAssumption DEF SlotInv, Workers
<1>3. \/ worker' = [worker EXCEPT ![w] = [worker[w] EXCEPT !.pc = "post"]]
      \/ worker' = [worker EXCEPT ![w] = Idle]
  BY DEF GetApp
<1>4. /\ \A v \in Workers \ {w} : worker'[v] = worker[v]
      /\ ~worker'[w].cancelled
  BY <1>1, <1>2, <1>3, IdleQuiet DEF SlotInv, IInv, TypeOK, NotifyTypeOK, BusyWorker
<1>5. UNCHANGED <<notifyStatus, retryCount>>
  BY DEF GetApp, orderVars
<1>6. \A o \in Orders : ~Announces(w, o)
  BY <1>1 DEF Announces
<1>7. SlotInv(w)'
  BY <1>2, <1>4 DEF SlotInv
<1>8. QED
  BY <1>2, <1>4, <1>5, <1>6, <1>7, WorkerMoves

LEMMA PostRetries ==
  ASSUME IInv, Undisturbed, RetriesInv, NEW w \in Workers, Post(w)
  PROVE  RetriesInv'
<1>1. worker[w].pc = "post" /\ SlotInv(w) /\ worker[w] \in BusyWorker
  BY BusyFacts DEF Post, RetriesInv
<1>2. PICK ok \in BOOLEAN : Posted(w, ok)
  BY DEF Post
<1>3. /\ \A v \in Workers \ {w} : worker'[v] = worker[v]
      /\ worker'[w].pc = "count" /\ worker'[w].order = worker[w].order
      /\ worker'[w].cancelled <=> worker[w].cancelled
  BY <1>1, <1>2 DEF Posted, IInv, TypeOK, NotifyTypeOK, BusyWorker
<1>4. UNCHANGED <<notifyStatus, retryCount>>
  BY DEF Post, orderVars
<1>5. \A o \in Orders : (Announces(w, o) <=> Announces(w, o)') /\ (Owes(w, o)' <=> Owes(w, o))
  BY <1>1, <1>3 DEF Announces, Owes
<1>6. SlotInv(w)'
  BY <1>1, <1>3 DEF SlotInv
<1>7. QED
  BY <1>3, <1>4, <1>5, <1>6, WorkerMoves

\* A statement runs unless its context is cancelled.
LEMMA StatementRuns ==
  ASSUME Undisturbed, NEW w \in Workers, NEW statement, OrIgnored(w, statement)
  PROVE  IF worker[w].cancelled THEN UNCHANGED orderVars ELSE statement
BY DEF OrIgnored, Undisturbed, Disturb

\* A manual retry is cancelled when it has counted, unless it goes on to mark the row.
LEMMA CountRetries ==
  ASSUME IInv, Undisturbed, RetriesInv, NEW w \in Workers, Count(w)
  PROVE  RetriesInv'
<1>0. PICK o \in Orders : o = worker[w].order
  BY BusyFacts DEF Count
<1>1. worker[w].pc = "count" /\ SlotInv(w) /\ worker[w] \in BusyWorker /\ o = worker[w].order
  BY <1>0, BusyFacts DEF Count, RetriesInv
<1>2. worker' = [worker EXCEPT ![w] =
        [worker[w] EXCEPT !.pc = AfterAttempt(w), !.ok = FALSE,
           !.cancelled = worker[w].cancelled \/ (w \in ManualSlots /\ AfterAttempt(w) = "post")]]
  BY DEF Count
<1>3. AfterAttempt(w) \in {"post", "markNotified", "markFailed"}
  BY DEF AfterAttempt
<1>4. /\ \A v \in Workers \ {w} : worker'[v] = worker[v]
      /\ worker'[w].pc = AfterAttempt(w) /\ worker'[w].order = o
      /\ worker'[w].cancelled <=> worker[w].cancelled \/ (w \in ManualSlots /\ AfterAttempt(w) = "post")
  BY <1>1, <1>2 DEF IInv, TypeOK, NotifyTypeOK, BusyWorker
<1>5. SlotInv(w)'
  BY <1>1, <1>3, <1>4, SlotsAssumption DEF SlotInv
<1>6. \A p \in Orders : Announces(w, p)' <=> Announces(w, p)
  BY <1>1, <1>3, <1>4 DEF Announces
<1>7. w \in ManualSlots => \A p \in Orders : ~Owes(w, p)'
  BY <1>3, <1>4 DEF Owes
<1>8. CASE worker[w].cancelled
  <2>1. UNCHANGED <<notifyStatus, retryCount>>
    BY <1>8, StatementRuns DEF Count, orderVars
  <2>2. QED
    BY <1>4, <1>5, <1>6, <1>7, <2>1, WorkerMoves
<1>9. CASE ~worker[w].cancelled
  <2>1. IncrementRetryCount(o)
    BY <1>1, <1>9, StatementRuns DEF Count
  <2>2. /\ retryCount'[o] = retryCount[o] + 1 /\ UNCHANGED notifyStatus
        /\ \A p \in Orders \ {o} : retryCount'[p] = retryCount[p]
    BY <1>1, <2>1 DEF IncrementRetryCount, IInv, TypeOK, OrderTypeOK
  <2>3. ASSUME NEW p \in Orders \ {o} PROVE CountInv(p)'
    BY <1>1, <1>4, <2>2, OtherOrders
  <2>4. CountInv(o)'
    <3>1. CASE w \in PoolSlots
      <4>1. Announces(w, o)'
        BY <1>1, <1>6 DEF Announces
      <4>2. QED
        BY <3>1, <4>1 DEF CountInv, Announced
    <3>2. CASE w \in ManualSlots
      <4>1. w \in Owing(o)
        BY <1>1, <1>9, <3>2 DEF Owing, Owes
      <4>2. Owing(o)' = Owing(o) \ {w}
        <5>1. \A v \in ManualSlots \ {w} : Owes(v, o)' <=> Owes(v, o)
          BY <1>1, <1>4, Others DEF Workers
        <5>2. QED
          BY <1>1, <1>7, <5>1 DEF Owing
      <4>3. Cardinality(Owing(o))' = Cardinality(Owing(o)) - 1
        BY <1>1, <4>1, <4>2, OwingFacts
      <4>4. Announced(o)' <=> Announced(o)
        BY <1>1, <1>4, <1>6, Others DEF Announced, Workers
      <4>5. /\ Cardinality(Owing(o)) \in Nat /\ Cardinality(ManualSlots) \in Nat
            /\ retryCount[o] \in Nat
        BY <1>1, OwingFacts DEF IInv, TypeOK, OrderTypeOK
      <4>6. CountInv(o)
        BY <1>1 DEF RetriesInv
      <4>7. QED
        BY <2>2, <4>3, <4>4, <4>5, <4>6 DEF CountInv
    <3>3. QED
      BY <3>1, <3>2 DEF Workers
  <2>5. \A v \in Workers : SlotInv(v)'
    BY <1>4, <1>5, Others DEF RetriesInv
  <2>6. QED
    BY <2>3, <2>4, <2>5 DEF RetriesInv
<1>10. QED
  BY <1>8, <1>9

\* A worker of the pool marks its row; a manual retry may be cancelled.
LEMMA MarkRetries ==
  ASSUME IInv, Undisturbed, RetriesInv, NEW w \in Workers, MarkNotified(w) \/ MarkFailed(w)
  PROVE  RetriesInv'
<1>0. PICK o \in Orders : o = worker[w].order
  BY BusyFacts DEF MarkNotified, MarkFailed
<1>1. /\ worker[w].pc \in {"markNotified", "markFailed"} /\ SlotInv(w)
      /\ worker[w] \in BusyWorker /\ o = worker[w].order
  BY <1>0, BusyFacts DEF MarkNotified, MarkFailed, RetriesInv
<1>2. /\ \A v \in Workers \ {w} : worker'[v] = worker[v]
      /\ worker'[w] = Idle
  BY DEF MarkNotified, MarkFailed, IInv, TypeOK, NotifyTypeOK
<1>3. SlotInv(w)' /\ \A p \in Orders : ~Owes(w, p)'
  BY <1>2, IdleQuiet DEF SlotInv, Owes
<1>4. CASE worker[w].cancelled
  <2>1. w \in ManualSlots /\ w \notin PoolSlots
    BY <1>1, <1>4 DEF SlotInv, Workers
  <2>2. UNCHANGED <<notifyStatus, retryCount>>
    BY <1>4, StatementRuns DEF MarkNotified, MarkFailed, orderVars
  <2>3. QED
    BY <1>2, <1>3, <2>1, <2>2, WorkerMoves
<1>5. CASE ~worker[w].cancelled
  <2>1. \E new \in {"notified", "failed_notify"} : UpdateNotifyStatus(o, new)
    BY <1>1, <1>5, StatementRuns DEF MarkNotified, MarkFailed
  <2>2. /\ notifyStatus'[o] # "pending" /\ UNCHANGED retryCount
        /\ \A p \in Orders \ {o} : notifyStatus'[p] = notifyStatus[p]
    BY <1>1, <2>1 DEF UpdateNotifyStatus, IInv, TypeOK, OrderTypeOK
  <2>3. CountInv(o)'
    BY <2>2 DEF CountInv
  <2>4. ASSUME NEW p \in Orders \ {o} PROVE CountInv(p)'
    BY <1>1, <1>2, <2>2, IdleQuiet, NoOrderAssumption, OtherOrders
  <2>5. \A v \in Workers : SlotInv(v)'
    BY <1>2, <1>3, Others DEF RetriesInv
  <2>6. QED
    BY <2>3, <2>4, <2>5 DEF RetriesInv
<1>6. QED
  BY <1>4, <1>5

-----------------------------------------------------------------------------
(* The operators.                                                          *)

\* The workers and the columns are left alone.
LEMMA QuietRetries ==
  ASSUME RetriesInv, UNCHANGED <<worker, notifyStatus, retryCount>>
  PROVE  RetriesInv'
BY DEF RetriesInv, SlotInv, CountInv, Announced, Announces, Owing, Owes

LEMMA RetryNotifyRetries ==
  ASSUME IInv, Undisturbed, RetriesInv, NEW w \in ManualSlots, NEW o \in Orders, RetryNotify(w, o)
  PROVE  RetriesInv'
<1>1. w \in Workers /\ w \notin PoolSlots
  BY SlotsAssumption DEF Workers
<1>2. /\ worker'[w].pc = "reset"
      /\ \A v \in Workers \ {w} : worker'[v] = worker[v]
  BY <1>1 DEF RetryNotify, Start, IInv, TypeOK, NotifyTypeOK
<1>3. SlotInv(w)' /\ \A p \in Orders : ~Owes(w, p)'
  BY <1>1, <1>2 DEF SlotInv, Owes
<1>4. UNCHANGED <<notifyStatus, retryCount>>
  BY DEF RetryNotify, orderVars
<1>5. QED
  BY <1>1, <1>2, <1>3, <1>4, WorkerMoves

\* One row is reset, and a manual retry may start with that.
LEMMA ResetRetries ==
  ASSUME IInv, Undisturbed, RetriesInv, NEW w \in ManualSlots, RetryNotifyReset(w)
  PROVE  RetriesInv'
<1>0. PICK o \in Orders : o = worker[w].order
  BY BusyFacts DEF RetryNotifyReset, Workers
<1>1. /\ w \in Workers /\ w \notin PoolSlots /\ worker[w] \in BusyWorker
      /\ worker[w].pc = "reset"
  BY SlotsAssumption, BusyFacts DEF RetryNotifyReset, Workers
<1>2. CASE UNCHANGED orderVars /\ worker' = [worker EXCEPT ![w] = Idle]
  <2>1. worker'[w] = Idle /\ \A v \in Workers \ {w} : worker'[v] = worker[v]
    BY <1>1, <1>2 DEF IInv, TypeOK, NotifyTypeOK
  <2>2. SlotInv(w)' /\ \A p \in Orders : ~Owes(w, p)'
    BY <1>1, <2>1, IdleQuiet DEF SlotInv, Owes
  <2>3. UNCHANGED <<notifyStatus, retryCount>>
    BY <1>2 DEF orderVars
  <2>4. QED
    BY <1>1, <2>1, <2>2, <2>3, WorkerMoves
<1>3. CASE ResetNotify(o) /\ worker' = [worker EXCEPT ![w] = [worker[w] EXCEPT !.pc = "post"]]
  <2>1. /\ worker'[w].pc = "post" /\ worker'[w].order = o
        /\ \A v \in Workers \ {w} : worker'[v] = worker[v]
    BY <1>0, <1>1, <1>3 DEF IInv, TypeOK, NotifyTypeOK, BusyWorker
  <2>2. /\ retryCount'[o] = 0
        /\ \A p \in Orders \ {o} : notifyStatus'[p] = notifyStatus[p] /\ retryCount'[p] = retryCount[p]
    BY <1>3 DEF ResetNotify, IInv, TypeOK, OrderTypeOK
  <2>3. CountInv(o)'
    BY <2>2, CountReset
  <2>4. ASSUME NEW p \in Orders \ {o} PROVE CountInv(p)'
    BY <1>0, <1>1, <2>1, <2>2, OtherOrders
  <2>5. \A v \in Workers : SlotInv(v)'
    <3>1. SlotInv(w)'
      BY <1>1, <2>1 DEF SlotInv
    <3>2. QED
      BY <1>1, <2>1, <3>1, Others DEF RetriesInv
  <2>6. QED
    BY <2>3, <2>4, <2>5 DEF RetriesInv
<1>4. QED
  BY <1>0, <1>2, <1>3 DEF RetryNotifyReset

LEMMA RequestEndsRetries ==
  ASSUME IInv, Undisturbed, RetriesInv, NEW w \in ManualSlots, RequestEnds(w)
  PROVE  RetriesInv'
<1>1. /\ w \in Workers /\ w \notin PoolSlots /\ worker[w] \in BusyWorker /\ SlotInv(w)
  BY SlotsAssumption, BusyFacts DEF RequestEnds, Workers, RetriesInv
<1>2. worker' = [worker EXCEPT ![w] = [worker[w] EXCEPT !.cancelled = TRUE]]
  BY DEF RequestEnds
<1>3. /\ worker'[w].cancelled /\ worker'[w].pc = worker[w].pc
      /\ \A v \in Workers \ {w} : worker'[v] = worker[v]
  BY <1>1, <1>2 DEF IInv, TypeOK, NotifyTypeOK, BusyWorker
<1>4. SlotInv(w)' /\ \A p \in Orders : ~Owes(w, p)'
  BY <1>1, <1>3 DEF SlotInv, Owes
<1>5. UNCHANGED <<notifyStatus, retryCount>>
  BY DEF RequestEnds, orderVars
<1>6. QED
  BY <1>1, <1>3, <1>4, <1>5, WorkerMoves

\* The admin console resets a row whatever its workers do.
LEMMA ConsoleRetries ==
  ASSUME IInv, Undisturbed, RetriesInv, NEW o \in Orders, ResetNotify(o), UNCHANGED worker
  PROVE  RetriesInv'
<1>1. /\ retryCount'[o] = 0
      /\ \A p \in Orders \ {o} : notifyStatus'[p] = notifyStatus[p] /\ retryCount'[p] = retryCount[p]
  BY DEF ResetNotify, IInv, TypeOK, OrderTypeOK
<1>2. \A v \in Workers : SlotInv(v)'
  BY DEF RetriesInv, SlotInv
<1>3. CountInv(o)'
  BY <1>1, CountReset
<1>4. ASSUME NEW p \in Orders \ {o} PROVE CountInv(p)'
  <2>1. (Announced(p)' <=> Announced(p)) /\ \A v \in ManualSlots : Owes(v, p)' <=> Owes(v, p)
    BY DEF Announced, Announces, Owes
  <2>2. QED
    BY <1>1, <2>1, CountStays DEF RetriesInv
<1>5. QED
  BY <1>2, <1>3, <1>4 DEF RetriesInv

-----------------------------------------------------------------------------
(* Every behaviour.                                                        *)

LEMMA InitRetries == Undisturbed /\ Init => RetriesInv
<1> SUFFICES ASSUME Undisturbed, Init PROVE RetriesInv
  OBVIOUS
<1>1. \A w \in Workers : SlotInv(w)
  BY IdleQuiet DEF Init, NotifyInit, SlotInv
<1>2. ASSUME NEW o \in Orders PROVE CountInv(o)
  <2>1. retryCount[o] = 0
    BY DEF Init, OrderInit
  <2>2. QED
    BY <2>1, OwingFacts DEF CountInv
<1>3. QED
  BY <1>1, <1>2 DEF RetriesInv

LEMMA NextRetries == IInv /\ Undisturbed /\ RetriesInv /\ [Next]_vars => RetriesInv'
<1> SUFFICES ASSUME IInv, Undisturbed, RetriesInv, [Next]_vars PROVE RetriesInv'
  OBVIOUS
<1>1. CASE UNCHANGED <<worker, notifyStatus, retryCount>>
  BY <1>1, QuietRetries
<1>2. CASE \E h \in Handlers : NotifyWebhook(h)
  BY <1>2, NotifyAsyncRetries DEF NotifyWebhook, NotifyRefundAsync, orderVars
<1>3. CASE \E w \in Workers : WorkerStep(w)
  BY <1>3, GetAppRetries, PostRetries, CountRetries, MarkRetries DEF WorkerStep
<1>4. CASE SweepNotify
  BY <1>4, NotifyAsyncRetries DEF SweepNotify, orderVars
<1>5. CASE \E w \in ManualSlots, o \in Orders : RetryNotify(w, o)
  BY <1>5, RetryNotifyRetries
<1>6. CASE \E w \in ManualSlots : RetryNotifyReset(w) \/ RequestEnds(w)
  BY <1>6, ResetRetries, RequestEndsRetries
<1>7. CASE (\E o \in Orders : BatchRetry(o)) \/ RetryOrderReset
  <2>1. \E o \in Orders : ResetNotify(o) /\ UNCHANGED worker
    BY <1>7 DEF BatchRetry, RetryOrderReset, notifyVars, IInv, TypeOK, NotifyTypeOK
  <2>2. QED
    BY <2>1, ConsoleRetries
<1>8. CASE CrashRestart
  BY <1>8 DEF CrashRestart, Disturb, Undisturbed
<1>9. CASE \E h \in Handlers : ApplyWebhook(h) /\ UNCHANGED notifyVars
  BY <1>1, <1>9 DEF ApplyWebhook, UpdateOrderStatus, notifyVars, orderVars
<1>10. CASE \E o \in Orders : RetryOrder(o)
  BY <1>1, <1>10 DEF RetryOrder, orderVars
<1>11. CASE ProcessPendingNotifies \/ \E a \in Apps : SetAppStatus(a)
  BY <1>1, <1>11 DEF ProcessPendingNotifies, SetAppStatus, orderVars
<1>12. CASE UNCHANGED <<orderVars, notifyVars>>
  BY <1>1, <1>12 DEF orderVars, notifyVars
<1>13. CASE \E h \in Handlers, o \in Orders, e \in Events : Receives(h, o, e)
  BY <1>12, <1>13 DEF Receives
<1>14. CASE UNCHANGED vars
  BY <1>12, <1>14 DEF vars
<1>15. QED
  <2>1. CASE \E o \in Orders : /\ BuyerPays(o) \/ PlatformRefunds(o) \/ PlatformRefundFails(o)
                              /\ UNCHANGED <<orderVars, disturbed, notifyVars>>
    BY <1>12, <2>1
  <2>2. CASE \E o \in Orders, e \in Events : StripeDrops(o, e) /\ UNCHANGED <<orderVars, notifyVars>>
    BY <1>12, <2>2
  <2>3. CASE (ProcessPendingNotifies \/ SweepNotify) /\ UNCHANGED webhookVars
    BY <1>4, <1>11, <2>3
  <2>4. CASE /\ UNCHANGED webhookVars
             /\ \/ \E w \in ManualSlots, o \in Orders : RetryNotify(w, o)
                \/ \E w \in ManualSlots : RetryNotifyReset(w) \/ RequestEnds(w)
                \/ \E o \in Orders : RetryOrder(o) \/ BatchRetry(o)
                \/ RetryOrderReset
                \/ \E a \in Apps : SetAppStatus(a)
    <3>1. CASE \E o \in Orders : RetryOrder(o) \/ BatchRetry(o)
      BY <1>7, <1>10, <3>1
    <3>2. QED
      BY <1>5, <1>6, <1>7, <1>11, <2>4, <3>1
  <2>5. CASE \E o \in Orders : /\ UpdateRefundStatus(o)
                              /\ UNCHANGED <<disturbed, notifyVars, webhookVars>>
    BY <1>1, <2>5 DEF UpdateRefundStatus, notifyVars
  <2>6. CASE \E w \in Workers : WorkerStep(w) /\ UNCHANGED webhookVars
    BY <1>3, <2>6
  <2>7. QED
    BY <1>2, <1>8, <1>9, <1>13, <1>14, <2>1, <2>2, <2>3, <2>4, <2>5, <2>6 DEF Next

\* While statements and the process do not fail, and fewer RetryNotify requests run at
\* once than a worker makes attempts, a paid row that the scheduler's query skips
\* (retry_count < 5 in ListPendingNotifyOrders) and that is not yet marked has a
\* worker of the pool that will mark it.
THEOREM NothingIsForgotten ==
  ASSUME Undisturbed
  PROVE  Spec => []NothingForgotten
<1>1. IInv /\ RetriesInv => NothingForgotten
  <2> SUFFICES ASSUME IInv, RetriesInv, NEW o \in Orders, status[o] = "paid",
                      notifyStatus[o] = "pending", o \notin PendingNotify
               PROVE  Working(o)
    BY DEF NothingForgotten
  <2>1. retryCount[o] \in Nat /\ ~(retryCount[o] < MaxNotifyRetries)
    BY DEF PendingNotify, IInv, TypeOK, OrderTypeOK
  <2>2. /\ Cardinality(Owing(o)) \in Nat /\ Cardinality(ManualSlots) \in Nat
        /\ Cardinality(ManualSlots) < MaxNotifyRetries
    BY OwingFacts DEF Undisturbed
  <2>3. Announced(o)
    BY <2>1, <2>2, RetriesAssumption DEF RetriesInv, CountInv
  <2>4. QED
    BY <2>3 DEF Announced, Announces, Working
<1>2. QED
  BY <1>1, InitRetries, NextRetries, SpecIInv, PTL DEF Spec
=============================================================================
