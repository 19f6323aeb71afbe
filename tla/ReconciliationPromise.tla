------------------------ MODULE ReconciliationPromise -----------------------
(***************************************************************************)
(* What GoPay promises to whoever reads its reconciliation, without        *)
(* timers, lines of a bill, statements, transactions or stages of a run:   *)
(*   - a report names the numbers that only one of the two sides has, or   *)
(*     with another amount, be it in the file, in the row or in the        *)
(*     details, and nothing else.  The sides are what the run took for     *)
(*     the platform's bill (by out_trade_no; no record at all if it was    *)
(*     an error page) and the table as it was when the run read it (by     *)
(*     order_no), so that these are not the orders that differ;            *)
(*   - nothing is stored before both channels have been compared, and a    *)
(*     run stores a channel once; undisturbed, it leaves a file, a row and *)
(*     details that are of this one comparison;                            *)
(*   - a run returns without an error just when it has kept both channels  *)
(*     and found no difference; it may send an alert for a difference that *)
(*     it has kept, and for nothing else;                                  *)
(*   - a scheduler goes on from day to day, and never back.                *)
(* Reconciliation implements this specification.                           *)
(***************************************************************************)
EXTENDS Integers

CONSTANTS
  Runs, Schedulers, Days, Names,
  Charged,  \* of a day and a channel: what a download may be read as, sets of records
  Ledgers,  \* of a day and a channel: what the table may hold
  None

VARIABLES
  last,                    \* the day that a scheduler has come to
  day, verdict,            \* of a run: what it compares, and has found
  open, alone,             \* the channel that it stores, and whether nobody else does
  kept, announced, answer, \* the channels stored and alerted, and how the run returned
  file, report, listed     \* of a day and a channel

stores == <<file, report, listed>>
vars == <<last, day, verdict, open, alone, kept, announced, answer, stores>>

Set(f, r, v) == [f EXCEPT ![r] = v]

\* The numbers that the two sides differ in.
Verdict(charged, orders) ==
  [orders |-> orders,
   differing |-> {x.no : x \in (charged \ orders) \cup (orders \ charged)}]

Verdicts(k) == {Verdict(charged, o) : charged \in Charged[k], o \in Ledgers[k]}

Nothing == [c \in {} |-> None]

Agrees(v) == v.differing = {}
Differences(v) == IF Agrees(v) THEN {} ELSE {v}

Init ==
  /\ last = [s \in Schedulers |-> None]
  /\ day = [r \in Runs |-> None] /\ verdict = [r \in Runs |-> Nothing]
  /\ open = [r \in Runs |-> None] /\ alone = [r \in Runs |-> FALSE]
  /\ kept = [r \in Runs |-> {}] /\ announced = [r \in Runs |-> {}]
  /\ answer = [r \in Runs |-> None]
  /\ DOMAIN report = Days \X Names /\ DOMAIN listed = Days \X Names
  /\ \A k \in Days \X Names :
       \/ report[k] = None /\ listed[k] = {}
       \/ report[k] \in Verdicts(k) /\ listed[k] = Differences(report[k])
  /\ file = report

\* Its day, and the verdict that it stores.
Place(r) == <<day[r], open[r]>>
Mine(r) == verdict[r][open[r]]

Begin(r, d) ==
  /\ day[r] = None
  /\ day' = Set(day, r, d) /\ answer' = Set(answer, r, None)
  /\ \/ r \in Schedulers /\ (last[r] = None \/ d > last[r]) /\ last' = Set(last, r, d)
     \/ r \notin Schedulers /\ UNCHANGED last
  /\ UNCHANGED <<verdict, open, alone, kept, announced, stores>>

Compare(r, c) ==
  /\ day[r] # None /\ c \notin DOMAIN verdict[r]
  /\ \E v \in Verdicts(<<day[r], c>>) :
       verdict' = Set(verdict, r, [x \in DOMAIN verdict[r] \cup {c} |->
                    IF x = c THEN v ELSE verdict[r][x]])
  /\ UNCHANGED <<last, day, open, alone, kept, announced, answer, stores>>

\* The file of a channel, by a run that has compared both.
Writes(r, c) ==
  /\ DOMAIN verdict[r] = Names /\ open[r] = None /\ c \notin kept[r]
  /\ file' = Set(file, <<day[r], c>>, verdict[r][c])
Rivals(r, c) == {q \in Runs \ {r} : open[q] = c /\ day[q] = day[r]}

Write(r, c) ==
  /\ Writes(r, c)
  /\ open' = Set(open, r, c)
  /\ alone' = [q \in Runs |-> IF q = r THEN Rivals(r, c) = {} ELSE alone[q] /\ q \notin Rivals(r, c)]
  /\ UNCHANGED <<last, day, verdict, kept, announced, answer, report, listed>>

Resets(r, how) ==
  /\ day' = Set(day, r, None) /\ verdict' = Set(verdict, r, Nothing)
  /\ open' = Set(open, r, None)
  /\ kept' = Set(kept, r, {}) /\ announced' = Set(announced, r, {})
  /\ answer' = Set(answer, r, how)

\* A channel that could not be stored makes the run an error, at once or later.
GivesUp(r) ==
  /\ alone' = Set(alone, r, FALSE)
  /\ \/ open' = Set(open, r, None) /\ UNCHANGED <<day, verdict, kept, announced, answer>>
     \/ Resets(r, "error")

GoesOn == UNCHANGED <<day, verdict, open, alone, kept, announced, answer>>

Keeps(r) ==
  /\ open' = Set(open, r, None) /\ alone' = Set(alone, r, FALSE)
  /\ kept' = Set(kept, r, kept[r] \cup {open[r]})
  /\ UNCHANGED <<day, verdict, announced, answer>>

Publish(r) ==
  /\ open[r] # None
  /\ report' = Set(report, Place(r), Mine(r))
  /\ GoesOn \/ GivesUp(r)
  /\ UNCHANGED <<last, file, listed>>

\* The details: some of those that are there go, and undisturbed all of them.
Replace(r) ==
  /\ open[r] # None
  /\ alone[r] => file[Place(r)] = Mine(r) /\ report[Place(r)] = Mine(r)
  /\ \E gone \in SUBSET listed[Place(r)] :
       /\ alone[r] => gone = listed[Place(r)]
       /\ listed' = Set(listed, Place(r), (listed[Place(r)] \ gone) \cup Differences(Mine(r)))
  /\ Keeps(r) \/ GivesUp(r)
  /\ UNCHANGED <<last, file, report>>

Fail(r) ==
  /\ open[r] # None
  /\ GivesUp(r)
  /\ UNCHANGED <<last, stores>>

Announce(r, c) ==
  /\ c \in kept[r] /\ ~Agrees(verdict[r][c])
  /\ announced' = Set(announced, r, announced[r] \cup {c})
  /\ UNCHANGED <<last, day, verdict, open, alone, kept, answer, stores>>

\* It is an error unless both channels are kept and agree.
Return(r) ==
  /\ day[r] # None /\ open[r] = None
  /\ Resets(r, IF \A c \in Names : c \in kept[r] /\ Agrees(verdict[r][c]) THEN "ok" ELSE "error")
  /\ UNCHANGED <<last, alone, stores>>

\* A process dies, perhaps with a file of a report that it has not stored.
Die(r) ==
  /\ \/ UNCHANGED file /\ alone' = Set(alone, r, FALSE)
     \/ \E c \in Names :
          /\ Writes(r, c)
          /\ alone' = [q \in Runs |-> alone[q] /\ q \notin Rivals(r, c) \cup {r}]
  /\ Resets(r, None)
  /\ last' = [s \in Schedulers |-> IF s = r THEN None ELSE last[s]]
  /\ UNCHANGED <<report, listed>>

Next ==
  \E r \in Runs :
    \/ \E d \in Days : Begin(r, d)
    \/ \E c \in Names : Compare(r, c) \/ Write(r, c) \/ Announce(r, c)
    \/ Publish(r) \/ Replace(r) \/ Fail(r) \/ Return(r) \/ Die(r)

Spec == Init /\ [][Next]_vars
=============================================================================
