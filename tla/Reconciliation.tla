--------------------------- MODULE Reconciliation ---------------------------
(***************************************************************************)
(* The daily reconciliation (internal/reconciliation: scheduler.go,        *)
(* reconciliation.go, report.go, repository.go; cmd/reconciliation).       *)
(*                                                                         *)
(* A scheduler compares the previous day at two in the morning, and a      *)
(* command any day once.  A run downloads and compares both channels, and  *)
(* then stores for each a file, a row of reconciliation_reports and the    *)
(* details, the latter in a transaction of their own.  Nothing keeps two   *)
(* runs of one day apart.                                                  *)
(*                                                                         *)
(* Time is counted in halves of a day: from midnight to two (even), and    *)
(* from two to midnight (odd), and starts in day 1.                        *)
(***************************************************************************)
EXTENDS BillComparison

CONSTANTS
  Schedulers,  \* processes of cmd/reconciliation
  Commands,    \* runs of cmd/reconciliation -once
  Bill,        \* the bills that a platform has, of a day and a channel
  Ledgers,     \* what the table orders may hold of a day and a channel
  Asked,       \* the days that a command may be asked for
  Reported,    \* the days and channels of which an earlier run has stored a report
  None,
  MaxTime      \* bound: the time of a behaviour

Channels == <<"wechat", "alipay">>
Runs == Schedulers \cup Commands

DayOf(t) == t \div 2
Days == 0..DayOf(MaxTime)
Keys == Days \X {"wechat", "alipay"}

ASSUME RunsAssumption == Schedulers \cap Commands = {}
ASSUME BillAssumption ==
  /\ DOMAIN Bill \subseteq Keys
  /\ \A k \in DOMAIN Bill : Bill[k] \in Seq(Record \cup {Other})
ASSUME LedgerAssumption ==
  \A k \in Keys : Ledgers[k] # {} /\ \A orders \in Ledgers[k] : IsLedger(orders)
ASSUME MaxTimeAssumption == MaxTime \in Nat /\ MaxTime >= 2
ASSUME AskedAssumption == Asked \subseteq Days

VARIABLES
  time,
  at,      \* what a run does next
  due,     \* the scheduler's timer
  date,    \* the day that a run compares
  turn,    \* the channel that it is at
  results, \* its results so far
  trouble, \* hasError
  outcome, \* whether its last reconcileDate returned an error
  file,    \* the reports' files: the result that one is of
  report,  \* reconciliation_reports, with a unique index over date and channel
  details, \* reconciliation_details: the runs whose rows are there, and their results
  sees,    \* the rows that a DELETE has found
  doomed,  \* the rows that a transaction has deleted, and locked
  last,    \* history: the day that this scheduler compared last
  late,    \* history: its job was still running at the next two o'clock
  alone,   \* history: no other run has stored this report since this one began to
  stored,  \* history: the channels whose reports this run has stored
  warned   \* history: the channels whose differences an alert has told of

runVars == <<at, due, date, turn, results, trouble, outcome>>
storeVars == <<file, report, details, sees, doomed>>
history == <<last, late, alone, stored, warned>>
vars == <<time, runVars, storeVars, history>>

\* What a run has found for the channel that it is at.
Result(r) == results[r][Channels[turn[r]]]
Clean(result) == Success(result.found)

\* Download: the platform's bill or, as nobody looks at the status of the answer, an
\* error page.  parseBill takes no data, one line, or fewer than six of Alipay's for a
\* bill without records.
Page == <<>>
Downloads(k) == IF k \in DOMAIN Bill THEN {Bill[k], Page} ELSE {}

\* The bodies that parseBill reads without an error.
Readable(k) == {bill \in Downloads(k) : k[2] = "wechat" => WechatParses(bill)}

\* Reconcile, with (history) the bill and the orders that it read.
Found(k, bill, orders) ==
  [found |-> IF k[2] = "wechat" THEN WechatReconcile(bill, orders)
             ELSE AlipayReconcile(bill, orders),
   bill |-> bill, orders |-> orders]

\* The results that a day and a channel may have.
Results(k) == {Found(k, bill, o) : bill \in Readable(k), o \in Ledgers[k]}

\* None is no day, no channel and no result.
ASSUME NoneAssumption ==
  /\ None \notin Days /\ None \notin {"wechat", "alipay"}
  /\ \A k \in Keys : None \notin Results(k)

ASSUME ReportedAssumption == Reported \subseteq Keys

\* The rows of a run's details: none when there is no difference.
Batch(r, result) == IF Clean(result) THEN {} ELSE {[by |-> r, of |-> result]}
Key(r) == <<date[r], Channels[turn[r]]>>

\* A run that has begun to store, and one that has not come to its end.
Storing == {"row", "delete", "clear", "insert"}
Working == {"compare", "file", "judge", "alerted"} \cup Storing

TypeOK ==
  /\ time \in 2..MaxTime
  /\ at \in [Runs -> {"down", "waiting", "ended"} \cup Working]
  /\ date \in [Runs -> Days] /\ turn \in [Runs -> 1..2]
  /\ due \in [Schedulers -> Nat] /\ last \in [Schedulers -> Days \cup {None}]
  /\ DOMAIN file = Keys /\ DOMAIN report = Keys /\ DOMAIN details = Keys
  /\ \A r \in Runs : at[r] # "insert" => doomed[r] = {}

Init ==
  /\ time = 2
  /\ at = [r \in Runs |-> "down"]
  /\ due = [s \in Schedulers |-> 0]
  /\ date = [r \in Runs |-> 0]
  /\ turn = [r \in Runs |-> 1]
  /\ results = [r \in Runs |-> <<>>]
  /\ trouble = [r \in Runs |-> FALSE]
  /\ outcome = [r \in Runs |-> None]
  /\ report \in [Keys -> {None} \cup UNION {Results(k) : k \in Reported}]
  /\ \A k \in Keys : report[k] \in IF k \in Reported THEN Results(k) ELSE {None}
  /\ file = report
  /\ details = [k \in Keys |-> IF report[k] = None THEN {} ELSE Batch(None, report[k])]
  /\ sees = [r \in Runs |-> {}]
  /\ doomed = [r \in Runs |-> {}]
  /\ last = [s \in Schedulers |-> None]
  /\ late = [s \in Schedulers |-> FALSE]
  /\ alone = [r \in Runs |-> FALSE]
  /\ stored = [r \in Runs |-> {}]
  /\ warned = [r \in Runs |-> {}]

Set(f, r, v) == [f EXCEPT ![r] = v]

-----------------------------------------------------------------------------
(* The scheduler.                                                          *)

\* Mutant: two o'clock of today, even when it has passed.
RunsToday(t) == 2 * DayOf(t) + 1

\* getNextRunTime: two o'clock of today, or of tomorrow when that has passed.
NextRun(t) == IF t > 2 * DayOf(t) THEN 2 * DayOf(t) + 3 ELSE 2 * DayOf(t) + 1

\* Start, in a process that may be started at any time.
Start(s) ==
  /\ at[s] = "down"
  /\ at' = Set(at, s, "waiting")
  /\ due' = Set(due, s, NextRun(time))
  /\ UNCHANGED <<time, date, turn, results, trouble, outcome, storeVars, history>>

Begin(r, d) ==
  /\ at' = Set(at, r, "compare")
  /\ date' = Set(date, r, d)
  /\ outcome' = Set(outcome, r, None)
  /\ UNCHANGED <<time, due, turn, results, trouble, storeVars, alone, stored, warned>>

\* The timer, and runReconciliation of the day before.
Fire(s) ==
  /\ at[s] = "waiting" /\ time >= due[s]
  /\ Begin(s, DayOf(time) - 1)
  /\ last' = Set(last, s, DayOf(time) - 1)
  /\ late' = Set(late, s, FALSE)

\* RunNow.
RunNow(c, d) ==
  /\ at[c] = "down"
  /\ Begin(c, d)
  /\ UNCHANGED <<last, late>>

\* Time passes; a timer that is due fires before much of it does.
Tick ==
  /\ time < MaxTime
  /\ \A s \in Schedulers : at[s] = "waiting" => time < due[s]
  /\ time' = time + 1
  /\ late' = [s \in Schedulers |-> late[s] \/ (at[s] \in Working /\ time' % 2 = 1)]
  /\ UNCHANGED <<runVars, storeVars, last, alone, stored, warned>>

\* Mutant: its transaction stays open.
KeepsLocks(r, how) ==
  /\ date' = Set(date, r, 0) /\ turn' = Set(turn, r, 1)
  /\ results' = Set(results, r, <<>>) /\ trouble' = Set(trouble, r, FALSE)
  /\ stored' = Set(stored, r, {}) /\ warned' = Set(warned, r, {})
  /\ sees' = Set(sees, r, {}) /\ UNCHANGED doomed
  /\ outcome' = Set(outcome, r, how)

\* What a run held in its variables is gone, and its transaction is rolled back.
Forgets(r, how) ==
  /\ date' = Set(date, r, 0) /\ turn' = Set(turn, r, 1)
  /\ results' = Set(results, r, <<>>) /\ trouble' = Set(trouble, r, FALSE)
  /\ stored' = Set(stored, r, {}) /\ warned' = Set(warned, r, {})
  /\ sees' = Set(sees, r, {}) /\ doomed' = Set(doomed, r, {})
  /\ outcome' = Set(outcome, r, how)

\* The end of reconcileDate: the scheduler sets its timer again, a command exits.
Ends(r, how) ==
  /\ Forgets(r, how)
  /\ at' = Set(at, r, IF r \in Schedulers THEN "waiting" ELSE "ended")
  /\ due' = IF r \in Schedulers THEN Set(due, r, NextRun(time)) ELSE due

-----------------------------------------------------------------------------
(* reconcileDate.                                                          *)

\* ReconcileAll: for a channel, what is downloaded is parsed and compared; a failure of
\* either channel ends the run.
CompareChannel(r) ==
  /\ at[r] = "compare"
  /\ \/ \E result \in Results(Key(r)) :
          /\ results' = Set(results, r,
               [c \in DOMAIN results[r] \cup {Channels[turn[r]]} |->
                  IF c = Channels[turn[r]] THEN result ELSE results[r][c]])
          /\ turn' = Set(turn, r, 3 - turn[r])
          /\ at' = Set(at, r, IF turn[r] = 2 THEN "file" ELSE "compare")
          /\ UNCHANGED <<date, outcome, trouble, due, sees, doomed, stored, warned>>
     \/ Ends(r, "error")
  /\ UNCHANGED <<time, file, report, details, last, late, alone>>

\* The next result, or the end.
Continues(r, bad) ==
  IF turn[r] = 1
  THEN /\ turn' = Set(turn, r, 2)
       /\ at' = Set(at, r, "file")
       /\ trouble' = Set(trouble, r, bad)
       /\ sees' = Set(sees, r, {}) /\ doomed' = Set(doomed, r, {})
       /\ UNCHANGED <<date, results, outcome, due, stored, warned>>
  ELSE Ends(r, IF bad THEN "error" ELSE "ok")

\* Mutant: a report that could not be stored is only logged.
SkipsQuietly(r) ==
  /\ at[r] \in {"file"} \cup Storing
  /\ Continues(r, trouble[r])
  /\ UNCHANGED <<time, file, report, details, last, late, alone>>

\* The DELETE and the INSERTs, when they are committed.
Replace(r) ==
  details' = Set(details, Key(r), (details[Key(r)] \ doomed[r]) \cup Batch(r, Result(r)))

\* GenerateReport fails at any of its steps, and its transaction is rolled back; a
\* statement or a commit may have been done, and its answer be lost.
Skip(r) ==
  /\ at[r] \in {"file"} \cup Storing
  /\ Continues(r, TRUE)
  /\ \/ at[r] = "row" /\ report' = Set(report, Key(r), Result(r)) /\ UNCHANGED details
     \/ at[r] = "insert" /\ Replace(r) /\ UNCHANGED report
     \/ UNCHANGED <<report, details>>
  /\ UNCHANGED <<time, file, last, late, alone>>

\* Generate: os.Create truncates the file, and nobody looks at the writer's errors, so
\* that what is left of a file may be less than the result.
Writes(r) ==
  /\ file' = Set(file, Key(r), Result(r))
  /\ LET others == {q \in Runs \ {r} : at[q] \in Storing /\ Key(q) = Key(r)} IN
     alone' = [q \in Runs |-> IF q \in others THEN FALSE
                              ELSE IF q = r THEN others = {} ELSE alone[q]]

Generate(r) ==
  /\ at[r] = "file"
  /\ at' = Set(at, r, "row")
  /\ Writes(r)
  /\ UNCHANGED <<time, due, date, turn, results, trouble, outcome, report, details, sees,
                 doomed, last, late, stored, warned>>

\* saveReport, an upsert.
SaveReport(r) ==
  /\ at[r] = "row"
  /\ at' = Set(at, r, "delete")
  /\ report' = Set(report, Key(r), Result(r))
  /\ UNCHANGED <<time, due, date, turn, results, trouble, outcome, file, details, sees,
                 doomed, history>>

\* saveReportDetails: the DELETE sees the rows that are committed when it starts, and
\* waits for another transaction that has deleted one of them.
StartDelete(r) ==
  /\ at[r] = "delete"
  /\ at' = Set(at, r, "clear")
  /\ sees' = Set(sees, r, details[Key(r)])
  /\ UNCHANGED <<time, due, date, turn, results, trouble, outcome, file, report, details,
                 doomed, history>>

FinishDelete(r) ==
  /\ at[r] = "clear"
  /\ \A q \in Runs \ {r} : doomed[q] \cap sees[r] \cap details[Key(r)] = {}
  /\ at' = Set(at, r, "insert")
  /\ doomed' = Set(doomed, r, sees[r] \cap details[Key(r)])
  /\ sees' = Set(sees, r, {})
  /\ UNCHANGED <<time, due, date, turn, results, trouble, outcome, file, report, details,
                 history>>

Stored(r) ==
  /\ at' = Set(at, r, "judge")
  /\ stored' = Set(stored, r, stored[r] \cup {Channels[turn[r]]})
  /\ doomed' = Set(doomed, r, {})
  /\ alone' = Set(alone, r, FALSE)
  /\ UNCHANGED <<time, due, date, turn, results, trouble, outcome, file, report, sees,
                 last, late, warned>>

\* Mutant: the rows of an earlier run stay.
AddsDetails(r) ==
  /\ at[r] = "insert"
  /\ details' = Set(details, Key(r), details[Key(r)] \cup Batch(r, Result(r)))
  /\ Stored(r)

CommitDetails(r) == at[r] = "insert" /\ Replace(r) /\ Stored(r)

\* A difference is sent as an alert, which may fail and is only logged then, and makes
\* the run an error.
Judge(r) ==
  /\ at[r] = "judge"
  /\ IF Clean(Result(r)) THEN Continues(r, trouble[r])
     ELSE /\ at' = Set(at, r, "alerted")
          /\ \/ warned' = Set(warned, r, warned[r] \cup {Channels[turn[r]]})
             \/ UNCHANGED warned
          /\ UNCHANGED <<due, date, turn, results, trouble, outcome, sees, doomed, stored>>
  /\ UNCHANGED <<time, file, report, details, last, late, alone>>

Proceed(r) ==
  /\ at[r] = "alerted"
  /\ Continues(r, TRUE)
  /\ UNCHANGED <<time, file, report, details, last, late, alone>>

\* A process dies, or main returns on a signal without waiting for the run: the
\* transaction is rolled back, and a file that is being written is cut short.
Crash(r) ==
  /\ at[r] \notin {"down", "ended"}
  /\ at' = Set(at, r, IF r \in Schedulers THEN "down" ELSE "ended")
  /\ \/ at[r] = "file" /\ Writes(r)
     \/ UNCHANGED <<file, alone>>
  /\ Forgets(r, None)
  /\ last' = [s \in Schedulers |-> IF s = r THEN None ELSE last[s]]
  /\ late' = [s \in Schedulers |-> IF s = r THEN FALSE ELSE late[s]]
  /\ due' = [s \in Schedulers |-> IF s = r THEN 0 ELSE due[s]]
  /\ UNCHANGED <<time, report, details>>

\* The steps of a run that nothing fails in, but for ReconcileAll.
Step(r) ==
  \/ CompareChannel(r)
  \/ Generate(r) \/ SaveReport(r) \/ StartDelete(r) \/ FinishDelete(r) \/ CommitDetails(r)
  \/ Judge(r) \/ Proceed(r)

Next ==
  \/ Tick
  \/ \E s \in Schedulers : Start(s) \/ Fire(s)
  \/ \E c \in Commands, d \in Asked : RunNow(c, d)
  \/ \E r \in Runs : Step(r)
  \/ \E r \in Runs : Skip(r) \/ Crash(r)

Spec == Init /\ [][Next]_vars

\* A run's calls return, with an error at the worst, and PostgreSQL serves the waiters
\* of a row in turn.
FairSpec == Spec /\ \A r \in Runs : WF_vars(Step(r)) /\ SF_vars(FinishDelete(r))

-----------------------------------------------------------------------------
(* Properties.                                                             *)

\* A report of success was earned: what the run took for the bill agreed, number by
\* number and cent by cent, with the orders that it read, though the report is written
\* long after and by several runs (compare's status = "success").  What it took for the
\* bill was the platform's own, unless the table had no order of that day: then it may
\* have been an error page, and the payments of the platform's bill are nowhere.
SuccessEarned ==
  \A k \in Keys :
    report[k] # None /\ Clean(report[k]) =>
      /\ Agree(report[k].bill, report[k].orders)
      /\ report[k].orders # {} => k \in DOMAIN Bill /\ report[k].bill = Bill[k]

\* When a run stores a report and no other run interferes, its file, its row and its
\* details are of this one run, whatever failed runs have left there.
LoneRunStores ==
  [][\A r \in Runs :
       /\ at[r] = "insert" /\ at'[r] = "judge" /\ alone[r]
       => /\ file'[Key(r)] = Result(r)
          /\ report'[Key(r)] = Result(r)
          /\ details'[Key(r)] = Batch(r, Result(r))]_vars

\* The error that a run returns is the one thing that tells of everything: it returns
\* none just when it has compared both channels, stored both reports and found no
\* difference, whichever step failed (the loop and hasError of reconcileDate).  An alert
\* tells of nothing but a difference that is stored; it may be lost.
NothingSilent ==
  [][\A r \in Runs :
       outcome[r] = None /\ outcome'[r] # None =>
         /\ outcome'[r] = "ok" <=>
              \A c \in {"wechat", "alipay"} : c \in stored[r] /\ Clean(results[r][c])
         /\ \A c \in warned[r] : c \in stored[r] /\ ~Clean(results[r][c])]_vars

\* A scheduler compares the days one after another, each once, unless a job lasts
\* until the next two o'clock or its process is started anew.
EachDayOnce ==
  [][\A s \in Schedulers :
       at[s] = "waiting" /\ at'[s] = "compare" /\ last[s] # None =>
         \/ date'[s] = last[s] + 1
         \/ late[s] /\ date'[s] > last[s] + 1]_vars

\* Every run comes to its end, though its DELETE waits for other runs.
RunsEnd == \A r \in Runs : []<>(at[r] \notin Working)


-----------------------------------------------------------------------------
(* The promise of the reconciliation, over this system's state.            *)

\* What the downloads of a day and a channel may be read as.
Charged == [k \in Keys |-> {Records(bill) : bill \in Readable(k)}]

\* What a result says: the numbers of its lines of the bill, and of its orders.
Verdict(result) ==
  [orders |-> result.orders,
   differing |-> {result.bill[i].no : i \in result.found.long \cup result.found.wrong}
                 \cup result.found.short]

Verdicts(store) ==
  [k \in Keys |-> IF store[k] = None THEN None ELSE Verdict(store[k])]

\* What a run compares, what it has found, what it stores, and whether alone.
RunDay == [r \in Runs |-> IF at[r] \in Working THEN date[r] ELSE None]
RunVerdict ==
  [r \in Runs |-> [c \in DOMAIN results[r] |-> Verdict(results[r][c])]]
RunOpen == [r \in Runs |-> IF at[r] \in Storing THEN Channels[turn[r]] ELSE None]
RunAlone == [r \in Runs |-> at[r] \in Storing /\ alone[r]]

\* What is stored of a day and a channel.
Files == Verdicts(file)
Reports == Verdicts(report)
Listing == [k \in Keys |-> {Verdict(row.of) : row \in details[k]}]

Promise == INSTANCE ReconciliationPromise WITH
  Names <- {"wechat", "alipay"},
  day <- RunDay, verdict <- RunVerdict, open <- RunOpen, alone <- RunAlone,
  kept <- stored, announced <- warned, answer <- outcome,
  file <- Files, report <- Reports, listed <- Listing

\* Runs of schedulers and commands that overlap, fail and die keep the promise: what is
\* stored, alerted and returned stems from comparisons of both channels, and names the
\* numbers that only one side has, or has with another amount.
PromiseKept == Promise!Spec

=============================================================================
