------------------------- MODULE ReconciliationProofs -------------------------
(***************************************************************************)
(* Reconciliation for any schedulers, commands, bills, ledgers and days:   *)
(* what a report of success means, what a run leaves behind and says, and  *)
(* which days a scheduler compares.                                        *)
(***************************************************************************)
EXTENDS Reconciliation, TLAPS

-----------------------------------------------------------------------------
(* The comparison.                                                         *)

\* compare finds nothing exactly when the records, as a set, are the orders: no
\* record is unknown, none differs, and no order is missing from the bill.
THEOREM CompareCorrect ==
  ASSUME NEW external, NEW internal,
         \A o, p \in internal : o.no = p.no => o = p
  PROVE  Success(Compare(external, internal))
           <=> {external[i] : i \in DOMAIN external} = internal
<1> DEFINE known == {i \in DOMAIN external : \E o \in internal : o.no = external[i].no}
           equal == {i \in DOMAIN external : external[i] \in internal}
           result == Compare(external, internal)
<1>1. /\ result.long = DOMAIN external \ known
      /\ result.wrong = known \ equal
      /\ result.short = {o.no : o \in {p \in internal : ~Listed(external, p.no)}}
  BY DEF Compare
<1>2. Success(result) <=> result.long = {} /\ result.short = {} /\ result.wrong = {}
  BY DEF Success
<1> HIDE DEF result
<1>3. ASSUME Success(result)
      PROVE  {external[i] : i \in DOMAIN external} = internal
  <2>1. \A i \in DOMAIN external : external[i] \in internal
    BY <1>1, <1>2, <1>3
  <2>2. \A o \in internal : \E i \in DOMAIN external : external[i].no = o.no
    BY <1>1, <1>2, <1>3 DEF Listed
  <2>3. QED
    BY <2>1, <2>2
<1>4. ASSUME {external[i] : i \in DOMAIN external} = internal
      PROVE  Success(result)
  <2>1. \A i \in DOMAIN external : external[i] \in internal
    BY <1>4
  <2>2. \A o \in internal : Listed(external, o.no)
    BY <1>4 DEF Listed
  <2>3. QED
    BY <1>1, <1>2, <2>1, <2>2
<1>5. QED
  BY <1>3, <1>4 DEF result

\* A result that a run may have for a day and a channel.
Earned(k, result) == result \in Results(k)

\* The records of a body that a channel's parser has read.
Parse(k, bill) == IF k[2] = "wechat" THEN ParseWechat(bill) ELSE ParseAlipay(bill)

LEMMA ParsedRecords ==
  ASSUME NEW k \in Keys, NEW bill \in Readable(k)
  PROVE  /\ \A orders : Found(k, bill, orders).found = Compare(Parse(k, bill), orders)
         /\ DOMAIN Parse(k, bill) = {i \in DOMAIN bill : bill[i] # Other}
         /\ \A i \in DOMAIN Parse(k, bill) : Parse(k, bill)[i] = Entry(bill[i])
         /\ {Parse(k, bill)[i] : i \in DOMAIN Parse(k, bill)} = Records(bill)
<1> DEFINE records == Parse(k, bill)
<1>1. \A orders : Found(k, bill, orders).found = Compare(records, orders)
  BY DEF Found, WechatReconcile, AlipayReconcile, Parse
<1>2. /\ DOMAIN records = {i \in DOMAIN bill : bill[i] # Other}
      /\ \A i \in DOMAIN records : records[i] = Entry(bill[i])
  <2>1. CASE k[2] = "wechat"
    BY <2>1 DEF Readable, WechatParses, ParseWechat, Parse
  <2>2. CASE k[2] # "wechat"
    BY <2>2 DEF ParseAlipay, Parse
  <2>3. QED
    BY <2>1, <2>2
<1> HIDE DEF records
<1>3. {records[i] : i \in DOMAIN records} = Records(bill)
  BY <1>2 DEF Records
<1>4. QED
  BY <1>1, <1>2, <1>3 DEF records

\* Such a result is clean when what was read agrees with the orders, and what was read
\* was the platform's bill when there are orders.
LEMMA EarnedAgrees ==
  ASSUME NEW k \in Keys, NEW result, Earned(k, result), Clean(result)
  PROVE  /\ Agree(result.bill, result.orders)
         /\ result.orders # {} => k \in DOMAIN Bill /\ result.bill = Bill[k]
<1>1. PICK bill \in Readable(k), orders \in Ledgers[k] : result = Found(k, bill, orders)
  BY DEF Earned, Results
<1>2. result.bill = bill /\ result.orders = orders
  BY <1>1 DEF Found
<1>3. \A o, p \in orders : o.no = p.no => o = p
  BY LedgerAssumption DEF IsLedger
<1> DEFINE records == Parse(k, bill)
<1>4. /\ result.found = Compare(records, orders)
      /\ {records[i] : i \in DOMAIN records} = Records(bill)
  BY <1>1, ParsedRecords
<1> HIDE DEF records
<1>5. Agree(bill, orders)
  BY <1>3, <1>4, CompareCorrect DEF Clean, Agree
<1>6. bill \in Downloads(k)
  BY DEF Readable
<1>7. bill = Page => Records(bill) = {}
  BY DEF Records, Page
<1>8. QED
  BY <1>2, <1>5, <1>6, <1>7 DEF Agree, Downloads

-----------------------------------------------------------------------------
(* The invariant.                                                          *)

Idle == {"down", "waiting", "ended"}
Channel(r) == Channels[turn[r]]

\* What a run holds in its variables.
RunInv(r) ==
  /\ at[r] \in Idle =>
       /\ turn[r] = 1 /\ ~trouble[r] /\ stored[r] = {} /\ DOMAIN results[r] = {}
  /\ at[r] = "compare" =>
       /\ ~trouble[r] /\ stored[r] = {}
       /\ DOMAIN results[r] = IF turn[r] = 1 THEN {} ELSE {"wechat"}
  /\ at[r] \notin Idle \cup {"compare"} => DOMAIN results[r] = {"wechat", "alipay"}
  /\ \A c \in DOMAIN results[r] : Earned(<<date[r], c>>, results[r][c])
  /\ stored[r] \subseteq DOMAIN results[r]
  /\ \A c \in warned[r] : c \in stored[r] /\ ~Clean(results[r][c])
  /\ at[r] \in {"judge", "alerted"} => Channel(r) \in stored[r]
  /\ at[r] \notin Idle \cup {"compare"} /\ turn[r] = 2 /\ ~trouble[r] =>
       "wechat" \in stored[r] /\ Clean(results[r]["wechat"])

\* A run that is alone with the reports of its day and channel: what it has stored
\* so far is still there, and what it is about to delete is all there is.
AloneInv(r) ==
  alone[r] /\ at[r] \in Storing =>
    /\ \A q \in Runs \ {r} : at[q] \in Storing => Key(q) # Key(r)
    /\ file[Key(r)] = Result(r)
    /\ at[r] # "row" => report[Key(r)] = Result(r)
    /\ at[r] = "clear" => sees[r] = details[Key(r)]
    /\ at[r] = "insert" => doomed[r] = details[Key(r)]

\* A scheduler and the clock: its timer is set to the two o'clock after the one of its
\* last job, unless that job was late.
TimerInv(s) ==
  /\ at[s] = "waiting" => time <= due[s] /\ due[s] % 2 = 1
  /\ at[s] = "down" => last[s] = None
  /\ at[s] # "ended"
  /\ last[s] # None =>
       /\ ~late[s] /\ at[s] = "waiting" => due[s] = 2 * last[s] + 5
       /\ late[s] /\ at[s] = "waiting" => due[s] >= 2 * last[s] + 7
       /\ ~late[s] /\ at[s] # "waiting" => time \in {2 * last[s] + 3, 2 * last[s] + 4}
       /\ late[s] /\ at[s] # "waiting" => time >= 2 * last[s] + 5

\* The functions of the state that TypeOK leaves open.
Shape ==
  /\ \A f \in {results, outcome, sees, doomed, stored, warned} : DOMAIN f = Runs
  /\ trouble \in [Runs -> BOOLEAN] /\ alone \in [Runs -> BOOLEAN]
  /\ late \in [Schedulers -> BOOLEAN]

\* What is stored was found by a run.
ReportInv == \A k \in Keys : report[k] # None => Earned(k, report[k])

IInv ==
  /\ TypeOK /\ Shape /\ ReportInv
  /\ \A r \in Runs : RunInv(r) /\ AloneInv(r)
  /\ \A s \in Schedulers : TimerInv(s)

\* The part of TypeOK and Shape that the steps of a run are about.
Local ==
  /\ at \in [Runs -> Idle \cup Working]
  /\ date \in [Runs -> Days] /\ turn \in [Runs -> 1..2]
  /\ trouble \in [Runs -> BOOLEAN]
  /\ \A f \in {results, outcome, sees, doomed, stored, warned} : DOMAIN f = Runs

\* A step of one run leaves the variables of the others alone.
OthersKept(r) ==
  \A q \in Runs \ {r} :
    /\ at'[q] = at[q] /\ date'[q] = date[q] /\ turn'[q] = turn[q]
    /\ results'[q] = results[q] /\ trouble'[q] = trouble[q] /\ outcome'[q] = outcome[q]
    /\ stored'[q] = stored[q] /\ warned'[q] = warned[q]
    /\ sees'[q] = sees[q] /\ doomed'[q] = doomed[q]

Act(r) ==
  \/ Step(r) \/ Skip(r) \/ Crash(r)
  \/ r \in Schedulers /\ (Start(r) \/ Fire(r))
  \/ r \in Commands /\ \E d \in Asked : RunNow(r, d)

-----------------------------------------------------------------------------
(* Frames.                                                                 *)

LEMMA SetFacts ==
  ASSUME NEW S, NEW f, DOMAIN f = S, NEW r \in S, NEW v
  PROVE  /\ DOMAIN Set(f, r, v) = S /\ Set(f, r, v)[r] = v
         /\ \A q \in S \ {r} : Set(f, r, v)[q] = f[q]
BY DEF Set

\* The end of a run changes nothing of another.
LEMMA EndsFrame ==
  ASSUME TypeOK, Shape, NEW r \in Runs, NEW how, Ends(r, how)
  PROVE  /\ OthersKept(r)
         /\ at'[r] \in {"waiting", "ended"} /\ date'[r] = 0 /\ turn'[r] = 1
         /\ results'[r] = <<>> /\ trouble'[r] = FALSE /\ stored'[r] = {}
         /\ warned'[r] = {} /\ sees'[r] = {} /\ doomed'[r] = {} /\ outcome'[r] = how
         /\ Local'
BY MaxTimeAssumption DEF Local, Ends, Forgets, Set, OthersKept, Shape, TypeOK, Idle, Days, DayOf

\* What Continues does to the run: the second channel, or the end.
LEMMA ContinuesFrame ==
  ASSUME TypeOK, Shape, NEW r \in Runs, at[r] \notin Idle, NEW bad \in BOOLEAN,
         Continues(r, bad)
  PROVE  /\ OthersKept(r) /\ Local'
         /\ sees'[r] = {} /\ doomed'[r] = {}
         /\ \/ /\ turn[r] = 1 /\ turn'[r] = 2 /\ at'[r] = "file" /\ trouble'[r] = bad
               /\ date'[r] = date[r] /\ results'[r] = results[r] /\ stored'[r] = stored[r]
               /\ warned'[r] = warned[r] /\ outcome'[r] = outcome[r] /\ due' = due
            \/ turn[r] = 2 /\ Ends(r, IF bad THEN "error" ELSE "ok")
<1>1. CASE turn[r] = 1
  <2>1. /\ turn' = Set(turn, r, 2) /\ at' = Set(at, r, "file") /\ trouble' = Set(trouble, r, bad)
        /\ sees' = Set(sees, r, {}) /\ doomed' = Set(doomed, r, {})
        /\ UNCHANGED <<date, results, outcome, due, stored, warned>>
    BY <1>1 DEF Continues
  <2>2. OthersKept(r) /\ Local'
    BY <2>1 DEF Local, Set, OthersKept, Shape, TypeOK, Working, Storing, Idle
  <2>3. QED
    BY <1>1, <2>1, <2>2 DEF Set, Shape, TypeOK
<1>2. CASE turn[r] # 1
  <2>1. turn[r] = 2
    BY <1>2 DEF TypeOK
  <2>2. Ends(r, IF bad THEN "error" ELSE "ok")
    BY <1>2 DEF Continues
  <2>3. QED
    BY <2>1, <2>2, EndsFrame
<1>3. QED
  BY <1>1, <1>2

\* Where it leaves the run.
LEMMA ContinuesTo ==
  ASSUME TypeOK, Shape, NEW r \in Runs, at[r] \notin Idle, NEW bad \in BOOLEAN,
         Continues(r, bad)
  PROVE  at'[r] \in {"file", "waiting", "ended"}
<1>1. \/ at'[r] = "file"
      \/ Ends(r, IF bad THEN "error" ELSE "ok")
  BY ContinuesFrame
<1>2. ASSUME NEW how, Ends(r, how) PROVE at'[r] \in {"waiting", "ended"}
  BY <1>2, EndsFrame
<1>3. QED
  BY <1>1, <1>2

\* A step of a run is a step of nobody else, and keeps the shape of what it changes.
LEMMA ActFrame ==
  ASSUME TypeOK, Shape, NEW r \in Runs, Act(r)
  PROVE  OthersKept(r) /\ Local'
<1>0. Local
  BY DEF Local, TypeOK, Shape, Idle
<1>1. CASE CompareChannel(r)
  <2>1. CASE Ends(r, "error")
    BY <2>1, EndsFrame
  <2>2. CASE ~Ends(r, "error")
    <3>1. PICK result \in Results(Key(r)) :
            /\ results' = Set(results, r,
                 [c \in DOMAIN results[r] \cup {Channels[turn[r]]} |->
                    IF c = Channels[turn[r]] THEN result ELSE results[r][c]])
            /\ turn' = Set(turn, r, 3 - turn[r])
            /\ at' = Set(at, r, IF turn[r] = 2 THEN "file" ELSE "compare")
            /\ UNCHANGED <<date, outcome, trouble, due, sees, doomed, stored, warned>>
      BY <1>1, <2>2 DEF CompareChannel
    <3>2. turn' \in [Runs -> 1..2] /\ \A q \in Runs \ {r} : turn'[q] = turn[q]
      BY <3>1 DEF TypeOK, Set
    <3>3. at' \in [Runs -> Idle \cup Working] /\ \A q \in Runs \ {r} : at'[q] = at[q]
      BY <3>1, <1>0 DEF Local, Set, Working
    <3>4. DOMAIN results' = Runs /\ \A q \in Runs \ {r} : results'[q] = results[q]
      BY <3>1, SetFacts DEF Shape
    <3>5. UNCHANGED <<date, outcome, trouble, sees, doomed, stored, warned>>
      BY <3>1
    <3>6. QED
      BY <3>2, <3>3, <3>4, <3>5, <1>0 DEF Local, OthersKept
  <2>3. QED
    BY <2>1, <2>2
<1>2. CASE Generate(r)
  BY <1>0, <1>2 DEF Generate, Local, Set, OthersKept, Working, Storing, history
<1>3. CASE SaveReport(r)
  BY <1>0, <1>3 DEF SaveReport, Local, Set, OthersKept, Working, Storing, history
<1>4. CASE StartDelete(r)
  BY <1>0, <1>4 DEF StartDelete, Local, Set, OthersKept, Working, Storing, history
<1>5. CASE FinishDelete(r)
  BY <1>0, <1>5 DEF FinishDelete, Local, Set, OthersKept, Working, Storing, history
<1>6. CASE CommitDetails(r)
  BY <1>0, <1>6 DEF CommitDetails, Stored, Local, Set, OthersKept, Working, Storing, history
<1>7. CASE Judge(r)
  <2>1. CASE Clean(Result(r))
    BY <1>7, <2>1, ContinuesFrame DEF Judge, Idle, Shape
  <2>2. CASE ~Clean(Result(r))
    BY <1>0, <1>7, <2>2 DEF Judge, Local, Set, OthersKept, Working, Storing, history
  <2>3. QED
    BY <2>1, <2>2
<1>8. CASE Proceed(r)
  BY <1>8, ContinuesFrame DEF Proceed, Idle
<1>9. CASE Skip(r)
  BY <1>9, ContinuesFrame DEF Skip, Idle, Storing
<1>10. CASE Crash(r)
  BY <1>0, <1>10, MaxTimeAssumption
     DEF Crash, Forgets, Local, Set, OthersKept, Idle, Days, DayOf
<1>11. ASSUME NEW d \in Days, Begin(r, d) PROVE OthersKept(r) /\ Local'
  BY <1>0, <1>11 DEF Begin, Local, Set, OthersKept, Working, storeVars
<1>12. CASE r \in Schedulers /\ Fire(r)
  <2>1. DayOf(time) - 1 \in Days
    BY MaxTimeAssumption DEF TypeOK, Days, DayOf
  <2>2. QED
    BY <1>11, <1>12, <2>1 DEF Fire
<1>13. CASE r \in Commands /\ \E d \in Asked : RunNow(r, d)
  BY <1>11, <1>13, AskedAssumption DEF RunNow
<1>14. CASE r \in Schedulers /\ Start(r)
  BY <1>0, <1>14 DEF Start, Local, Set, OthersKept, Idle, storeVars, history
<1>15. QED
  BY <1>1, <1>2, <1>3, <1>4, <1>5, <1>6, <1>7, <1>8, <1>9, <1>10, <1>12, <1>13, <1>14
     DEF Act, Step

-----------------------------------------------------------------------------
(* What a run holds.                                                       *)

\* A run that has ended holds nothing.
LEMMA EndedRunInv ==
  ASSUME NEW r \in Runs, at'[r] \in Idle, turn'[r] = 1, trouble'[r] = FALSE, stored'[r] = {},
         warned'[r] = {}, results'[r] = <<>>
  PROVE  RunInv(r)'
<1>1. DOMAIN results'[r] = {}
  OBVIOUS
<1>2. at'[r] \notin {"compare", "judge", "alerted"}
  BY DEF Idle
<1>3. QED
  BY <1>1, <1>2 DEF RunInv

\* Continues, after a step that was bad, or for a result that is clean and stored.
LEMMA ContinuesRunInv ==
  ASSUME IInv, NEW r \in Runs, at[r] \notin Idle \cup {"compare"}, NEW bad \in BOOLEAN,
         Continues(r, bad), at[r] = "judge" => Clean(Result(r)),
         ~bad => at[r] = "judge"
  PROVE  RunInv(r)'
<1>1. RunInv(r) /\ TypeOK /\ Shape
  BY DEF IInv
<1>2. CASE turn[r] = 1
  <2>1. /\ turn'[r] = 2 /\ at'[r] = "file" /\ trouble'[r] = bad
        /\ date'[r] = date[r] /\ results'[r] = results[r] /\ stored'[r] = stored[r]
        /\ warned'[r] = warned[r]
    BY <1>1, <1>2, ContinuesFrame
  <2>2. \A c \in warned[r] : c \in stored[r] /\ ~Clean(results[r][c])
    BY <1>1 DEF RunInv
  <2>3. ~bad => "wechat" \in stored[r] /\ Clean(results[r]["wechat"])
    BY <1>1, <1>2 DEF RunInv, Result, Channel, Channels
  <2>4. DOMAIN results[r] = {"wechat", "alipay"}
    BY <1>1 DEF RunInv
  <2>5. QED
    BY <1>1, <2>1, <2>2, <2>3, <2>4 DEF RunInv, Idle
<1>3. CASE turn[r] # 1
  <2>1. PICK how : Ends(r, how)
    BY <1>1, <1>3, ContinuesFrame
  <2>2. QED
    BY <1>1, <2>1, EndsFrame, EndedRunInv DEF Idle
<1>4. QED
  BY <1>2, <1>3

LEMMA CompareRunInv ==
  ASSUME IInv, NEW r \in Runs, CompareChannel(r)
  PROVE  RunInv(r)'
<1>1. RunInv(r) /\ TypeOK /\ Shape /\ at[r] = "compare"
  BY DEF IInv, CompareChannel
<1>2. CASE Ends(r, "error")
  BY <1>1, <1>2, EndsFrame, EndedRunInv DEF Idle
<1>3. CASE ~Ends(r, "error")
  <2> DEFINE c == Channels[turn[r]]
             known == DOMAIN results[r]
  <2>1. PICK result \in Results(Key(r)) :
          /\ results' = Set(results, r,
               [x \in known \cup {c} |-> IF x = c THEN result ELSE results[r][x]])
          /\ turn' = Set(turn, r, 3 - turn[r])
          /\ at' = Set(at, r, IF turn[r] = 2 THEN "file" ELSE "compare")
          /\ UNCHANGED <<date, outcome, trouble, due, sees, doomed, stored, warned>>
    BY <1>3 DEF CompareChannel
  <2>2. results'[r] = [x \in known \cup {c} |-> IF x = c THEN result ELSE results[r][x]]
    BY <2>1, <1>1, SetFacts DEF Shape
  <2>3. /\ turn'[r] = 3 - turn[r] /\ at'[r] = (IF turn[r] = 2 THEN "file" ELSE "compare")
        /\ date'[r] = date[r] /\ trouble'[r] = trouble[r] /\ stored'[r] = stored[r]
        /\ warned'[r] = warned[r]
    BY <2>1, <1>1 DEF Set, TypeOK
  <2>4. ~trouble[r] /\ stored[r] = {} /\ warned[r] = {} /\ known = IF turn[r] = 1 THEN {} ELSE {"wechat"}
    BY <1>1 DEF RunInv
  <2>5. /\ turn[r] \in 1..2
        /\ turn[r] = 1 => c = "wechat"
        /\ turn[r] = 2 => c = "alipay"
    BY <1>1 DEF TypeOK, Channels
  <2>6. DOMAIN results'[r] = IF turn[r] = 1 THEN {"wechat"} ELSE {"wechat", "alipay"}
    BY <2>2, <2>4, <2>5
  <2>7. \A x \in DOMAIN results'[r] : Earned(<<date[r], x>>, results'[r][x])
    <3>1. Earned(<<date[r], c>>, result)
      BY <2>1 DEF Earned, Key
    <3>2. \A x \in known : Earned(<<date[r], x>>, results[r][x])
      BY <1>1 DEF RunInv
    <3>3. QED
      BY <2>2, <3>1, <3>2
  <2> HIDE DEF c, known
  <2>8. CASE turn[r] = 1
    <3>1. at'[r] = "compare" /\ turn'[r] = 2
      BY <2>3, <2>8
    <3>2. DOMAIN results'[r] = {"wechat"}
      BY <2>6, <2>8
    <3>3. QED
      BY <2>3, <2>4, <2>7, <3>1, <3>2 DEF RunInv, Idle
  <2>9. CASE turn[r] = 2
    <3>1. at'[r] = "file" /\ turn'[r] = 1
      BY <2>3, <2>9
    <3>2. DOMAIN results'[r] = {"wechat", "alipay"}
      BY <2>6, <2>9
    <3>3. QED
      BY <2>3, <2>4, <2>7, <3>1, <3>2 DEF RunInv, Idle
  <2>10. QED
    BY <2>5, <2>8, <2>9
<1>4. QED
  BY <1>2, <1>3

\* A step within the storing of one report.
LEMMA StoringRunInv ==
  ASSUME IInv, NEW r \in Runs,
         Generate(r) \/ SaveReport(r) \/ StartDelete(r) \/ FinishDelete(r)
  PROVE  RunInv(r)'
<1>1. RunInv(r) /\ TypeOK /\ Shape
  BY DEF IInv
<1>2. /\ at[r] \in {"file", "row", "delete", "clear"}
      /\ at'[r] \in {"row", "delete", "clear", "insert"}
  BY <1>1 DEF Generate, SaveReport, StartDelete, FinishDelete, Set, TypeOK
<1>3. UNCHANGED <<date, turn, results, trouble, stored, warned>>
  BY DEF Generate, SaveReport, StartDelete, FinishDelete, history
<1>4. QED
  BY <1>1, <1>2, <1>3 DEF RunInv, Idle

LEMMA CommitRunInv ==
  ASSUME IInv, NEW r \in Runs, CommitDetails(r)
  PROVE  RunInv(r)'
<1>1. RunInv(r) /\ TypeOK /\ Shape
  BY DEF IInv
<1>2. /\ at[r] = "insert" /\ at'[r] = "judge"
      /\ stored'[r] = stored[r] \cup {Channel(r)}
      /\ UNCHANGED <<date, turn, results, trouble, warned>>
  BY <1>1 DEF CommitDetails, Stored, Set, TypeOK, Shape, Channel
<1>3. DOMAIN results[r] = {"wechat", "alipay"} /\ Channel(r) \in {"wechat", "alipay"}
  BY <1>1, <1>2 DEF RunInv, Idle, Channel, Channels, TypeOK
<1>4. Channel(r)' = Channel(r)
  BY <1>2 DEF Channel
<1>5. QED
  BY <1>1, <1>2, <1>3, <1>4 DEF RunInv, Idle

LEMMA JudgeRunInv ==
  ASSUME IInv, NEW r \in Runs, Judge(r)
  PROVE  RunInv(r)'
<1>1. RunInv(r) /\ TypeOK /\ Shape
  BY DEF IInv
<1>2. at[r] = "judge" /\ at[r] \notin Idle \cup {"compare"}
  BY DEF Judge, Idle
<1>3. CASE Clean(Result(r))
  <2>1. Continues(r, trouble[r]) /\ trouble[r] \in BOOLEAN
    BY <1>1, <1>3 DEF Judge, Shape
  <2>2. QED
    BY <1>2, <1>3, <2>1, ContinuesRunInv
<1>4. CASE ~Clean(Result(r))
  <2>1. /\ at'[r] = "alerted" /\ warned'[r] \in {warned[r], warned[r] \cup {Channel(r)}}
        /\ UNCHANGED <<date, turn, results, trouble, stored>>
    BY <1>1, <1>4 DEF Judge, Set, TypeOK, Shape, Channel
  <2>2. Channel(r)' = Channel(r) /\ Result(r) = results[r][Channel(r)]
    BY <2>1 DEF Channel, Result
  <2>3. Channel(r) \in stored[r]
    BY <1>1, <1>2 DEF RunInv
  <2>4. QED
    BY <1>1, <1>2, <1>4, <2>1, <2>2, <2>3 DEF RunInv, Idle
<1>5. QED
  BY <1>3, <1>4

LEMMA BeginRunInv ==
  ASSUME IInv, NEW r \in Runs, at[r] \in Idle, NEW d \in Days, Begin(r, d)
  PROVE  RunInv(r)'
<1>1. RunInv(r) /\ TypeOK /\ Shape
  BY DEF IInv
<1>2. /\ at'[r] = "compare" /\ UNCHANGED <<turn, results, trouble, stored, warned>>
  BY <1>1 DEF Begin, Set, TypeOK
<1>3. QED
  BY <1>1, <1>2 DEF RunInv, Idle

LEMMA RunInvStep ==
  ASSUME IInv, NEW r \in Runs, Act(r)
  PROVE  \A q \in Runs : RunInv(q)'
<1>1. RunInv(r)'
  <2>1. CASE CompareChannel(r)
    BY <2>1, CompareRunInv
  <2>2. CASE Generate(r) \/ SaveReport(r) \/ StartDelete(r) \/ FinishDelete(r)
    BY <2>2, StoringRunInv
  <2>3. CASE CommitDetails(r)
    BY <2>3, CommitRunInv
  <2>4. CASE Judge(r)
    BY <2>4, JudgeRunInv
  <2>5. CASE Proceed(r)
    BY <2>5, ContinuesRunInv DEF Proceed, Idle
  <2>6. CASE Skip(r)
    BY <2>6, ContinuesRunInv DEF Skip, Idle, Storing
  <2>7. CASE Crash(r)
    <3>1. /\ turn'[r] = 1 /\ trouble'[r] = FALSE /\ stored'[r] = {} /\ results'[r] = <<>>
          /\ warned'[r] = {} /\ at'[r] \in Idle
      BY <2>7 DEF IInv, TypeOK, Shape, Crash, Forgets, Set, Idle
    <3>2. QED
      BY <3>1, EndedRunInv
  <2>8. CASE r \in Schedulers /\ Start(r)
    <3>1. at[r] = "down" /\ at'[r] = "waiting"
          /\ UNCHANGED <<date, turn, results, trouble, stored, warned>>
      BY <2>8 DEF Start, IInv, TypeOK, Set, history
    <3>2. RunInv(r)
      BY DEF IInv
    <3>3. QED
      BY <3>1, <3>2 DEF RunInv, Idle
  <2>9. CASE r \in Schedulers /\ Fire(r)
    <3>1. DayOf(time) - 1 \in Days /\ at[r] \in Idle
      BY <2>9, MaxTimeAssumption DEF Fire, IInv, TypeOK, Days, DayOf, Idle
    <3>2. QED
      BY <2>9, <3>1, BeginRunInv DEF Fire
  <2>10. CASE r \in Commands /\ \E d \in Asked : RunNow(r, d)
    BY <2>10, BeginRunInv, AskedAssumption DEF RunNow, Idle
  <2>11. QED
    BY <2>1, <2>2, <2>3, <2>4, <2>5, <2>6, <2>7, <2>8, <2>9, <2>10 DEF Act, Step
<1>2. ASSUME NEW q \in Runs \ {r} PROVE RunInv(q)'
  <2>1. RunInv(q)
    BY DEF IInv
  <2>2. OthersKept(r)
    BY ActFrame DEF IInv
  <2>3. QED
    BY <2>1, <2>2 DEF RunInv, OthersKept, Channel
<1>3. QED
  BY <1>1, <1>2

-----------------------------------------------------------------------------
(* What a run stores.                                                      *)

\* A run writes the reports of its own day and channel only, while it stores or, for
\* the file, when it begins to; and beginning is noticed by those that store the same.
StoreFrame(r) ==
  /\ DOMAIN file' = Keys /\ DOMAIN report' = Keys /\ DOMAIN details' = Keys
  /\ \A k \in Keys \ {Key(r)} :
       file'[k] = file[k] /\ report'[k] = report[k] /\ details'[k] = details[k]
  /\ UNCHANGED file \/ at[r] = "file"
  /\ UNCHANGED <<report, details>> \/ at[r] \in Storing
  /\ alone' \in [Runs -> BOOLEAN]
  /\ \A q \in Runs \ {r} : alone'[q] => alone[q]
  /\ ~UNCHANGED file \/ (at[r] = "file" /\ at'[r] \in Storing) =>
       \A q \in Runs \ {r} : at[q] \in Storing /\ Key(q) = Key(r) => ~alone'[q]
  /\ at'[r] \in Storing => at[r] \in Storing \cup {"file"} /\ Key(r)' = Key(r)

LEMMA KeyType ==
  ASSUME TypeOK, NEW r \in Runs
  PROVE  Key(r) \in Keys
<1>1. Channels[turn[r]] \in {"wechat", "alipay"}
  BY DEF TypeOK, Channels
<1>2. date[r] \in Days
  BY DEF TypeOK
<1>3. QED
  BY <1>1, <1>2 DEF Key, Keys

\* A step that stores nothing.
LEMMA QuietFrame ==
  ASSUME TypeOK, Shape, NEW r \in Runs, UNCHANGED <<file, report, details>>,
         alone' \in [Runs -> BOOLEAN], \A q \in Runs \ {r} : alone'[q] => alone[q],
         at'[r] \in Storing => at[r] \in Storing /\ UNCHANGED <<date, turn>>
  PROVE  StoreFrame(r)
<1>1. at'[r] \in Storing => at[r] # "file" /\ Key(r)' = Key(r)
  BY DEF Key, Storing
<1>2. QED
  BY <1>1 DEF StoreFrame, TypeOK

\* The file, of a run that begins to store or dies then.
LEMMA WritesFrame ==
  ASSUME TypeOK, Shape, NEW r \in Runs, at[r] = "file", Writes(r),
         UNCHANGED <<report, details>>, at'[r] \in Storing => UNCHANGED <<date, turn>>
  PROVE  /\ StoreFrame(r) /\ file'[Key(r)] = Result(r)
         /\ alone'[r] => \A q \in Runs \ {r} : at[q] \in Storing => Key(q) # Key(r)
<1> DEFINE others == {q \in Runs \ {r} : at[q] \in Storing /\ Key(q) = Key(r)}
<1>1. /\ file' = Set(file, Key(r), Result(r))
      /\ alone' = [q \in Runs |-> IF q \in others THEN FALSE
                                  ELSE IF q = r THEN others = {} ELSE alone[q]]
  BY DEF Writes
<1>2. /\ DOMAIN file' = Keys /\ file'[Key(r)] = Result(r)
      /\ \A k \in Keys \ {Key(r)} : file'[k] = file[k]
  BY <1>1, KeyType, SetFacts DEF TypeOK
<1>3. alone' \in [Runs -> BOOLEAN]
  BY <1>1 DEF Shape
<1>4. /\ \A q \in others : ~alone'[q]
      /\ \A q \in Runs \ {r} : alone'[q] => alone[q]
      /\ alone'[r] => others = {}
  BY <1>1
<1>5. at'[r] \in Storing => Key(r)' = Key(r)
  BY DEF Key
<1>6. QED
  BY <1>2, <1>3, <1>4, <1>5 DEF StoreFrame, TypeOK

LEMMA ActStores ==
  ASSUME TypeOK, Shape, NEW r \in Runs, Act(r)
  PROVE  StoreFrame(r)
<1> USE DEF Storing
<1>1. CASE CompareChannel(r) \/ Judge(r) \/ Proceed(r)
  <2>1. UNCHANGED <<file, report, details, alone>>
    BY <1>1 DEF CompareChannel, Judge, Proceed
  <2>2. at'[r] \notin Storing
    <3>1. CASE CompareChannel(r)
      <4>1. CASE Ends(r, "error")
        BY <4>1, EndsFrame
      <4>2. CASE ~Ends(r, "error")
        <5>1. at' = Set(at, r, IF turn[r] = 2 THEN "file" ELSE "compare")
          BY <3>1, <4>2 DEF CompareChannel
        <5>2. QED
          BY <5>1 DEF Set, TypeOK
      <4>3. QED
        BY <4>1, <4>2
    <3>2. CASE Judge(r)
      <4>1. CASE Clean(Result(r))
        <5>1. Continues(r, trouble[r]) /\ at[r] \notin Idle
          BY <3>2, <4>1 DEF Judge, Idle
        <5>2. trouble[r] \in BOOLEAN
          BY DEF Shape
        <5>3. QED
          BY <5>1, <5>2, ContinuesTo
      <4>2. CASE ~Clean(Result(r))
        BY <3>2, <4>2 DEF Judge, Set, TypeOK
      <4>3. QED
        BY <4>1, <4>2
    <3>3. CASE Proceed(r)
      <4>1. Continues(r, TRUE) /\ at[r] \notin Idle
        BY <3>3 DEF Proceed, Idle
      <4>2. QED
        BY <4>1, ContinuesTo
    <3>4. QED
      BY <1>1, <3>1, <3>2, <3>3
  <2>3. QED
    BY <2>1, <2>2, QuietFrame DEF Shape
<1>2. CASE Generate(r)
  BY <1>2, WritesFrame DEF Generate
<1>3. CASE SaveReport(r)
  <2>1. /\ report' = Set(report, Key(r), Result(r)) /\ UNCHANGED <<file, details, alone, date, turn>>
        /\ at[r] = "row"
    BY <1>3 DEF SaveReport, history
  <2>2. /\ DOMAIN report' = Keys
        /\ \A k \in Keys \ {Key(r)} : report'[k] = report[k]
    BY <2>1, KeyType, SetFacts DEF TypeOK
  <2>3. Key(r)' = Key(r)
    BY <2>1 DEF Key
  <2>4. QED
    BY <2>1, <2>2, <2>3 DEF StoreFrame, TypeOK, Shape
<1>4. CASE StartDelete(r) \/ FinishDelete(r)
  <2>1. UNCHANGED <<file, report, details, alone, date, turn>> /\ at[r] \in Storing
    BY <1>4 DEF StartDelete, FinishDelete, history
  <2>2. QED
    BY <2>1, QuietFrame DEF Shape
<1>5. ASSUME at[r] \in Storing, Replace(r), UNCHANGED <<file, report>>, at'[r] \notin Storing,
             alone' \in [Runs -> BOOLEAN], \A q \in Runs \ {r} : alone'[q] => alone[q]
      PROVE  StoreFrame(r)
  <2>1. /\ DOMAIN details' = Keys
        /\ \A k \in Keys \ {Key(r)} : details'[k] = details[k]
    BY <1>5, KeyType, SetFacts DEF Replace, TypeOK
  <2>2. QED
    BY <1>5, <2>1 DEF StoreFrame, TypeOK
<1>6. CASE CommitDetails(r)
  <2>1. /\ at[r] = "insert" /\ Replace(r) /\ UNCHANGED <<file, report>>
        /\ at' = Set(at, r, "judge") /\ alone' = Set(alone, r, FALSE)
    BY <1>6 DEF CommitDetails, Stored
  <2>2. at'[r] = "judge"
    BY <2>1 DEF Set, TypeOK
  <2>3. alone' \in [Runs -> BOOLEAN] /\ \A q \in Runs \ {r} : alone'[q] => alone[q]
    BY <2>1 DEF Set, Shape
  <2>4. QED
    BY <2>1, <2>2, <2>3, <1>5
<1>7. CASE Skip(r)
  <2>1. at'[r] \notin Storing /\ at[r] \in {"file"} \cup Storing /\ UNCHANGED <<file, alone>>
    BY <1>7, ContinuesFrame, EndsFrame DEF Skip, Idle
  <2>2. CASE at[r] = "row" /\ report' = Set(report, Key(r), Result(r)) /\ UNCHANGED details
    <3>1. /\ DOMAIN report' = Keys
          /\ \A k \in Keys \ {Key(r)} : report'[k] = report[k]
      BY <2>2, KeyType, SetFacts DEF TypeOK
    <3>2. QED
      BY <2>1, <2>2, <3>1 DEF StoreFrame, TypeOK, Shape
  <2>3. CASE at[r] = "insert" /\ Replace(r) /\ UNCHANGED report
    BY <2>1, <2>3, <1>5 DEF Shape
  <2>4. CASE UNCHANGED <<report, details>>
    BY <2>1, <2>4, QuietFrame DEF Shape
  <2>5. QED
    BY <1>7, <2>2, <2>3, <2>4 DEF Skip
<1>8. CASE Crash(r)
  <2>1. at'[r] \notin Storing /\ UNCHANGED <<report, details>>
    BY <1>8 DEF Crash, Set, TypeOK
  <2>2. CASE at[r] = "file" /\ Writes(r)
    BY <2>1, <2>2, WritesFrame
  <2>3. CASE UNCHANGED <<file, alone>>
    BY <2>1, <2>3, QuietFrame DEF Shape
  <2>4. QED
    BY <1>8, <2>2, <2>3 DEF Crash
<1>9. CASE r \in Schedulers /\ Start(r)
  BY <1>9, QuietFrame DEF Start, storeVars, history, Set, TypeOK, Shape
<1>10. ASSUME NEW d, Begin(r, d) PROVE StoreFrame(r)
  BY <1>10, QuietFrame DEF Begin, storeVars, Set, TypeOK, Shape
<1>11. QED
  BY <1>1, <1>2, <1>3, <1>4, <1>6, <1>7, <1>8, <1>9, <1>10 DEF Act, Step, Fire, RunNow

LEMMA AloneStep ==
  ASSUME IInv, NEW r \in Runs, Act(r)
  PROVE  \A q \in Runs : AloneInv(q)'
<1>0. TypeOK /\ Shape
  BY DEF IInv
<1>1. StoreFrame(r) /\ OthersKept(r)
  BY <1>0, ActStores, ActFrame
<1>2. ASSUME NEW q \in Runs \ {r}, alone'[q], at'[q] \in Storing
      PROVE  AloneInv(q)'
  <2>1. alone[q] /\ at[q] = at'[q] /\ Key(q)' = Key(q) /\ Result(q)' = Result(q)
        /\ sees'[q] = sees[q] /\ doomed'[q] = doomed[q]
    BY <1>1, <1>2 DEF StoreFrame, OthersKept, Key, Result
  <2>2. AloneInv(q)
    BY DEF IInv
  <2>3. Key(q) \in Keys
    BY <1>0, KeyType
  <2>4. at[r] \in Storing => Key(r) # Key(q)
    BY <1>2, <2>1, <2>2 DEF AloneInv
  <2>5. at'[r] \in Storing => Key(r)' # Key(q)
    BY <1>1, <1>2, <2>1, <2>4 DEF StoreFrame
  <2>6. \A p \in Runs \ {q} : at'[p] \in Storing => Key(p)' # Key(q)
    <3>1. ASSUME NEW p \in Runs \ {q, r}, at'[p] \in Storing PROVE Key(p)' # Key(q)
      <4>1. at[p] = at'[p] /\ Key(p)' = Key(p)
        BY <1>1, <3>1 DEF OthersKept, Key
      <4>2. QED
        BY <1>2, <2>1, <2>2, <3>1, <4>1 DEF AloneInv
    <3>2. QED
      BY <2>5, <3>1
  <2>7. file'[Key(q)] = file[Key(q)]
    BY <1>1, <1>2, <2>1, <2>3 DEF StoreFrame
  <2>8. report'[Key(q)] = report[Key(q)] /\ details'[Key(q)] = details[Key(q)]
    BY <1>1, <2>3, <2>4 DEF StoreFrame
  <2>9. QED
    BY <1>2, <2>1, <2>2, <2>6, <2>7, <2>8 DEF AloneInv
<1>3. ASSUME alone'[r], at'[r] \in Storing
      PROVE  AloneInv(r)'
  <2>1. /\ at[r] \in Storing \cup {"file"} /\ Key(r)' = Key(r)
        /\ \A q \in Runs \ {r} : at'[q] = at[q] /\ Key(q)' = Key(q)
    BY <1>1, <1>3 DEF StoreFrame, OthersKept, Key
  <2>2. AloneInv(r) /\ Key(r) \in Keys
    BY <1>0, KeyType DEF IInv
  <2>3. CASE Generate(r)
    <3>1. /\ at[r] = "file" /\ at'[r] = "row" /\ Writes(r)
          /\ UNCHANGED <<report, details, date, turn, results>>
      BY <1>0, <2>3 DEF Generate, Set, TypeOK
    <3>2. /\ file'[Key(r)] = Result(r)
          /\ \A q \in Runs \ {r} : at[q] \in Storing => Key(q) # Key(r)
      BY <1>0, <1>3, <3>1, WritesFrame
    <3>3. Result(r)' = Result(r)
      BY <3>1 DEF Result
    <3>4. QED
      BY <2>1, <3>1, <3>2, <3>3 DEF AloneInv
  <2>4. CASE SaveReport(r)
    <3>1. /\ at[r] = "row" /\ at'[r] = "delete" /\ report' = Set(report, Key(r), Result(r))
          /\ UNCHANGED <<file, details, date, turn, results, alone>>
      BY <1>0, <2>4 DEF SaveReport, Set, TypeOK, history
    <3>2. Result(r)' = Result(r) /\ report'[Key(r)] = Result(r)
      BY <1>0, <2>2, <3>1, SetFacts DEF Result, TypeOK
    <3>3. QED
      BY <1>3, <2>1, <2>2, <3>1, <3>2 DEF AloneInv, Storing
  <2>5. CASE StartDelete(r)
    <3>1. /\ at[r] = "delete" /\ at'[r] = "clear" /\ sees'[r] = details[Key(r)]
          /\ UNCHANGED <<file, report, details, date, turn, results, alone>>
      BY <1>0, <2>5 DEF StartDelete, Set, TypeOK, Shape, history
    <3>2. Result(r)' = Result(r)
      BY <3>1 DEF Result
    <3>3. QED
      BY <1>3, <2>1, <2>2, <3>1, <3>2 DEF AloneInv, Storing
  <2>6. CASE FinishDelete(r)
    <3>1. /\ at[r] = "clear" /\ at'[r] = "insert"
          /\ doomed'[r] = sees[r] \cap details[Key(r)]
          /\ UNCHANGED <<file, report, details, date, turn, results, alone>>
      BY <1>0, <2>6 DEF FinishDelete, Set, TypeOK, Shape, history
    <3>2. Result(r)' = Result(r)
      BY <3>1 DEF Result
    <3>3. QED
      BY <1>3, <2>1, <2>2, <3>1, <3>2 DEF AloneInv, Storing
  <2>7. CASE CommitDetails(r) \/ Skip(r) \/ Crash(r) \/ Judge(r) \/ Proceed(r) \/ CompareChannel(r)
    <3>1. at'[r] \in {"judge", "alerted", "file", "waiting", "ended", "down", "compare"}
      <4>1. CASE CommitDetails(r)
        BY <1>0, <4>1 DEF CommitDetails, Stored, Set, TypeOK
      <4>2. CASE Skip(r)
        <5>1. Continues(r, TRUE) /\ at[r] \notin Idle
          BY <4>2 DEF Skip, Storing, Idle
        <5>2. QED
          BY <1>0, <5>1, ContinuesTo
      <4>3. CASE Crash(r)
        BY <1>0, <4>3 DEF Crash, Set, TypeOK
      <4>4. CASE Judge(r)
        <5>1. CASE Clean(Result(r))
          <6>1. Continues(r, trouble[r]) /\ at[r] \notin Idle
            BY <4>4, <5>1 DEF Judge, Idle
          <6>2. trouble[r] \in BOOLEAN
            BY <1>0 DEF Shape
          <6>3. QED
            BY <1>0, <6>1, <6>2, ContinuesTo
        <5>2. CASE ~Clean(Result(r))
          BY <1>0, <4>4, <5>2 DEF Judge, Set, TypeOK
        <5>3. QED
          BY <5>1, <5>2
      <4>5. CASE Proceed(r)
        <5>1. Continues(r, TRUE) /\ at[r] \notin Idle
          BY <4>5 DEF Proceed, Idle
        <5>2. QED
          BY <1>0, <5>1, ContinuesTo
      <4>6. CASE CompareChannel(r)
        <5>1. CASE Ends(r, "error")
          BY <1>0, <5>1, EndsFrame
        <5>2. CASE ~Ends(r, "error")
          <6>1. at' = Set(at, r, IF turn[r] = 2 THEN "file" ELSE "compare")
            BY <4>6, <5>2 DEF CompareChannel
          <6>2. QED
            BY <1>0, <6>1 DEF Set, TypeOK
        <5>3. QED
          BY <5>1, <5>2
      <4>7. QED
        BY <2>7, <4>1, <4>2, <4>3, <4>4, <4>5, <4>6
    <3>2. QED
      BY <1>3, <3>1 DEF Storing
  <2>8. CASE \/ r \in Schedulers /\ (Start(r) \/ Fire(r))
             \/ r \in Commands /\ \E d \in Asked : RunNow(r, d)
    <3>1. at[r] \in {"down", "waiting"}
      BY <2>8 DEF Start, Fire, RunNow
    <3>2. QED
      BY <2>1, <3>1 DEF Storing
  <2>9. QED
    BY <2>3, <2>4, <2>5, <2>6, <2>7, <2>8 DEF Act, Step
<1>4. \A q \in Runs : ~(alone'[q] /\ at'[q] \in Storing) => AloneInv(q)'
  BY DEF AloneInv
<1>5. QED
  BY <1>2, <1>3, <1>4

\* What is stored was found by the run that stores it.
LEMMA ReportStep ==
  ASSUME IInv, NEW r \in Runs, Act(r)
  PROVE  ReportInv'
<1>0. TypeOK /\ Shape /\ RunInv(r)
  BY DEF IInv
<1>1. report' = report \/ (at[r] = "row" /\ report' = Set(report, Key(r), Result(r)))
  <2>1. StoreFrame(r)
    BY <1>0, ActStores
  <2>2. CASE at[r] \in Storing
    <3>1. CASE SaveReport(r)
      BY <3>1 DEF SaveReport
    <3>2. CASE Skip(r)
      BY <3>2 DEF Skip
    <3>3. CASE StartDelete(r) \/ FinishDelete(r) \/ Crash(r)
      BY <3>3 DEF StartDelete, FinishDelete, Crash
    <3>4. CASE CommitDetails(r)
      BY <3>4 DEF CommitDetails, Stored
    <3>5. ~(CompareChannel(r) \/ Generate(r) \/ Judge(r) \/ Proceed(r))
      BY <2>2 DEF CompareChannel, Generate, Judge, Proceed, Storing
    <3>6. ~(Start(r) \/ Fire(r)) /\ \A d \in Asked : ~RunNow(r, d)
      BY <2>2 DEF Start, Fire, RunNow, Storing
    <3>7. QED
      BY <3>1, <3>2, <3>3, <3>4, <3>5, <3>6 DEF Act, Step
  <2>3. QED
    BY <2>1, <2>2 DEF StoreFrame
<1>2. ASSUME at[r] = "row" PROVE Earned(Key(r), Result(r))
  <2>1. Channel(r) \in DOMAIN results[r]
    BY <1>0, <1>2 DEF RunInv, Idle, Channel, Channels, TypeOK
  <2>2. QED
    BY <1>0, <2>1 DEF RunInv, Key, Result, Channel
<1>3. CASE report' = report
  BY <1>3 DEF IInv, ReportInv
<1>4. CASE at[r] = "row" /\ report' = Set(report, Key(r), Result(r))
  <2>1. report'[Key(r)] = Result(r) /\ \A k \in Keys \ {Key(r)} : report'[k] = report[k]
    BY <1>0, <1>4, KeyType, SetFacts DEF TypeOK
  <2>2. QED
    BY <1>2, <1>4, <2>1 DEF IInv, ReportInv
<1>5. QED
  BY <1>1, <1>3, <1>4

-----------------------------------------------------------------------------
(* The scheduler and the clock.                                            *)

\* The next two o'clock, from a time in either half of a day.
LEMMA NextRunFacts ==
  ASSUME NEW t \in Nat
  PROVE  /\ NextRun(t) \in Nat /\ NextRun(t) % 2 = 1 /\ NextRun(t) > t
         /\ \A d \in Nat : t = 2 * d + 3 \/ t = 2 * d + 4 => NextRun(t) = 2 * d + 5
         /\ \A d \in Nat : t >= 2 * d + 5 => NextRun(t) >= 2 * d + 7
BY DEF NextRun, DayOf

LEMMA OddTime ==
  ASSUME NEW t \in Nat, t % 2 = 1
  PROVE  t = 2 * DayOf(t) + 1 /\ DayOf(t) \in Nat
<1>1. t = 2 * (t \div 2) + 1 /\ t \div 2 \in Nat
  OBVIOUS
<1>2. QED
  BY <1>1 DEF DayOf

\* How a step of a run leaves the timers: it changes nothing of them, sets its own,
\* fires, or dies.
TimerFrame(r) ==
  /\ UNCHANGED time
  /\ due' \in [Schedulers -> Nat] /\ last' \in [Schedulers -> Days \cup {None}]
  /\ late' \in [Schedulers -> BOOLEAN]
  /\ \A s \in Schedulers \ {r} : due'[s] = due[s] /\ last'[s] = last[s] /\ late'[s] = late[s]
  /\ r \in Schedulers =>
       \/ /\ due'[r] = due[r] /\ last'[r] = last[r] /\ late'[r] = late[r]
          /\ at[r] \notin Idle /\ at'[r] \notin Idle
       \/ /\ due'[r] = NextRun(time) /\ last'[r] = last[r] /\ late'[r] = late[r]
          /\ at[r] # "waiting" /\ at'[r] = "waiting"
       \/ /\ at[r] = "waiting" /\ time >= due[r] /\ at'[r] = "compare"
          /\ last'[r] = DayOf(time) - 1 /\ late'[r] = FALSE /\ due'[r] = due[r]
       \/ at'[r] = "down" /\ last'[r] = None /\ late'[r] = FALSE /\ due'[r] = 0

LEMMA TimeType ==
  ASSUME TypeOK
  PROVE  time \in Nat /\ NextRun(time) \in Nat /\ DayOf(time) - 1 \in Days
<1>1. time \in Nat /\ DayOf(time) - 1 \in Days
  BY MaxTimeAssumption DEF TypeOK, Days, DayOf
<1>2. QED
  BY <1>1, NextRunFacts

\* A run that goes on, or comes to its end.
LEMMA EndsTimer ==
  ASSUME TypeOK, Shape, NEW r \in Runs, NEW how, Ends(r, how), at[r] \notin Idle,
         UNCHANGED <<time, last, late>>
  PROVE  TimerFrame(r)
<1>1. CASE r \in Schedulers
  BY <1>1, TimeType DEF Ends, Set, TimerFrame, TypeOK, Shape, Idle
<1>2. CASE r \notin Schedulers
  BY <1>2 DEF Ends, Set, TimerFrame, TypeOK, Shape
<1>3. QED
  BY <1>1, <1>2

LEMMA SameTimer ==
  ASSUME TypeOK, Shape, NEW r \in Runs, UNCHANGED <<time, due, last, late>>,
         at[r] \notin Idle, at'[r] \notin Idle
  PROVE  TimerFrame(r)
BY DEF TimerFrame, TypeOK, Shape, Idle

LEMMA ContinuesTimer ==
  ASSUME TypeOK, Shape, NEW r \in Runs, NEW bad \in BOOLEAN, Continues(r, bad),
         at[r] \notin Idle, UNCHANGED <<time, last, late>>
  PROVE  TimerFrame(r)
<1>1. CASE turn[r] = 1
  <2>1. at'[r] = "file" /\ due' = due
    BY <1>1, ContinuesFrame
  <2>2. QED
    BY <2>1, SameTimer DEF Idle
<1>2. CASE turn[r] # 1
  <2>1. PICK how : Ends(r, how)
    BY <1>2, ContinuesFrame
  <2>2. QED
    BY <2>1, EndsTimer
<1>3. QED
  BY <1>1, <1>2

LEMMA ActTimer ==
  ASSUME TypeOK, Shape, NEW r \in Runs, Act(r)
  PROVE  TimerFrame(r)
<1> USE DEF Idle
<1>1. CASE CompareChannel(r)
  <2>1. CASE Ends(r, "error")
    BY <1>1, <2>1, EndsTimer DEF CompareChannel
  <2>2. CASE ~Ends(r, "error")
    <3>1. at' = Set(at, r, IF turn[r] = 2 THEN "file" ELSE "compare")
      BY <1>1, <2>2 DEF CompareChannel
    <3>2. at'[r] \in {"file", "compare"}
      BY <3>1 DEF Set, TypeOK
    <3>3. UNCHANGED <<time, due, last, late>> /\ at[r] = "compare"
      BY <1>1, <2>2 DEF CompareChannel
    <3>4. QED
      BY <3>2, <3>3, SameTimer
  <2>3. QED
    BY <2>1, <2>2
<1>2. CASE Generate(r) \/ SaveReport(r) \/ StartDelete(r) \/ FinishDelete(r) \/ CommitDetails(r)
  <2>1. at[r] \in {"file", "row", "delete", "clear", "insert"}
    BY <1>2 DEF Generate, SaveReport, StartDelete, FinishDelete, CommitDetails
  <2>2. at'[r] \in {"row", "delete", "clear", "insert", "judge"}
    BY <1>2 DEF Generate, SaveReport, StartDelete, FinishDelete, CommitDetails, Stored, Set, TypeOK
  <2>3. UNCHANGED <<time, due, last, late>>
    BY <1>2 DEF Generate, SaveReport, StartDelete, FinishDelete, CommitDetails, Stored, history
  <2>4. QED
    BY <2>1, <2>2, <2>3, SameTimer
<1>3. CASE Judge(r)
  <2>1. CASE Clean(Result(r))
    BY <1>3, <2>1, ContinuesTimer DEF Judge, Shape
  <2>2. CASE ~Clean(Result(r))
    <3>1. at'[r] = "alerted" /\ at[r] = "judge" /\ UNCHANGED <<time, due, last, late>>
      BY <1>3, <2>2 DEF Judge, Set, TypeOK
    <3>2. QED
      BY <3>1, SameTimer
  <2>3. QED
    BY <2>1, <2>2
<1>4. CASE Proceed(r)
  BY <1>4, ContinuesTimer DEF Proceed
<1>5. CASE Skip(r)
  BY <1>5, ContinuesTimer DEF Skip, Storing
<1>6. CASE Crash(r)
  <2>1. /\ time' = time
        /\ last' = [s \in Schedulers |-> IF s = r THEN None ELSE last[s]]
        /\ late' = [s \in Schedulers |-> IF s = r THEN FALSE ELSE late[s]]
        /\ due' = [s \in Schedulers |-> IF s = r THEN 0 ELSE due[s]]
        /\ at' = Set(at, r, IF r \in Schedulers THEN "down" ELSE "ended")
    BY <1>6 DEF Crash
  <2>2. r \in Schedulers => at'[r] = "down"
    BY <2>1 DEF Set, TypeOK
  <2>3. QED
    BY <2>1, <2>2 DEF TimerFrame, TypeOK, Shape
<1>7. CASE r \in Schedulers /\ Start(r)
  BY <1>7, TimeType DEF Start, Set, history, TimerFrame, TypeOK, Shape
<1>8. CASE r \in Schedulers /\ Fire(r)
  BY <1>8, TimeType DEF Fire, Begin, Set, TimerFrame, TypeOK, Shape
<1>9. CASE r \in Commands /\ \E d \in Asked : RunNow(r, d)
  <2>1. at[r] = "down" /\ UNCHANGED <<time, due, last, late>> /\ at'[r] = "compare"
    BY <1>9 DEF RunNow, Begin, Set, TypeOK
  <2>2. QED
    BY <1>9, <2>1, RunsAssumption DEF TimerFrame, TypeOK, Shape
<1>10. QED
  BY <1>1, <1>2, <1>3, <1>4, <1>5, <1>6, <1>7, <1>8, <1>9 DEF Act, Step

LEMMA TimerStep ==
  ASSUME IInv, NEW r \in Runs, Act(r)
  PROVE  \A s \in Schedulers : TimerInv(s)'
<1>0. TypeOK /\ Shape /\ TimerFrame(r) /\ OthersKept(r) /\ Schedulers \subseteq Runs
  BY ActTimer, ActFrame DEF IInv, Runs
<1>1. ASSUME NEW s \in Schedulers \ {r} PROVE TimerInv(s)'
  <2>1. TimerInv(s)
    BY DEF IInv
  <2>2. /\ due'[s] = due[s] /\ last'[s] = last[s] /\ late'[s] = late[s]
        /\ at'[s] = at[s] /\ time' = time
    BY <1>0 DEF TimerFrame, OthersKept
  <2>3. QED
    BY <2>1, <2>2 DEF TimerInv
<1>2. ASSUME r \in Schedulers PROVE TimerInv(r)'
  <2>0. /\ TimerInv(r) /\ time' = time /\ time \in Nat /\ due[r] \in Nat
        /\ last[r] # None => last[r] \in Nat
        /\ late[r] \in BOOLEAN
    BY <1>0, <1>2, MaxTimeAssumption DEF IInv, TimerFrame, TypeOK, Shape, Days
  <2>1. CASE /\ due'[r] = due[r] /\ last'[r] = last[r] /\ late'[r] = late[r]
             /\ at[r] \notin Idle /\ at'[r] \notin Idle
    BY <2>0, <2>1 DEF TimerInv, Idle
  <2>2. CASE /\ due'[r] = NextRun(time) /\ last'[r] = last[r] /\ late'[r] = late[r]
             /\ at[r] # "waiting" /\ at'[r] = "waiting"
    <3>1. NextRun(time) \in Nat /\ NextRun(time) % 2 = 1 /\ NextRun(time) > time
      BY <2>0, NextRunFacts
    <3>2. last[r] # None => /\ ~late[r] => NextRun(time) = 2 * last[r] + 5
                            /\ late[r] => NextRun(time) >= 2 * last[r] + 7
      BY <2>0, <2>2, NextRunFacts DEF TimerInv
    <3>3. QED
      BY <2>0, <2>2, <3>1, <3>2 DEF TimerInv
  <2>3. CASE /\ at[r] = "waiting" /\ time >= due[r] /\ at'[r] = "compare"
             /\ last'[r] = DayOf(time) - 1 /\ late'[r] = FALSE /\ due'[r] = due[r]
    <3>1. time = due[r] /\ time % 2 = 1
      BY <2>0, <2>3 DEF TimerInv
    <3>2. time = 2 * DayOf(time) + 1 /\ DayOf(time) \in Nat
      BY <2>0, <3>1, OddTime
    <3>3. time \in {2 * (DayOf(time) - 1) + 3, 2 * (DayOf(time) - 1) + 4}
      BY <2>0, <3>2
    <3>4. QED
      BY <2>0, <2>3, <3>3 DEF TimerInv
  <2>4. CASE at'[r] = "down" /\ last'[r] = None /\ late'[r] = FALSE /\ due'[r] = 0
    BY <2>4 DEF TimerInv
  <2>5. QED
    BY <1>0, <1>2, <2>1, <2>2, <2>3, <2>4 DEF TimerFrame
<1>3. QED
  BY <1>1, <1>2

LEMMA TickTimer ==
  ASSUME IInv, Tick, NEW s \in Schedulers
  PROVE  TimerInv(s)'
<1>1. /\ TimerInv(s) /\ time \in Nat /\ due[s] \in Nat /\ late[s] \in BOOLEAN
      /\ last[s] # None => last[s] \in Nat
      /\ at[s] \in Idle \cup Working
  BY MaxTimeAssumption DEF IInv, TypeOK, Shape, Days, Idle, Runs
<1>2. /\ time' = time + 1 /\ at'[s] = at[s] /\ due'[s] = due[s] /\ last'[s] = last[s]
      /\ late'[s] <=> late[s] \/ (at[s] \in Working /\ (time + 1) % 2 = 1)
      /\ at[s] = "waiting" => time < due[s]
  BY DEF Tick, runVars
<1>3. CASE at[s] = "waiting"
  <2>1. late'[s] <=> late[s]
    BY <1>2, <1>3 DEF Working, Storing
  <2>2. QED
    BY <1>1, <1>2, <1>3, <2>1 DEF TimerInv
<1>4. CASE at[s] # "waiting" /\ last[s] = None
  BY <1>1, <1>2, <1>4 DEF TimerInv
<1>5. CASE at[s] # "waiting" /\ last[s] # None /\ late[s]
  BY <1>1, <1>2, <1>5 DEF TimerInv
<1>6. CASE at[s] # "waiting" /\ last[s] # None /\ ~late[s]
  <2>1. time \in {2 * last[s] + 3, 2 * last[s] + 4} /\ last[s] \in Nat
    BY <1>1, <1>6 DEF TimerInv
  <2>2. CASE time = 2 * last[s] + 3
    <3>1. (time + 1) % 2 # 1
      BY <2>1, <2>2
    <3>2. ~late'[s]
      BY <1>2, <1>6, <3>1
    <3>3. QED
      BY <1>1, <1>2, <1>6, <2>1, <2>2, <3>2 DEF TimerInv
  <2>3. CASE time = 2 * last[s] + 4
    <3>1. (time + 1) % 2 = 1 /\ time' >= 2 * last[s] + 5
      BY <1>2, <2>1, <2>3
    <3>2. late'[s] \/ at[s] = "down"
      BY <1>1, <1>2, <1>6, <3>1 DEF TimerInv, Idle
    <3>3. QED
      BY <1>1, <1>2, <1>6, <2>1, <3>1, <3>2 DEF TimerInv
  <2>4. QED
    BY <2>1, <2>2, <2>3
<1>7. QED
  BY <1>3, <1>4, <1>5, <1>6

-----------------------------------------------------------------------------
(* The invariant.                                                          *)

LEMMA InitIInv == Init => IInv
<1> SUFFICES ASSUME Init PROVE IInv
    OBVIOUS
<1>1. TypeOK
  BY MaxTimeAssumption DEF Init, TypeOK, Days, DayOf, Runs
<1>2. Shape
  BY DEF Init, Shape
<1>3. ReportInv
  <2>1. ASSUME NEW k \in Keys, report[k] # None PROVE Earned(k, report[k])
    <3>1. report[k] \in IF k \in Reported THEN Results(k) ELSE {None}
      BY DEF Init
    <3>2. QED
      BY <2>1, <3>1 DEF Earned
  <2>2. QED
    BY <2>1 DEF ReportInv
<1>4. ASSUME NEW r \in Runs PROVE RunInv(r) /\ AloneInv(r)
  <2>1. /\ at[r] = "down" /\ turn[r] = 1 /\ trouble[r] = FALSE /\ stored[r] = {}
        /\ warned[r] = {} /\ results[r] = <<>>
    BY DEF Init
  <2>2. DOMAIN results[r] = {}
    BY <2>1
  <2>3. QED
    BY <2>1, <2>2 DEF RunInv, AloneInv, Idle, Storing
<1>5. ASSUME NEW s \in Schedulers PROVE TimerInv(s)
  <2>1. at[s] = "down" /\ last[s] = None
    BY DEF Init, Runs
  <2>2. QED
    BY <2>1 DEF TimerInv
<1>6. QED
  BY <1>1, <1>2, <1>3, <1>4, <1>5 DEF IInv

\* The type of the state after a step of a run.
LEMMA ActType ==
  ASSUME TypeOK, Shape, NEW r \in Runs, Act(r)
  PROVE  TypeOK' /\ Shape'
<1>1. /\ Local' /\ OthersKept(r) /\ StoreFrame(r) /\ TimerFrame(r)
  BY ActFrame, ActStores, ActTimer
<1>2. at'[r] # "insert" => doomed'[r] = {}
  <2>1. CASE CompareChannel(r)
    <3>1. CASE Ends(r, "error")
      BY <3>1, EndsFrame
    <3>2. CASE ~Ends(r, "error")
      <4>1. at[r] = "compare" /\ doomed' = doomed
        BY <2>1, <3>2 DEF CompareChannel
      <4>2. QED
        BY <4>1 DEF TypeOK
    <3>3. QED
      BY <3>1, <3>2
  <2>2. CASE Generate(r) \/ SaveReport(r) \/ StartDelete(r) \/ FinishDelete(r)
    BY <2>2 DEF Generate, SaveReport, StartDelete, FinishDelete, Set, TypeOK
  <2>3. CASE CommitDetails(r) \/ Crash(r)
    BY <2>3 DEF CommitDetails, Stored, Crash, Forgets, Set, TypeOK, Shape
  <2>4. CASE Judge(r)
    <3>1. CASE Clean(Result(r))
      BY <2>4, <3>1, ContinuesFrame DEF Judge, Shape, Idle
    <3>2. CASE ~Clean(Result(r))
      BY <2>4, <3>2 DEF Judge, TypeOK
    <3>3. QED
      BY <3>1, <3>2
  <2>5. CASE Proceed(r)
    BY <2>5, ContinuesFrame DEF Proceed, Idle
  <2>6. CASE Skip(r)
    BY <2>6, ContinuesFrame DEF Skip, Idle, Storing
  <2>7. CASE r \in Schedulers /\ Start(r)
    BY <2>7 DEF Start, storeVars, TypeOK
  <2>8. ASSUME NEW d, Begin(r, d), at[r] \in {"down", "waiting"} PROVE doomed'[r] = {}
    BY <2>8 DEF Begin, storeVars, TypeOK
  <2>9. QED
    BY <2>1, <2>2, <2>3, <2>4, <2>5, <2>6, <2>7, <2>8 DEF Act, Step, Fire, RunNow
<1>3. \A q \in Runs : at'[q] # "insert" => doomed'[q] = {}
  BY <1>1, <1>2 DEF OthersKept, TypeOK
<1>4. TypeOK'
  BY <1>1, <1>3 DEF TypeOK, Local, Idle, StoreFrame, TimerFrame
<1>5. Shape'
  BY <1>1 DEF Shape, Local, StoreFrame, TimerFrame
<1>6. QED
  BY <1>4, <1>5

LEMMA TickIInv ==
  ASSUME IInv, Tick
  PROVE  IInv'
<1>1. UNCHANGED <<runVars, storeVars, last, alone, stored, warned>>
  BY DEF Tick
<1>2. TypeOK' /\ Shape'
  BY <1>1, MaxTimeAssumption DEF Tick, IInv, TypeOK, Shape, runVars, storeVars
<1>3. ReportInv' /\ \A r \in Runs : RunInv(r)' /\ AloneInv(r)'
  BY <1>1 DEF IInv, ReportInv, RunInv, AloneInv, Key, Result, Channel, runVars, storeVars
<1>4. QED
  BY <1>2, <1>3, TickTimer DEF IInv

LEMMA NextIInv == IInv /\ [Next]_vars => IInv'
<1> SUFFICES ASSUME IInv, [Next]_vars PROVE IInv'
    OBVIOUS
<1>1. CASE Tick
  BY <1>1, TickIInv
<1>2. ASSUME NEW r \in Runs, Act(r) PROVE IInv'
  <2>1. TypeOK' /\ Shape'
    BY <1>2, ActType DEF IInv
  <2>2. QED
    BY <1>2, <2>1, RunInvStep, AloneStep, ReportStep, TimerStep DEF IInv
<1>3. CASE UNCHANGED vars
  BY <1>3 DEF IInv, TypeOK, Shape, ReportInv, RunInv, AloneInv, TimerInv, Key, Result, Channel,
     vars, runVars, storeVars, history
<1>4. Next => Tick \/ \E r \in Runs : Act(r)
  BY DEF Next, Act, Runs
<1>5. QED
  BY <1>1, <1>2, <1>3, <1>4

LEMMA Always == Spec => []IInv
BY InitIInv, NextIInv, PTL DEF Spec

-----------------------------------------------------------------------------
(* The theorems.                                                           *)

\* The type invariant of Reconciliation, for any schedulers, commands and days.
THEOREM TypeCorrect == Spec => []TypeOK
<1>1. IInv => TypeOK
  BY DEF IInv
<1>2. QED
  BY <1>1, Always, PTL

\* A report of success, whoever stored it, was earned: what was read as the bill agreed
\* number by number and cent by cent with the orders, and was the platform's bill unless
\* there were no orders (compare and saveReport).
THEOREM SuccessIsEarned == Spec => []SuccessEarned
<1>1. IInv => SuccessEarned
  BY EarnedAgrees DEF IInv, ReportInv, SuccessEarned
<1>2. QED
  BY <1>1, Always, PTL

\* For any number of runs that die or fail around it, a run that nobody interferes with
\* leaves a file, a report and details of its own (GenerateReport).
THEOREM LoneRunIsStored == Spec => LoneRunStores
<1>1. ASSUME IInv, [Next]_vars, NEW r \in Runs, at[r] = "insert", at'[r] = "judge", alone[r]
      PROVE  /\ file'[Key(r)] = Result(r)
             /\ report'[Key(r)] = Result(r)
             /\ details'[Key(r)] = Batch(r, Result(r))
  <2>0. TypeOK /\ Shape /\ AloneInv(r) /\ Key(r) \in Keys
    BY <1>1, KeyType DEF IInv
  <2>1. ~Tick /\ ~UNCHANGED vars
    BY <1>1 DEF Tick, vars, runVars
  <2>2. \E q \in Runs : Act(q)
    BY <1>1, <2>1 DEF Next, Act, Runs
  <2>3. Act(r)
    BY <1>1, <2>0, <2>2, ActFrame DEF OthersKept
  <2>4. CommitDetails(r)
    <3>1. ~Skip(r)
      BY <1>1, <2>0, ContinuesFrame, EndsFrame DEF Skip, Idle
    <3>2. ~Crash(r)
      BY <1>1, <2>0 DEF Crash, Set, TypeOK
    <3>3. QED
      BY <1>1, <2>3, <3>1, <3>2 DEF Act, Step, CompareChannel, Generate, SaveReport, StartDelete, FinishDelete,
         Judge, Proceed, Start, Fire, RunNow
  <2>5. Replace(r) /\ UNCHANGED <<file, report>>
    BY <2>4 DEF CommitDetails, Stored
  <2>6. details'[Key(r)] = (details[Key(r)] \ doomed[r]) \cup Batch(r, Result(r))
    BY <2>0, <2>5, SetFacts DEF Replace, TypeOK
  <2>7. doomed[r] = details[Key(r)] /\ file[Key(r)] = Result(r) /\ report[Key(r)] = Result(r)
    BY <1>1, <2>0 DEF AloneInv, Storing
  <2>8. QED
    BY <2>5, <2>6, <2>7
<1>2. IInv /\ [Next]_vars =>
        [\A r \in Runs :
           /\ at[r] = "insert" /\ at'[r] = "judge" /\ alone[r]
           => /\ file'[Key(r)] = Result(r)
              /\ report'[Key(r)] = Result(r)
              /\ details'[Key(r)] = Batch(r, Result(r))]_vars
  BY <1>1
<1>3. QED
  BY <1>2, Always, PTL DEF Spec, LoneRunStores

\* The day that a timer fires for, by the day before it.
LEMMA FireDay ==
  ASSUME TypeOK, Shape, NEW s \in Schedulers, TimerInv(s), Fire(s), last[s] # None
  PROVE  /\ last[s] \in Nat
         /\ \/ DayOf(time) - 1 = last[s] + 1
            \/ late[s] /\ DayOf(time) - 1 > last[s] + 1
<1>1. /\ last[s] \in Nat /\ due[s] \in Nat /\ late[s] \in BOOLEAN
      /\ at[s] = "waiting" /\ time >= due[s]
  BY DEF TypeOK, Shape, Days, Fire
<1>2. time = due[s] /\ due[s] % 2 = 1
  BY <1>1, TimeType DEF TimerInv
<1>3. due[s] = 2 * DayOf(due[s]) + 1 /\ DayOf(due[s]) \in Nat
  BY <1>1, <1>2, OddTime
<1>4. CASE late[s]
  <2>1. due[s] >= 2 * last[s] + 7
    BY <1>1, <1>4 DEF TimerInv
  <2>2. QED
    BY <1>1, <1>2, <1>3, <1>4, <2>1
<1>5. CASE ~late[s]
  <2>1. due[s] = 2 * last[s] + 5
    BY <1>1, <1>5 DEF TimerInv
  <2>2. QED
    BY <1>1, <1>2, <1>3, <2>1
<1>6. QED
  BY <1>4, <1>5

\* For any number of days and schedulers: the days follow one another without a gap
\* and without a repetition, unless a job was late (getNextRunTime and Start).
THEOREM DaysFollow == Spec => EachDayOnce
<1>1. ASSUME IInv, [Next]_vars, NEW s \in Schedulers,
             at[s] = "waiting", at'[s] = "compare", last[s] # None
      PROVE  \/ date'[s] = last[s] + 1
             \/ late[s] /\ date'[s] > last[s] + 1
  <2>0. TypeOK /\ Shape /\ TimerInv(s) /\ s \in Runs /\ last[s] \in Nat /\ due[s] \in Nat
        /\ late[s] \in BOOLEAN
    BY <1>1 DEF IInv, TypeOK, Shape, Runs, Days
  <2>1. ~Tick /\ ~UNCHANGED vars
    BY <1>1 DEF Tick, vars, runVars
  <2>2. PICK q \in Runs : Act(q)
    BY <1>1, <2>1 DEF Next, Act, Runs
  <2>3. q = s
    BY <1>1, <2>0, <2>2, ActFrame DEF OthersKept
  <2>4. Fire(s)
    <3>1. ~Start(s) /\ \A d \in Asked : ~RunNow(s, d)
      BY <1>1 DEF Start, RunNow
    <3>2. ~Step(s) /\ ~Skip(s)
      BY <1>1 DEF Step, Skip, CompareChannel, Generate, SaveReport, StartDelete, FinishDelete, CommitDetails,
         Judge, Proceed, Storing
    <3>3. ~Crash(s)
      BY <1>1, <2>0 DEF Crash, Set, TypeOK
    <3>4. QED
      BY <2>2, <2>3, <3>1, <3>2, <3>3 DEF Act
  <2>5. date'[s] = DayOf(time) - 1
    BY <2>0, <2>4 DEF Fire, Begin, Set, TypeOK
  <2>6. QED
    BY <1>1, <2>0, <2>4, <2>5, FireDay
<1>2. IInv /\ [Next]_vars =>
        [\A s \in Schedulers :
           at[s] = "waiting" /\ at'[s] = "compare" /\ last[s] # None =>
             \/ date'[s] = last[s] + 1
             \/ late[s] /\ date'[s] > last[s] + 1]_vars
  BY <1>1
<1>3. QED
  BY <1>2, Always, PTL DEF Spec, EachDayOnce

-----------------------------------------------------------------------------
(* The promise: what a result says.                                        *)

\* compare names the numbers of the records and orders that stand on one side only, the
\* unknown and the differing ones by their records and the missing ones by themselves.
\* The numbers are the two sides' own: an order whose order_no is not its out_trade_no
\* is named twice, once by each.
THEOREM CompareNamesOrders ==
  ASSUME NEW external, NEW internal,
         \A o, p \in internal : o.no = p.no => o = p
  PROVE  LET records == {external[i] : i \in DOMAIN external}
             result  == Compare(external, internal)
         IN  {external[i].no : i \in result.long \cup result.wrong} \cup result.short
               = {x.no : x \in (records \ internal) \cup (internal \ records)}
<1> DEFINE known == {i \in DOMAIN external : \E o \in internal : o.no = external[i].no}
           equal == {i \in DOMAIN external : external[i] \in internal}
           records == {external[i] : i \in DOMAIN external}
           result == Compare(external, internal)
           named == {external[i].no : i \in result.long \cup result.wrong} \cup result.short
           apart == {x.no : x \in (records \ internal) \cup (internal \ records)}
<1>1. /\ result.long = DOMAIN external \ known
      /\ result.wrong = known \ equal
      /\ result.short = {o.no : o \in {p \in internal : ~Listed(external, p.no)}}
  BY DEF Compare
<1> HIDE DEF result
<1>2. result.long \cup result.wrong = {i \in DOMAIN external : external[i] \notin internal}
  BY <1>1
<1>3. named \subseteq apart
  <2>1. ASSUME NEW i \in DOMAIN external, external[i] \notin internal
        PROVE  external[i].no \in apart
    BY <2>1
  <2>2. ASSUME NEW o \in internal, ~Listed(external, o.no)
        PROVE  o.no \in apart
    <3>1. o \notin records
      BY <2>2 DEF Listed
    <3>2. QED
      BY <3>1
  <2>3. QED
    BY <1>1, <1>2, <2>1, <2>2
<1>4. ASSUME NEW x \in records \ internal PROVE x.no \in named
  <2>1. PICK i \in DOMAIN external : external[i] = x
    OBVIOUS
  <2>2. QED
    BY <1>2, <2>1
<1>5. ASSUME NEW o \in internal \ records PROVE o.no \in named
  <2>1. CASE Listed(external, o.no)
    <3>1. PICK i \in DOMAIN external : external[i].no = o.no
      BY <2>1 DEF Listed
    <3>2. external[i] \in records \ internal
      BY <3>1
    <3>3. QED
      BY <1>4, <3>1, <3>2
  <2>2. CASE ~Listed(external, o.no)
    BY <1>1, <2>2
  <2>3. QED
    BY <2>1, <2>2
<1>6. apart \subseteq named
  BY <1>4, <1>5
<1>7. QED
  BY <1>3, <1>6 DEF result

\* When no record of the bill has the number of an order, as for the orders that
\* CreateOrder makes, whose order_no is not the out_trade_no that the platform is given,
\* compare matches nothing: every record is an unknown payment and every order missing,
\* though each may be the other (compare's map by order_no).
THEOREM CreatedOrdersDiffer ==
  ASSUME NEW external, NEW internal,
         \A i \in DOMAIN external : \A o \in internal : external[i].no # o.no
  PROVE  LET result == Compare(external, internal)
         IN  /\ result.long = DOMAIN external /\ result.wrong = {}
             /\ result.short = {o.no : o \in internal}
             /\ Success(result) <=> DOMAIN external = {} /\ internal = {}
<1> DEFINE known == {i \in DOMAIN external : \E o \in internal : o.no = external[i].no}
           equal == {i \in DOMAIN external : external[i] \in internal}
           result == Compare(external, internal)
<1>1. /\ result.long = DOMAIN external \ known
      /\ result.wrong = known \ equal
      /\ result.short = {o.no : o \in {p \in internal : ~Listed(external, p.no)}}
  BY DEF Compare
<1>2. Success(result) <=> result.long = {} /\ result.short = {} /\ result.wrong = {}
  BY DEF Success
<1> HIDE DEF result
<1>3. known = {}
  OBVIOUS
<1>4. \A o \in internal : ~Listed(external, o.no)
  BY DEF Listed
<1>5. result.long = DOMAIN external /\ result.wrong = {}
  BY <1>1, <1>3
<1>6. result.short = {o.no : o \in internal}
  BY <1>1, <1>4
<1>7. QED
  BY <1>2, <1>5, <1>6 DEF result

\* A verdict in the words of the promise: the numbers that the records that were read
\* and the table differ in.
LEMMA FoundVerdict ==
  ASSUME NEW k \in Keys, NEW bill \in Readable(k), NEW orders \in Ledgers[k]
  PROVE  Verdict(Found(k, bill, orders)) = Promise!Verdict(Records(bill), orders)
<1> DEFINE lines == {i \in DOMAIN bill : bill[i] # Other}
           records == Parse(k, bill)
           result == Found(k, bill, orders)
           found == result.found
<1>1. result.orders = orders /\ result.bill = bill
  BY DEF Found
<1>2. /\ found = Compare(records, orders) /\ DOMAIN records = lines
      /\ \A i \in DOMAIN records : records[i] = Entry(bill[i])
      /\ {records[i] : i \in DOMAIN records} = Records(bill)
  BY ParsedRecords
<1>3. \A i \in lines : records[i].no = bill[i].no
  <2>1. bill \in Downloads(k)
    BY DEF Readable
  <2>2. \A i \in lines : bill[i] \in Record
    <3>1. CASE bill = Page
      BY <3>1 DEF Page
    <3>2. CASE bill # Page
      <4>1. k \in DOMAIN Bill /\ bill = Bill[k]
        BY <2>1, <3>2 DEF Downloads
      <4>2. bill \in Seq(Record \cup {Other})
        BY <4>1, BillAssumption
      <4>3. QED
        BY <4>2
    <3>3. QED
      BY <3>1, <3>2
  <2>3. QED
    BY <1>2, <2>2 DEF Entry, Record
<1>4. found.long \cup found.wrong \subseteq lines
  BY <1>2 DEF Compare
<1>5. \A o, p \in orders : o.no = p.no => o = p
  BY LedgerAssumption DEF IsLedger
<1> HIDE DEF records, lines, result
<1>6. {records[i].no : i \in found.long \cup found.wrong} \cup found.short
        = {x.no : x \in (Records(bill) \ orders) \cup (orders \ Records(bill))}
  <2> HIDE DEF found
  <2>1. \A o, p \in orders : o.no = p.no => o = p
    BY <1>5
  <2>2. {records[i].no : i \in Compare(records, orders).long \cup Compare(records, orders).wrong}
          \cup Compare(records, orders).short
          = {x.no : x \in ({records[i] : i \in DOMAIN records} \ orders)
                          \cup (orders \ {records[i] : i \in DOMAIN records})}
    BY <2>1, CompareNamesOrders
  <2>3. QED
    BY <1>2, <2>2
<1>7. {bill[i].no : i \in found.long \cup found.wrong}
        = {records[i].no : i \in found.long \cup found.wrong}
  BY <1>3, <1>4
<1>8. Verdict(result) = Promise!Verdict(Records(bill), orders)
  BY <1>1, <1>6, <1>7 DEF Verdict, Promise!Verdict
<1>9. QED
  BY <1>8 DEF result

\* What a run finds is what the promise allows.
LEMMA ResultAllowed ==
  ASSUME NEW k \in Keys, NEW result \in Results(k)
  PROVE  Verdict(result) \in Promise!Verdicts(k)
<1>1. PICK bill \in Readable(k), orders \in Ledgers[k] : result = Found(k, bill, orders)
  BY DEF Results
<1>2. Verdict(result) = Promise!Verdict(Records(bill), orders)
  BY <1>1, FoundVerdict
<1>3. Records(bill) \in Charged[k]
  BY DEF Charged
<1>4. QED
  BY <1>2, <1>3 DEF Promise!Verdicts

\* It agrees when the result is clean.
LEMMA CleanAgrees ==
  ASSUME NEW result
  PROVE  Promise!Agrees(Verdict(result)) <=> Clean(result)
<1>1. Clean(result) <=> /\ result.found.long \cup result.found.wrong = {}
                        /\ result.found.short = {}
  BY DEF Clean, Success
<1>2. {result.bill[i].no : i \in result.found.long \cup result.found.wrong} = {}
        <=> result.found.long \cup result.found.wrong = {}
  OBVIOUS
<1>3. QED
  BY <1>1, <1>2 DEF Verdict, Promise!Agrees

-----------------------------------------------------------------------------
(* The promise: the state that it speaks of.                               *)

\* What the promise sees of the system's state.
Seen == <<last, RunDay, RunVerdict, RunOpen, RunAlone, stored, warned, outcome,
          Files, Reports, Listing>>

\* What a run changes of the promise's functions over runs is its own.
LEMMA RunMaps ==
  ASSUME NEW r \in Runs, OthersKept(r)
  PROVE  /\ RunDay' = Set(RunDay, r, RunDay'[r])
         /\ RunVerdict' = Set(RunVerdict, r, RunVerdict'[r])
         /\ RunOpen' = Set(RunOpen, r, RunOpen'[r])
<1>1. ASSUME NEW q \in Runs \ {r}
      PROVE  RunDay'[q] = RunDay[q] /\ RunVerdict'[q] = RunVerdict[q] /\ RunOpen'[q] = RunOpen[q]
  <2>1. at'[q] = at[q] /\ date'[q] = date[q] /\ turn'[q] = turn[q] /\ results'[q] = results[q]
    BY DEF OthersKept
  <2>2. RunVerdict'[q] = RunVerdict[q]
    BY <2>1 DEF RunVerdict
  <2>3. QED
    BY <2>1, <2>2 DEF RunDay, RunOpen
<1>2. RunDay' = Set(RunDay, r, RunDay'[r])
  BY <1>1 DEF RunDay, Set
<1>3. RunOpen' = Set(RunOpen, r, RunOpen'[r])
  BY <1>1 DEF RunOpen, Set
<1>4. RunVerdict' = Set(RunVerdict, r, RunVerdict'[r])
  <2>1. /\ RunVerdict = [q \in Runs |-> RunVerdict[q]]
        /\ RunVerdict' = [q \in Runs |-> RunVerdict'[q]]
    BY DEF RunVerdict
  <2>2. QED
    BY <1>1, <2>1 DEF Set
<1>5. QED
  BY <1>2, <1>3, <1>4

LEMMA AloneMap ==
  ASSUME NEW r \in Runs, OthersKept(r), \A q \in Runs \ {r} : alone'[q] = alone[q]
  PROVE  RunAlone' = Set(RunAlone, r, RunAlone'[r])
BY DEF RunAlone, Set, OthersKept

\* What it does not change.
LEMMA RunSame ==
  ASSUME NEW r \in Runs, OthersKept(r)
  PROVE  /\ RunDay'[r] = RunDay[r] => RunDay' = RunDay
         /\ UNCHANGED <<date, results>> => RunVerdict' = RunVerdict
         /\ RunOpen'[r] = RunOpen[r] => RunOpen' = RunOpen
         /\ UNCHANGED alone /\ RunAlone'[r] = RunAlone[r] => RunAlone' = RunAlone
<1>1. ASSUME NEW f, f = [q \in Runs |-> f[q]] PROVE Set(f, r, f[r]) = f
  BY <1>1 DEF Set
<1>2. RunDay = [q \in Runs |-> RunDay[q]] /\ RunOpen = [q \in Runs |-> RunOpen[q]]
      /\ RunAlone = [q \in Runs |-> RunAlone[q]]
  BY DEF RunDay, RunOpen, RunAlone
<1>3. RunDay'[r] = RunDay[r] => RunDay' = RunDay
  BY <1>1, <1>2, RunMaps
<1>4. RunOpen'[r] = RunOpen[r] => RunOpen' = RunOpen
  BY <1>1, <1>2, RunMaps
<1>5. UNCHANGED <<date, results>> => RunVerdict' = RunVerdict
  BY DEF RunVerdict
<1>6. UNCHANGED alone /\ RunAlone'[r] = RunAlone[r] => RunAlone' = RunAlone
  BY <1>1, <1>2, AloneMap
<1>7. QED
  BY <1>3, <1>4, <1>5, <1>6

\* A file or a row that is written.
LEMMA VerdictsSet ==
  ASSUME NEW f, NEW g, NEW k \in Keys, NEW v, DOMAIN f = Keys, v # None, g = Set(f, k, v)
  PROVE  Verdicts(g) = Set(Verdicts(f), k, Verdict(v))
<1>1. g[k] = v /\ \A x \in Keys \ {k} : g[x] = f[x]
  BY DEF Set
<1>2. /\ Verdicts(g) = [x \in Keys |-> Verdicts(g)[x]] /\ Verdicts(f) = [x \in Keys |-> Verdicts(f)[x]]
      /\ Verdicts(g)[k] = Verdict(v)
      /\ \A x \in Keys \ {k} : Verdicts(g)[x] = Verdicts(f)[x]
  BY <1>1 DEF Verdicts
<1>3. QED
  BY <1>2 DEF Set

\* The stages, as the promise sees them.
LEMMA StageSeen ==
  ASSUME TypeOK, NEW r \in Runs
  PROVE  /\ at[r] \in Working => RunDay[r] = date[r] /\ RunDay[r] # None
         /\ at[r] \notin Working => RunDay[r] = None
         /\ at[r] \in Storing => RunOpen[r] = Channel(r) /\ RunOpen[r] # None
         /\ at[r] \notin Storing => RunOpen[r] = None /\ RunAlone[r] = FALSE
         /\ at[r] \in Storing => <<RunDay[r], RunOpen[r]>> = Key(r)
         /\ Channel(r) \in {"wechat", "alipay"} /\ Key(r) = <<date[r], Channel(r)>>
<1>1. Channel(r) \in {"wechat", "alipay"} /\ date[r] \in Days
  BY DEF TypeOK, Channels, Channel
<1>2. QED
  BY <1>1, NoneAssumption DEF RunDay, RunOpen, RunAlone, Channel, Key, Working

\* What a run stores was found in a comparison, and is its verdict.
LEMMA ResultSeen ==
  ASSUME IInv, NEW r \in Runs, at[r] \notin Idle \cup {"compare"}
  PROVE  /\ DOMAIN RunVerdict[r] = {"wechat", "alipay"}
         /\ Key(r) \in Keys /\ Result(r) # None
         /\ RunVerdict[r][Channel(r)] = Verdict(Result(r))
<1>1. TypeOK /\ RunInv(r)
  BY DEF IInv
<1>2. DOMAIN results[r] = {"wechat", "alipay"}
  BY <1>1 DEF RunInv
<1>3. Channel(r) \in {"wechat", "alipay"} /\ Key(r) = <<date[r], Channel(r)>> /\ Key(r) \in Keys
  BY <1>1, StageSeen, KeyType
<1>4. Result(r) = results[r][Channel(r)]
  BY DEF Result, Channel
<1>5. Earned(Key(r), Result(r))
  BY <1>1, <1>2, <1>3, <1>4 DEF RunInv
<1>6. Result(r) # None
  BY <1>3, <1>5, NoneAssumption DEF Earned
<1>7. QED
  BY <1>2, <1>3, <1>4, <1>6 DEF RunVerdict

\* The verdict of a channel that it has stored.
LEMMA KeptSeen ==
  ASSUME IInv, NEW r \in Runs, NEW c \in DOMAIN results[r]
  PROVE  Promise!Agrees(RunVerdict[r][c]) <=> Clean(results[r][c])
BY CleanAgrees DEF RunVerdict

\* The end of a run, for whatever reason.
LEMMA ForgetsSeen ==
  ASSUME Shape, NEW r \in Runs, NEW how, Forgets(r, how), OthersKept(r), at'[r] \in Idle
  PROVE  Promise!Resets(r, how) /\ RunAlone'[r] = FALSE
<1>1. RunDay'[r] = None /\ RunOpen'[r] = None /\ RunAlone'[r] = FALSE
  BY DEF RunDay, RunOpen, RunAlone, Idle, Working, Storing
<1>2. RunVerdict'[r] = Promise!Nothing
  <2>1. results'[r] = <<>>
    BY DEF Forgets, Set, Shape
  <2>2. DOMAIN results'[r] = {}
    BY <2>1
  <2>3. QED
    BY <2>2 DEF RunVerdict, Promise!Nothing
<1>3. RunDay' = Set(RunDay, r, None) /\ RunOpen' = Set(RunOpen, r, None)
      /\ RunVerdict' = Set(RunVerdict, r, Promise!Nothing)
  BY <1>1, <1>2, RunMaps
<1>4. QED
  BY <1>1, <1>3 DEF Forgets, Promise!Resets, Set, Promise!Set

-----------------------------------------------------------------------------
(* The promise: why a run is an error.                                     *)

\* No channel is stored twice, and a run that is in trouble has a reason for it.
ReasonInv(r) ==
  /\ turn[r] = 1 => ~trouble[r] /\ "alipay" \notin stored[r]
  /\ at[r] \in {"file"} \cup Storing => Channel(r) \notin stored[r]
  /\ at[r] = "alerted" => ~Clean(Result(r))
  /\ trouble[r] => "wechat" \notin stored[r] \/ ~Clean(results[r]["wechat"])

PromiseInv == IInv /\ \A r \in Runs : ReasonInv(r)

LEMMA IdleReason ==
  ASSUME NEW r \in Runs, at'[r] \in Idle \cup {"compare"}, trouble'[r] = FALSE, stored'[r] = {}
  PROVE  ReasonInv(r)'
BY DEF ReasonInv, Idle, Storing

LEMMA ContinuesReason ==
  ASSUME PromiseInv, NEW r \in Runs, at[r] \notin Idle \cup {"compare"}, NEW bad \in BOOLEAN,
         Continues(r, bad),
         bad /\ turn[r] = 1 => Channel(r) \notin stored[r] \/ ~Clean(Result(r))
  PROVE  ReasonInv(r)'
<1>1. TypeOK /\ Shape /\ ReasonInv(r)
  BY DEF PromiseInv, IInv
<1>2. CASE turn[r] = 1
  <2>1. /\ turn'[r] = 2 /\ at'[r] = "file" /\ trouble'[r] = bad
        /\ results'[r] = results[r] /\ stored'[r] = stored[r]
    BY <1>1, <1>2, ContinuesFrame
  <2>2. bad => "wechat" \notin stored[r] \/ ~Clean(results[r]["wechat"])
    BY <1>2 DEF Channel, Result, Channels
  <2>3. "alipay" \notin stored[r]
    BY <1>1, <1>2 DEF ReasonInv
  <2>4. Channel(r)' = "alipay"
    BY <2>1 DEF Channel, Channels
  <2>5. QED
    BY <2>1, <2>2, <2>3, <2>4 DEF ReasonInv
<1>3. CASE turn[r] # 1
  <2>1. PICK how : Ends(r, how)
    BY <1>1, <1>3, ContinuesFrame
  <2>2. QED
    BY <1>1, <2>1, EndsFrame, IdleReason DEF Idle
<1>4. QED
  BY <1>2, <1>3

LEMMA ReasonStep ==
  ASSUME PromiseInv, NEW r \in Runs, Act(r)
  PROVE  \A q \in Runs : ReasonInv(q)'
<1>0. TypeOK /\ Shape /\ RunInv(r) /\ ReasonInv(r) /\ IInv
  BY DEF PromiseInv, IInv
<1>1. ReasonInv(r)'
  <2>1. CASE CompareChannel(r)
    <3>1. ~trouble[r] /\ stored[r] = {}
      BY <1>0, <2>1 DEF RunInv, CompareChannel
    <3>2. CASE Ends(r, "error")
      BY <1>0, <3>2, EndsFrame, IdleReason DEF Idle
    <3>3. CASE ~Ends(r, "error")
      <4>1. UNCHANGED <<trouble, stored>> /\ at' = Set(at, r, IF turn[r] = 2 THEN "file" ELSE "compare")
        BY <2>1, <3>3 DEF CompareChannel
      <4>2. at'[r] \in {"file", "compare"}
        BY <1>0, <4>1 DEF Set, TypeOK
      <4>3. trouble'[r] = FALSE /\ stored'[r] = {}
        BY <1>0, <3>1, <4>1 DEF Shape
      <4>4. QED
        BY <4>2, <4>3 DEF ReasonInv, Storing
    <3>4. QED
      BY <3>2, <3>3
  <2>2. CASE Generate(r) \/ SaveReport(r) \/ StartDelete(r) \/ FinishDelete(r)
    <3>1. at[r] \in {"file"} \cup Storing /\ at'[r] \in Storing
      BY <1>0, <2>2 DEF Generate, SaveReport, StartDelete, FinishDelete, Set, TypeOK, Storing
    <3>2. UNCHANGED <<turn, results, trouble, stored>>
      BY <2>2 DEF Generate, SaveReport, StartDelete, FinishDelete, history
    <3>3. Channel(r)' = Channel(r) /\ at'[r] # "alerted"
      BY <3>1, <3>2 DEF Channel, Storing
    <3>4. QED
      BY <1>0, <3>1, <3>2, <3>3 DEF ReasonInv
  <2>3. CASE CommitDetails(r)
    <3>1. /\ at'[r] = "judge" /\ stored'[r] = stored[r] \cup {Channel(r)}
          /\ UNCHANGED <<turn, results, trouble>>
      BY <1>0, <2>3 DEF CommitDetails, Stored, Set, TypeOK, Shape, Channel
    <3>2. Channel(r) = IF turn[r] = 1 THEN "wechat" ELSE "alipay"
      BY <1>0 DEF Channel, Channels, TypeOK
    <3>3. QED
      BY <1>0, <3>1, <3>2 DEF ReasonInv, Storing
  <2>4. CASE Judge(r)
    <3>1. CASE Clean(Result(r))
      <4>1. Continues(r, trouble[r]) /\ trouble[r] \in BOOLEAN /\ at[r] \notin Idle \cup {"compare"}
        BY <1>0, <2>4, <3>1 DEF Judge, Shape, Idle
      <4>2. turn[r] = 1 => ~trouble[r]
        BY <1>0 DEF ReasonInv
      <4>3. QED
        BY <4>1, <4>2, ContinuesReason
    <3>2. CASE ~Clean(Result(r))
      <4>1. at'[r] = "alerted" /\ UNCHANGED <<turn, results, trouble, stored>>
        BY <1>0, <2>4, <3>2 DEF Judge, Set, TypeOK
      <4>2. Result(r)' = Result(r)
        BY <4>1 DEF Result
      <4>3. QED
        BY <1>0, <3>2, <4>1, <4>2 DEF ReasonInv, Storing
    <3>3. QED
      BY <3>1, <3>2
  <2>5. CASE Proceed(r)
    BY <1>0, <2>5, ContinuesReason DEF Proceed, ReasonInv, Idle
  <2>6. CASE Skip(r)
    BY <1>0, <2>6, ContinuesReason DEF Skip, ReasonInv, Idle, Storing
  <2>7. CASE Crash(r)
    <3>1. trouble'[r] = FALSE /\ stored'[r] = {} /\ at'[r] \in Idle
      BY <1>0, <2>7 DEF TypeOK, Shape, Crash, Forgets, Set, Idle
    <3>2. QED
      BY <3>1, IdleReason
  <2>8. CASE r \in Schedulers /\ Start(r)
    <3>1. at[r] \in Idle /\ at'[r] \in Idle /\ UNCHANGED <<trouble, stored>>
      BY <1>0, <2>8 DEF Start, TypeOK, Set, Idle, history
    <3>2. QED
      BY <1>0, <3>1, IdleReason DEF RunInv, Shape
  <2>9. ASSUME NEW d, Begin(r, d), at[r] \in {"down", "waiting"} PROVE ReasonInv(r)'
    <3>1. at'[r] = "compare" /\ UNCHANGED <<trouble, stored>>
      BY <1>0, <2>9 DEF Begin, Set, TypeOK
    <3>2. QED
      BY <1>0, <2>9, <3>1, IdleReason DEF RunInv, Shape, Idle
  <2>10. QED
    BY <2>1, <2>2, <2>3, <2>4, <2>5, <2>6, <2>7, <2>8, <2>9 DEF Act, Step, Fire, RunNow
<1>2. ASSUME NEW q \in Runs \ {r} PROVE ReasonInv(q)'
  <2>1. ReasonInv(q) /\ OthersKept(r)
    BY <1>0, ActFrame DEF PromiseInv
  <2>2. QED
    BY <2>1 DEF ReasonInv, OthersKept, Channel, Result
<1>3. QED
  BY <1>1, <1>2

LEMMA AlwaysReason == Spec => []PromiseInv
<1>1. Init => PromiseInv
  BY InitIInv DEF PromiseInv, ReasonInv, Init, Storing
<1>2. PromiseInv /\ [Next]_vars => PromiseInv'
  <2> SUFFICES ASSUME PromiseInv, [Next]_vars PROVE PromiseInv'
    OBVIOUS
  <2>1. IInv'
    BY NextIInv DEF PromiseInv
  <2>2. ASSUME NEW r \in Runs, Act(r) PROVE PromiseInv'
    BY <2>1, <2>2, ReasonStep DEF PromiseInv
  <2>3. CASE Tick \/ UNCHANGED vars
    <3>1. UNCHANGED <<at, turn, results, trouble, stored>>
      BY <2>3 DEF Tick, vars, runVars, history
    <3>2. QED
      BY <2>1, <3>1 DEF PromiseInv, ReasonInv, Channel, Result
  <2>4. Next => Tick \/ \E r \in Runs : Act(r)
    BY DEF Next, Act, Runs
  <2>5. QED
    BY <2>2, <2>3, <2>4
<1>3. QED
  BY <1>1, <1>2, PTL DEF Spec

-----------------------------------------------------------------------------
(* What a run returns.                                                     *)

\* Both channels are stored, and agree.
Good(r) == \A c \in {"wechat", "alipay"} : c \in stored[r] /\ Clean(results[r][c])

\* The stages in which a run is an error, and what hasError says in the other.
LEMMA WhyBad ==
  ASSUME PromiseInv, NEW r \in Runs
  PROVE  /\ at[r] \in {"file", "alerted"} \cup Storing => ~Good(r)
         /\ at[r] = "judge" /\ Clean(Result(r)) /\ turn[r] # 1 => (trouble[r] <=> ~Good(r))
<1>1. TypeOK /\ RunInv(r) /\ ReasonInv(r)
  BY DEF PromiseInv, IInv
<1>2. Channel(r) \in {"wechat", "alipay"} /\ Result(r) = results[r][Channel(r)]
  BY <1>1 DEF TypeOK, Channel, Channels, Result
<1>3. at[r] \in {"file", "alerted"} \cup Storing => ~Good(r)
  BY <1>1, <1>2 DEF ReasonInv, Good
<1>4. ASSUME at[r] = "judge", Clean(Result(r)), turn[r] # 1
      PROVE  trouble[r] <=> ~Good(r)
  <2>1. turn[r] = 2 /\ Channel(r) = "alipay" /\ Channel(r) \in stored[r]
    BY <1>1, <1>4 DEF TypeOK, Channel, Channels, RunInv
  <2>2. ~trouble[r] => "wechat" \in stored[r] /\ Clean(results[r]["wechat"])
    BY <1>1, <1>4, <2>1 DEF RunInv, Idle
  <2>3. trouble[r] => "wechat" \notin stored[r] \/ ~Clean(results[r]["wechat"])
    BY <1>1 DEF ReasonInv
  <2>4. QED
    BY <1>2, <1>4, <2>1, <2>2, <2>3 DEF Good
<1>5. QED
  BY <1>3, <1>4

\* Continues returns for the second channel.
LEMMA ContinuesReturns ==
  ASSUME PromiseInv, NEW r \in Runs, at[r] \notin Idle, NEW bad \in BOOLEAN,
         Continues(r, bad), turn[r] # 1 => (bad <=> ~Good(r))
  PROVE  outcome'[r] = outcome[r] \/ (outcome'[r] = "ok" <=> Good(r))
<1>1. TypeOK /\ Shape
  BY DEF PromiseInv, IInv
<1>2. \/ outcome'[r] = outcome[r]
      \/ turn[r] = 2 /\ Ends(r, IF bad THEN "error" ELSE "ok")
  BY <1>1, ContinuesFrame
<1>3. ASSUME turn[r] = 2, Ends(r, IF bad THEN "error" ELSE "ok")
      PROVE  outcome'[r] = "ok" <=> Good(r)
  <2>1. outcome'[r] = IF bad THEN "error" ELSE "ok"
    BY <1>1, <1>3, EndsFrame
  <2>2. QED
    BY <1>3, <2>1
<1>4. QED
  BY <1>2, <1>3

\* For any bills and ledgers, and whatever fails: a run returns without an error if and
\* only if it has compared and stored both channels and found no difference, and an
\* alert tells of a difference that is stored, and of nothing else (reconcileDate).
\* That an alert arrives is not said: its failure is logged.
THEOREM NothingIsSilent == Spec => NothingSilent
<1>1. ASSUME PromiseInv, NEW r \in Runs, Act(r), outcome[r] = None, outcome'[r] # None
      PROVE  outcome'[r] = "ok" <=> Good(r)
  <2>0. TypeOK /\ Shape /\ RunInv(r)
    BY <1>1 DEF PromiseInv, IInv
  <2>1. CASE CompareChannel(r)
    <3>1. ~Good(r)
      BY <2>0, <2>1 DEF RunInv, CompareChannel, Good
    <3>2. CASE Ends(r, "error")
      <4>1. outcome'[r] = "error"
        BY <2>0, <3>2, EndsFrame
      <4>2. QED
        BY <3>1, <4>1
    <3>3. CASE ~Ends(r, "error")
      BY <1>1, <2>1, <3>3 DEF CompareChannel
    <3>4. QED
      BY <3>2, <3>3
  <2>2. CASE Judge(r)
    <3>1. CASE Clean(Result(r))
      <4>1. Continues(r, trouble[r]) /\ at[r] = "judge" /\ trouble[r] \in BOOLEAN
        BY <2>0, <2>2, <3>1 DEF Judge, Shape
      <4>2. turn[r] # 1 => (trouble[r] <=> ~Good(r))
        BY <1>1, <3>1, <4>1, WhyBad
      <4>3. QED
        BY <1>1, <4>1, <4>2, ContinuesReturns DEF Idle
    <3>2. CASE ~Clean(Result(r))
      BY <1>1, <2>2, <3>2 DEF Judge
    <3>3. QED
      BY <3>1, <3>2
  <2>3. CASE Proceed(r)
    BY <1>1, <2>3, WhyBad, ContinuesReturns DEF Proceed, Idle
  <2>4. CASE Skip(r)
    BY <1>1, <2>4, WhyBad, ContinuesReturns DEF Skip, Idle, Storing
  <2>5. CASE Crash(r)
    <3>1. outcome'[r] = None
      BY <2>0, <2>5 DEF Crash, Forgets, Set, Shape
    <3>2. QED
      BY <1>1, <3>1
  <2>6. CASE Generate(r) \/ SaveReport(r) \/ StartDelete(r) \/ FinishDelete(r) \/ CommitDetails(r)
    <3>1. outcome' = outcome
      BY <2>6 DEF Generate, SaveReport, StartDelete, FinishDelete, CommitDetails, Stored
    <3>2. QED
      BY <1>1, <3>1
  <2>7. CASE r \in Schedulers /\ Start(r)
    <3>1. outcome' = outcome
      BY <2>7 DEF Start
    <3>2. QED
      BY <1>1, <3>1
  <2>8. ASSUME NEW d, Begin(r, d) PROVE FALSE
    <3>1. outcome'[r] = None
      BY <2>0, <2>8 DEF Begin, Set, Shape
    <3>2. QED
      BY <1>1, <3>1
  <2>9. QED
    BY <1>1, <2>1, <2>2, <2>3, <2>4, <2>5, <2>6, <2>7, <2>8 DEF Act, Step, Fire, RunNow
<1>2. ASSUME PromiseInv, [Next]_vars, NEW r \in Runs, outcome[r] = None, outcome'[r] # None
      PROVE  /\ outcome'[r] = "ok" <=> Good(r)
             /\ \A c \in warned[r] : c \in stored[r] /\ ~Clean(results[r][c])
  <2>1. ~Tick /\ ~UNCHANGED vars
    BY <1>2 DEF Tick, vars, runVars
  <2>2. PICK q \in Runs : Act(q)
    BY <1>2, <2>1 DEF Next, Act, Runs
  <2>3. OthersKept(q)
    BY <1>2, <2>2, ActFrame DEF PromiseInv, IInv
  <2>4. q = r
    BY <1>2, <2>3 DEF OthersKept
  <2>5. RunInv(r)
    BY <1>2 DEF PromiseInv, IInv
  <2>6. QED
    BY <1>1, <1>2, <2>2, <2>4, <2>5 DEF RunInv
<1>3. PromiseInv /\ [Next]_vars =>
        [\A r \in Runs :
           outcome[r] = None /\ outcome'[r] # None =>
             /\ outcome'[r] = "ok" <=>
                  \A c \in {"wechat", "alipay"} : c \in stored[r] /\ Clean(results[r][c])
             /\ \A c \in warned[r] : c \in stored[r] /\ ~Clean(results[r][c])]_vars
  BY <1>2 DEF Good
<1>4. QED
  BY <1>3, AlwaysReason, PTL DEF Spec, NothingSilent

-----------------------------------------------------------------------------
(* The promise: every step is one of its steps, or none.                   *)

LEMMA StoreSame ==
  ASSUME UNCHANGED <<file, report, details>>
  PROVE  UNCHANGED <<Files, Reports, Listing>>
BY DEF Files, Reports, Listing, Verdicts

\* The facts of a run's step that the cases below have in common.
LEMMA Common ==
  ASSUME PromiseInv, NEW r \in Runs, Act(r)
  PROVE  /\ IInv /\ TypeOK /\ Shape /\ RunInv(r) /\ ReasonInv(r) /\ AloneInv(r)
         /\ OthersKept(r) /\ Local'
BY ActFrame DEF PromiseInv, IInv

LEMMA BeginPromised ==
  ASSUME PromiseInv, NEW r \in Runs, Act(r), NEW d \in Days, Begin(r, d),
         at[r] \in {"down", "waiting"},
         \/ r \in Schedulers /\ (last[r] = None \/ d > last[r]) /\ last' = [last EXCEPT ![r] = d]
         \/ r \notin Schedulers /\ last' = last
  PROVE  Promise!Begin(r, d)
<1>1. TypeOK /\ Shape /\ RunInv(r) /\ OthersKept(r)
  BY Common
<1>2. at'[r] = "compare" /\ date'[r] = d
      /\ UNCHANGED <<turn, results, storeVars, alone, stored, warned>>
  BY <1>1 DEF Begin, Set, TypeOK
<1>3. RunDay[r] = None /\ RunDay'[r] = d /\ RunOpen'[r] = RunOpen[r] /\ RunAlone'[r] = RunAlone[r]
  BY <1>2 DEF RunDay, RunOpen, RunAlone, Working, Storing
<1>4. RunVerdict'[r] = RunVerdict[r]
  <2>1. DOMAIN results[r] = {} /\ results' = results
    BY <1>1, <1>2 DEF RunInv, Idle
  <2>2. QED
    BY <2>1 DEF RunVerdict
<1>5. RunVerdict' = RunVerdict
  <2>1. RunVerdict' = Set(RunVerdict, r, RunVerdict[r])
    BY <1>1, <1>4, RunMaps
  <2>2. RunVerdict = [q \in Runs |-> RunVerdict[q]]
    BY DEF RunVerdict
  <2>3. QED
    BY <2>1, <2>2 DEF Set
<1>6. UNCHANGED <<RunOpen, RunAlone, Files, Reports, Listing>>
  BY <1>1, <1>2, <1>3, RunSame, StoreSame DEF storeVars
<1>7. RunDay' = Promise!Set(RunDay, r, d) /\ outcome' = Promise!Set(outcome, r, None)
  BY <1>1, <1>3, RunMaps DEF Promise!Set, Set, Begin
<1>8. QED
  BY <1>2, <1>3, <1>5, <1>6, <1>7 DEF Promise!Begin, Promise!stores, Promise!Set

LEMMA ComparePromised ==
  ASSUME PromiseInv, NEW r \in Runs, CompareChannel(r)
  PROVE  Promise!Compare(r, Channel(r)) \/ Promise!Return(r)
<1>0. Act(r)
  BY DEF Act, Step
<1>1. IInv /\ TypeOK /\ Shape /\ RunInv(r) /\ OthersKept(r)
  BY <1>0, Common
<1>2. at[r] = "compare" /\ stored[r] = {} /\ UNCHANGED <<file, report, details, last, alone>>
  BY <1>1 DEF CompareChannel, RunInv
<1>3. RunDay[r] = date[r] /\ RunDay[r] # None /\ RunOpen[r] = None /\ RunAlone[r] = FALSE
  BY <1>1, <1>2, StageSeen DEF Working, Storing
<1>4. UNCHANGED <<Files, Reports, Listing>>
  BY <1>2, StoreSame
<1>5. CASE Ends(r, "error")
  <2>1. at'[r] \in Idle /\ Forgets(r, "error")
    BY <1>1, <1>5, EndsFrame DEF Ends, Idle
  <2>2. Promise!Resets(r, "error") /\ RunAlone'[r] = FALSE
    BY <1>1, <2>1, ForgetsSeen
  <2>3. UNCHANGED RunAlone
    BY <1>1, <1>2, <1>3, <2>2, RunSame
  <2>4. "wechat" \notin stored[r]
    BY <1>2
  <2>5. QED
    BY <1>2, <1>3, <1>4, <2>2, <2>3, <2>4 DEF Promise!Return, Promise!stores
<1>6. CASE ~Ends(r, "error")
  <2> DEFINE c == Channel(r)
             known == DOMAIN results[r]
  <2>1. PICK result \in Results(Key(r)) :
          /\ results' = Set(results, r,
               [x \in known \cup {c} |-> IF x = c THEN result ELSE results[r][x]])
          /\ at' = Set(at, r, IF turn[r] = 2 THEN "file" ELSE "compare")
          /\ UNCHANGED <<date, outcome, stored, warned>>
    BY <1>6 DEF CompareChannel, Channel
  <2>2. results'[r] = [x \in known \cup {c} |-> IF x = c THEN result ELSE results[r][x]]
    BY <2>1, <1>1, SetFacts DEF Shape
  <2>3. Key(r) = <<date[r], c>> /\ Key(r) \in Keys
    BY <1>1, StageSeen, KeyType
  <2>4. Verdict(result) \in Promise!Verdicts(Key(r))
    BY <2>1, <2>3, ResultAllowed
  <2>5. RunVerdict'[r] = [x \in DOMAIN RunVerdict[r] \cup {c} |->
                            IF x = c THEN Verdict(result) ELSE RunVerdict[r][x]]
    <3>1. RunVerdict[r] = [x \in known |-> Verdict(results[r][x])]
      BY DEF RunVerdict
    <3>2. RunVerdict'[r] = [x \in DOMAIN results'[r] |-> Verdict(results'[r][x])]
      BY DEF RunVerdict
    <3>3. DOMAIN results'[r] = known \cup {c} /\ DOMAIN RunVerdict[r] = known
      BY <2>2, <3>1
    <3>4. \A x \in known \cup {c} :
            Verdict(results'[r][x]) = IF x = c THEN Verdict(result) ELSE RunVerdict[r][x]
      BY <2>2, <3>1
    <3> HIDE DEF c, known
    <3>5. QED
      BY <3>2, <3>3, <3>4
  <2>6. RunVerdict' = Promise!Set(RunVerdict, r, RunVerdict'[r])
    BY <1>1, RunMaps DEF Set, Promise!Set
  <2>7. c \notin DOMAIN RunVerdict[r]
    <3>1. known = IF turn[r] = 1 THEN {} ELSE {"wechat"}
      BY <1>1, <1>2 DEF RunInv
    <3>2. turn[r] # 1 => c = "alipay"
      BY <1>1 DEF Channel, Channels, TypeOK
    <3>3. DOMAIN RunVerdict[r] = known
      BY DEF RunVerdict
    <3>4. QED
      BY <3>1, <3>2, <3>3
  <2>8. UNCHANGED <<RunDay, RunOpen, RunAlone>>
    <3>1. at'[r] \in {"file", "compare"}
      BY <1>1, <2>1 DEF Set, TypeOK
    <3>2. RunDay'[r] = RunDay[r] /\ RunOpen'[r] = RunOpen[r] /\ RunAlone'[r] = RunAlone[r]
      BY <1>2, <2>1, <3>1 DEF RunDay, RunOpen, RunAlone, Working, Storing
    <3>3. QED
      BY <1>1, <1>2, <3>2, RunSame
  <2> HIDE DEF known
  <2>9. Promise!Compare(r, c)
    BY <1>2, <1>3, <1>4, <2>1, <2>3, <2>4, <2>5, <2>6, <2>7, <2>8
       DEF Promise!Compare, Promise!stores
  <2>10. QED
    BY <2>9
<1>7. QED
  BY <1>5, <1>6

\* Those that store the same report.
LEMMA RivalsSeen ==
  ASSUME TypeOK, NEW r \in Runs, at[r] \in Working
  PROVE  Promise!Rivals(r, Channel(r)) = {q \in Runs \ {r} : at[q] \in Storing /\ Key(q) = Key(r)}
<1>1. ASSUME NEW q \in Runs \ {r}
      PROVE  RunOpen[q] = Channel(r) /\ RunDay[q] = RunDay[r] <=> at[q] \in Storing /\ Key(q) = Key(r)
  <2>1. RunDay[r] = date[r] /\ Channel(r) \in {"wechat", "alipay"} /\ Key(r) = <<date[r], Channel(r)>>
    BY StageSeen
  <2>2. CASE at[q] \in Storing
    <3>1. RunDay[q] = date[q] /\ RunOpen[q] = Channel(q) /\ Key(q) = <<date[q], Channel(q)>>
      BY <2>2, StageSeen DEF Working
    <3>2. QED
      BY <2>1, <2>2, <3>1
  <2>3. CASE at[q] \notin Storing
    <3>1. RunOpen[q] = None
      BY <2>3, StageSeen
    <3>2. QED
      BY <2>1, <2>3, <3>1, NoneAssumption
  <2>4. QED
    BY <2>2, <2>3
<1>2. QED
  BY <1>1 DEF Promise!Rivals

\* The file, of a run that begins to store or dies then.
LEMMA WritesPromised ==
  ASSUME PromiseInv, NEW r \in Runs, Act(r), at[r] = "file", Writes(r)
  PROVE  /\ Promise!Writes(r, Channel(r))
         /\ alone'[r] <=> Promise!Rivals(r, Channel(r)) = {}
         /\ \A q \in Runs \ {r} :
              RunAlone'[q] = (RunAlone[q] /\ q \notin Promise!Rivals(r, Channel(r)))
<1> DEFINE others == {q \in Runs \ {r} : at[q] \in Storing /\ Key(q) = Key(r)}
<1>1. IInv /\ TypeOK /\ Shape /\ ReasonInv(r) /\ OthersKept(r)
  BY Common
<1>2. /\ file' = Set(file, Key(r), Result(r))
      /\ alone' = [q \in Runs |-> IF q \in others THEN FALSE
                                  ELSE IF q = r THEN others = {} ELSE alone[q]]
  BY DEF Writes
<1>3. others = Promise!Rivals(r, Channel(r))
  BY <1>1, RivalsSeen DEF Working
<1>4. /\ DOMAIN RunVerdict[r] = {"wechat", "alipay"}
      /\ Key(r) \in Keys /\ Result(r) # None
      /\ RunVerdict[r][Channel(r)] = Verdict(Result(r))
  BY <1>1, ResultSeen DEF Idle
<1>5. Files' = Set(Files, Key(r), Verdict(Result(r)))
  <2>1. Verdicts(file') = Set(Verdicts(file), Key(r), Verdict(Result(r)))
    BY <1>1, <1>2, <1>4, VerdictsSet DEF TypeOK
  <2>2. Files' = Verdicts(file')
    BY DEF Files, Verdicts
  <2>3. QED
    BY <2>1, <2>2 DEF Files
<1>6. Key(r) = <<RunDay[r], Channel(r)>> /\ RunOpen[r] = None
  BY <1>1, StageSeen DEF Working, Storing
<1>7. Channel(r) \notin stored[r]
  BY <1>1 DEF ReasonInv
<1>8. Promise!Writes(r, Channel(r))
  BY <1>4, <1>5, <1>6, <1>7 DEF Promise!Writes, Promise!Set, Set
<1>9. alone'[r] <=> others = {}
  BY <1>2
<1>10. ASSUME NEW q \in Runs \ {r} PROVE RunAlone'[q] = (RunAlone[q] /\ q \notin others)
  <2>1. alone'[q] = (alone[q] /\ q \notin others) /\ at'[q] = at[q]
    BY <1>1, <1>2 DEF OthersKept, Shape
  <2>2. QED
    BY <2>1 DEF RunAlone
<1>11. QED
  BY <1>3, <1>8, <1>9, <1>10

LEMMA GeneratePromised ==
  ASSUME PromiseInv, NEW r \in Runs, Generate(r)
  PROVE  Promise!Write(r, Channel(r))
<1>0. Act(r)
  BY DEF Act, Step
<1>1. IInv /\ TypeOK /\ Shape /\ OthersKept(r)
  BY <1>0, Common
<1>2. /\ at[r] = "file" /\ at'[r] = "row" /\ Writes(r)
      /\ UNCHANGED <<date, turn, results, outcome, report, details, last, stored, warned>>
  BY <1>1 DEF Generate, Set, TypeOK
<1>3. /\ Promise!Writes(r, Channel(r))
      /\ alone'[r] <=> Promise!Rivals(r, Channel(r)) = {}
      /\ \A q \in Runs \ {r} :
           RunAlone'[q] = (RunAlone[q] /\ q \notin Promise!Rivals(r, Channel(r)))
  BY <1>0, <1>2, WritesPromised
<1>4. RunAlone' = [q \in Runs |-> IF q = r THEN Promise!Rivals(r, Channel(r)) = {}
                                  ELSE RunAlone[q] /\ q \notin Promise!Rivals(r, Channel(r))]
  <2>1. RunAlone' = [q \in Runs |-> RunAlone'[q]]
    BY DEF RunAlone
  <2>2. alone'[r] \in BOOLEAN
    BY <1>2 DEF Writes
  <2>3. RunAlone'[r] = (Promise!Rivals(r, Channel(r)) = {})
    BY <1>2, <1>3, <2>2 DEF RunAlone, Storing
  <2>4. QED
    BY <1>3, <2>1, <2>3
<1>5. RunDay'[r] = RunDay[r] /\ RunOpen'[r] = Channel(r)
  BY <1>2 DEF RunDay, RunOpen, Working, Storing, Channel
<1>6. RunOpen' = Promise!Set(RunOpen, r, Channel(r))
  BY <1>1, <1>5, RunMaps DEF Set, Promise!Set
<1>7. UNCHANGED <<RunDay, RunVerdict, Reports, Listing>>
  <2>1. UNCHANGED <<Reports, Listing>>
    BY <1>2 DEF Reports, Listing, Verdicts
  <2>2. QED
    BY <1>1, <1>2, <1>5, <2>1, RunSame
<1>8. QED
  BY <1>2, <1>3, <1>4, <1>6, <1>7 DEF Promise!Write

\* A step that stays among the stages of storing, but for its last.
LEMMA StaysOpen ==
  ASSUME PromiseInv, NEW r \in Runs, SaveReport(r) \/ StartDelete(r) \/ FinishDelete(r)
  PROVE  UNCHANGED <<RunDay, RunVerdict, RunOpen, RunAlone, last, stored, warned, outcome,
                     Files, Listing>>
<1>0. Act(r)
  BY DEF Act, Step
<1>1. TypeOK /\ OthersKept(r)
  BY <1>0, Common
<1>2. /\ at[r] \in Storing /\ at'[r] \in Storing
      /\ UNCHANGED <<date, turn, results, outcome, alone, last, stored, warned, file, details>>
  BY <1>1 DEF SaveReport, StartDelete, FinishDelete, history, Set, TypeOK, Storing
<1>3. RunDay'[r] = RunDay[r] /\ RunOpen'[r] = RunOpen[r] /\ RunAlone'[r] = RunAlone[r]
  BY <1>2 DEF RunDay, RunOpen, RunAlone, Working
<1>4. UNCHANGED <<RunDay, RunVerdict, RunOpen, RunAlone>>
  BY <1>1, <1>2, <1>3, RunSame
<1>5. UNCHANGED <<Files, Listing>>
  BY <1>2 DEF Files, Listing, Verdicts
<1>6. QED
  BY <1>2, <1>4, <1>5

\* The row of a report.
LEMMA RowSeen ==
  ASSUME PromiseInv, NEW r \in Runs, at[r] = "row", report' = Set(report, Key(r), Result(r))
  PROVE  /\ RunOpen[r] # None
         /\ Reports' = Promise!Set(Reports, Promise!Place(r), Promise!Mine(r))
<1>1. IInv /\ TypeOK
  BY DEF PromiseInv, IInv
<1>2. /\ RunOpen[r] # None /\ <<RunDay[r], RunOpen[r]>> = Key(r) /\ RunOpen[r] = Channel(r)
  BY <1>1, StageSeen DEF Storing
<1>3. /\ Key(r) \in Keys /\ Result(r) # None
      /\ RunVerdict[r][Channel(r)] = Verdict(Result(r))
  BY <1>1, ResultSeen DEF Idle
<1>4. Verdicts(report') = Set(Verdicts(report), Key(r), Verdict(Result(r)))
  BY <1>1, <1>3, VerdictsSet DEF TypeOK
<1>5. Reports' = Verdicts(report')
  BY DEF Reports, Verdicts
<1>6. QED
  BY <1>2, <1>3, <1>4, <1>5 DEF Reports, Set, Promise!Set, Promise!Place, Promise!Mine

\* The rows of a result's details.
LEMMA BatchSeen ==
  ASSUME NEW by, NEW result
  PROVE  {Verdict(row.of) : row \in Batch(by, result)} = Promise!Differences(Verdict(result))
<1>1. Promise!Agrees(Verdict(result)) <=> Clean(result)
  BY CleanAgrees
<1>2. CASE Clean(result)
  BY <1>1, <1>2 DEF Batch, Promise!Differences
<1>3. CASE ~Clean(result)
  <2>1. Promise!Differences(Verdict(result)) = {Verdict(result)}
    BY <1>1, <1>3 DEF Promise!Differences
  <2>2. Batch(by, result) = {[by |-> by, of |-> result]}
    BY <1>3 DEF Batch
  <2>3. QED
    BY <2>1, <2>2
<1>4. QED
  BY <1>2, <1>3

\* The details of a report.
LEMMA DetailsSeen ==
  ASSUME PromiseInv, NEW r \in Runs, at[r] = "insert", Replace(r)
  PROVE  /\ RunOpen[r] # None
         /\ RunAlone[r] => /\ Files[Promise!Place(r)] = Promise!Mine(r)
                           /\ Reports[Promise!Place(r)] = Promise!Mine(r)
         /\ \E gone \in SUBSET Listing[Promise!Place(r)] :
              /\ RunAlone[r] => gone = Listing[Promise!Place(r)]
              /\ Listing' = Promise!Set(Listing, Promise!Place(r),
                   (Listing[Promise!Place(r)] \ gone) \cup Promise!Differences(Promise!Mine(r)))
<1> DEFINE k == Key(r)
           v == Verdict(Result(r))
           left == {Verdict(row.of) : row \in details[k] \ doomed[r]}
           gone == Listing[k] \ left
<1>1. IInv /\ TypeOK /\ AloneInv(r)
  BY DEF PromiseInv, IInv
<1>2. RunOpen[r] # None /\ Promise!Place(r) = k /\ RunOpen[r] = Channel(r)
  BY <1>1, StageSeen DEF Storing, Promise!Place
<1>3. k \in Keys /\ Result(r) # None /\ Promise!Mine(r) = v
  BY <1>1, <1>2, ResultSeen DEF Idle, Promise!Mine
<1>4. /\ DOMAIN details' = Keys
      /\ details'[k] = (details[k] \ doomed[r]) \cup Batch(r, Result(r))
      /\ \A x \in Keys \ {k} : details'[x] = details[x]
  BY <1>1, <1>3, SetFacts DEF Replace, TypeOK
<1>5. {Verdict(row.of) : row \in Batch(r, Result(r))} = Promise!Differences(v)
  BY BatchSeen
<1>6. Listing[k] = {Verdict(row.of) : row \in details[k]}
  BY <1>3 DEF Listing
<1>7. left \subseteq Listing[k] /\ Listing[k] \ gone = left
  BY <1>6
<1>8. Listing'[k] = left \cup Promise!Differences(v)
  BY <1>3, <1>4, <1>5 DEF Listing
<1>9. Listing' = Promise!Set(Listing, k, left \cup Promise!Differences(v))
  <2>1. Listing = [x \in Keys |-> Listing[x]] /\ Listing' = [x \in Keys |-> Listing'[x]]
    BY DEF Listing
  <2>2. \A x \in Keys \ {k} : Listing'[x] = Listing[x]
    BY <1>4 DEF Listing
  <2>3. QED
    BY <1>3, <1>8, <2>1, <2>2 DEF Promise!Set
<1>10. ASSUME RunAlone[r]
       PROVE  file[k] = Result(r) /\ report[k] = Result(r) /\ doomed[r] = details[k]
  BY <1>1, <1>10 DEF RunAlone, AloneInv, Storing
<1>11. RunAlone[r] => gone = Listing[k]
  BY <1>10
<1>12. RunAlone[r] => Files[k] = v /\ Reports[k] = v
  BY <1>3, <1>10 DEF Files, Reports, Verdicts
<1> HIDE DEF k, v, left, gone
<1>13. gone \in SUBSET Listing[k]
  BY DEF gone
<1>14. Listing' = Promise!Set(Listing, k, (Listing[k] \ gone) \cup Promise!Differences(v))
  BY <1>7, <1>9
<1>15. QED
  BY <1>2, <1>3, <1>11, <1>12, <1>13, <1>14

LEMMA StoringPromised ==
  ASSUME PromiseInv, NEW r \in Runs,
         SaveReport(r) \/ StartDelete(r) \/ FinishDelete(r)
  PROVE  Promise!Publish(r) \/ UNCHANGED Seen
<1>1. UNCHANGED <<RunDay, RunVerdict, RunOpen, RunAlone, last, stored, warned, outcome,
                  Files, Listing>>
  BY StaysOpen
<1>2. CASE SaveReport(r)
  <2>1. at[r] = "row" /\ report' = Set(report, Key(r), Result(r))
    BY <1>2 DEF SaveReport
  <2>2. QED
    BY <1>1, <2>1, RowSeen DEF Promise!Publish, Promise!GoesOn
<1>3. CASE StartDelete(r) \/ FinishDelete(r)
  <2>1. UNCHANGED report
    BY <1>3 DEF StartDelete, FinishDelete
  <2>2. UNCHANGED Reports
    BY <2>1 DEF Reports, Verdicts
  <2>3. QED
    BY <1>1, <2>2 DEF Seen
<1>4. QED
  BY <1>2, <1>3

LEMMA CommitPromised ==
  ASSUME PromiseInv, NEW r \in Runs, CommitDetails(r)
  PROVE  Promise!Replace(r)
<1>0. Act(r)
  BY DEF Act, Step
<1>1. TypeOK /\ Shape /\ OthersKept(r)
  BY <1>0, Common
<1>2. /\ at[r] = "insert" /\ at'[r] = "judge" /\ Replace(r)
      /\ stored' = Set(stored, r, stored[r] \cup {Channel(r)})
      /\ alone' = Set(alone, r, FALSE)
      /\ UNCHANGED <<date, turn, results, outcome, file, report, last, warned>>
  BY <1>1 DEF CommitDetails, Stored, Set, TypeOK, Channel
<1>3. RunOpen[r] = Channel(r)
  BY <1>1, <1>2, StageSeen DEF Storing
<1>4. RunDay'[r] = RunDay[r] /\ RunOpen'[r] = None /\ RunAlone'[r] = FALSE
  BY <1>2 DEF RunDay, RunOpen, RunAlone, Working, Storing
<1>5. RunOpen' = Promise!Set(RunOpen, r, None) /\ UNCHANGED <<RunDay, RunVerdict>>
  BY <1>1, <1>2, <1>4, RunMaps, RunSame DEF Set, Promise!Set
<1>6. RunAlone' = Promise!Set(RunAlone, r, FALSE)
  <2>1. \A q \in Runs \ {r} : alone'[q] = alone[q]
    BY <1>1, <1>2 DEF Set, Shape
  <2>2. QED
    BY <1>1, <1>4, <2>1, AloneMap DEF Set, Promise!Set
<1>7. UNCHANGED <<Files, Reports>>
  BY <1>2 DEF Files, Reports, Verdicts
<1>8. Promise!Keeps(r)
  BY <1>2, <1>3, <1>5, <1>6 DEF Promise!Keeps, Promise!Set, Set
<1>9. QED
  BY <1>2, <1>7, <1>8, DetailsSeen DEF Promise!Replace

LEMMA GoodSeen ==
  ASSUME IInv, NEW r \in Runs, at[r] \notin Idle \cup {"compare"}
  PROVE  Good(r) <=> \A c \in {"wechat", "alipay"} :
                       c \in stored[r] /\ Promise!Agrees(RunVerdict[r][c])
<1>1. DOMAIN results[r] = {"wechat", "alipay"}
  BY DEF IInv, RunInv
<1>2. QED
  BY <1>1, KeptSeen DEF Good

\* What Continues is to the promise: the run closes the channel, or returns.
LEMMA ContinuesPromised ==
  ASSUME PromiseInv, NEW r \in Runs, Act(r), at[r] \notin Idle \cup {"compare"},
         NEW bad \in BOOLEAN, Continues(r, bad), UNCHANGED alone,
         at[r] = "judge" => Clean(Result(r)),
         turn[r] # 1 => (bad <=> ~Good(r))
  PROVE  /\ RunAlone' = Promise!Set(RunAlone, r, FALSE)
         /\ \/ /\ RunOpen' = Promise!Set(RunOpen, r, None)
               /\ UNCHANGED <<RunDay, RunVerdict, stored, warned, outcome>>
            \/ Promise!Resets(r, IF Good(r) THEN "ok" ELSE "error")
<1>1. IInv /\ TypeOK /\ Shape /\ RunInv(r) /\ OthersKept(r)
  BY Common
<1>2. RunAlone'[r] = FALSE => RunAlone' = Promise!Set(RunAlone, r, FALSE)
  BY <1>1, AloneMap DEF Set, Promise!Set
<1>3. CASE turn[r] = 1
  <2>1. at'[r] = "file" /\ UNCHANGED <<date, results, outcome, stored, warned>>
    BY <1>1, <1>3, ContinuesFrame DEF Continues
  <2>2. at[r] \in Working
    BY <1>1 DEF TypeOK, Idle
  <2>3. RunDay'[r] = RunDay[r] /\ RunOpen'[r] = None /\ RunAlone'[r] = FALSE
    BY <2>1, <2>2 DEF RunDay, RunOpen, RunAlone, Working, Storing
  <2>4. RunOpen' = Promise!Set(RunOpen, r, None) /\ UNCHANGED <<RunDay, RunVerdict>>
    BY <1>1, <2>1, <2>3, RunMaps, RunSame DEF Set, Promise!Set
  <2>5. QED
    BY <1>2, <2>1, <2>3, <2>4
<1>4. CASE turn[r] # 1
  <2>1. Ends(r, IF bad THEN "error" ELSE "ok")
    BY <1>1, <1>4, ContinuesFrame
  <2>2. at'[r] \in Idle
    BY <1>1, <2>1, EndsFrame DEF Idle
  <2>3. /\ Promise!Resets(r, IF bad THEN "error" ELSE "ok")
        /\ RunAlone'[r] = FALSE
    BY <1>1, <2>1, <2>2, ForgetsSeen DEF Ends
  <2>4. (IF bad THEN "error" ELSE "ok") = IF Good(r) THEN "ok" ELSE "error"
    BY <1>4
  <2>5. QED
    BY <1>2, <2>3, <2>4
<1>5. QED
  BY <1>3, <1>4

\* Outside of the stages of storing, it returns or the promise sees nothing.
LEMMA ClosesPromised ==
  ASSUME PromiseInv, NEW r \in Runs, Act(r), at[r] \in {"file", "judge", "alerted"},
         NEW bad \in BOOLEAN, Continues(r, bad),
         UNCHANGED <<file, report, details, last, alone>>,
         at[r] = "judge" => Clean(Result(r)),
         turn[r] # 1 => (bad <=> ~Good(r))
  PROVE  Promise!Return(r) \/ UNCHANGED Seen
<1>1. IInv /\ TypeOK /\ OthersKept(r) /\ at[r] \notin Idle \cup {"compare"}
  BY Common DEF Idle
<1>2. /\ RunAlone' = Promise!Set(RunAlone, r, FALSE)
      /\ \/ /\ RunOpen' = Promise!Set(RunOpen, r, None)
            /\ UNCHANGED <<RunDay, RunVerdict, stored, warned, outcome>>
         \/ Promise!Resets(r, IF Good(r) THEN "ok" ELSE "error")
  BY <1>1, ContinuesPromised
<1>3. RunDay[r] # None /\ RunOpen[r] = None /\ RunAlone[r] = FALSE
  BY <1>1, StageSeen DEF Working, Storing
<1>4. RunOpen = Promise!Set(RunOpen, r, None) /\ RunAlone = Promise!Set(RunAlone, r, FALSE)
  BY <1>3 DEF RunOpen, RunAlone, Promise!Set
<1>5. UNCHANGED <<Files, Reports, Listing>>
  BY StoreSame
<1>6. Good(r) <=> \A c \in {"wechat", "alipay"} :
                    c \in stored[r] /\ Promise!Agrees(RunVerdict[r][c])
  BY <1>1, GoodSeen
<1>7. CASE Promise!Resets(r, IF Good(r) THEN "ok" ELSE "error")
  BY <1>2, <1>3, <1>4, <1>5, <1>6, <1>7 DEF Promise!Return, Promise!stores
<1>8. CASE /\ RunOpen' = Promise!Set(RunOpen, r, None)
           /\ UNCHANGED <<RunDay, RunVerdict, stored, warned, outcome>>
  BY <1>2, <1>4, <1>5, <1>8 DEF Seen
<1>9. QED
  BY <1>2, <1>7, <1>8

LEMMA JudgePromised ==
  ASSUME PromiseInv, NEW r \in Runs, Judge(r)
  PROVE  Promise!Announce(r, Channel(r)) \/ Promise!Return(r) \/ UNCHANGED Seen
<1>0. Act(r)
  BY DEF Act, Step
<1>1. IInv /\ TypeOK /\ Shape /\ RunInv(r) /\ ReasonInv(r) /\ OthersKept(r)
  BY <1>0, Common
<1>2. at[r] = "judge" /\ UNCHANGED <<file, report, details, last, alone>>
  BY DEF Judge
<1>3. DOMAIN results[r] = {"wechat", "alipay"} /\ Channel(r) \in stored[r]
  BY <1>1, <1>2 DEF RunInv, Idle
<1>4. Result(r) = results[r][Channel(r)]
  BY DEF Result, Channel
<1>5. CASE Clean(Result(r))
  <2>1. Continues(r, trouble[r]) /\ trouble[r] \in BOOLEAN
    BY <1>1, <1>5 DEF Judge, Shape
  <2>2. turn[r] # 1 => (trouble[r] <=> ~Good(r))
    BY <1>2, <1>5, WhyBad
  <2>3. QED
    BY <1>0, <1>2, <1>5, <2>1, <2>2, ClosesPromised
<1>6. CASE ~Clean(Result(r))
  <2>1. /\ at'[r] = "alerted" /\ warned' \in {warned, Set(warned, r, warned[r] \cup {Channel(r)})}
        /\ UNCHANGED <<date, turn, results, outcome, stored>>
    BY <1>1, <1>6 DEF Judge, Set, TypeOK, Channel
  <2>2. ~Promise!Agrees(RunVerdict[r][Channel(r)])
    BY <1>1, <1>3, <1>4, <1>6, KeptSeen DEF RunInv
  <2>3. RunDay'[r] = RunDay[r] /\ RunOpen'[r] = RunOpen[r] /\ RunAlone'[r] = RunAlone[r]
    BY <1>2, <2>1 DEF RunDay, RunOpen, RunAlone, Working, Storing
  <2>4. UNCHANGED <<RunDay, RunVerdict, RunOpen, RunAlone, Files, Reports, Listing>>
    BY <1>1, <1>2, <2>1, <2>3, RunSame, StoreSame
  <2>5. CASE warned' = Set(warned, r, warned[r] \cup {Channel(r)})
    BY <1>2, <1>3, <2>1, <2>2, <2>4, <2>5 DEF Promise!Announce, Promise!stores, Promise!Set, Set
  <2>6. CASE warned' = warned
    BY <1>2, <2>1, <2>4, <2>6 DEF Seen
  <2>7. QED
    BY <2>1, <2>5, <2>6
<1>7. QED
  BY <1>5, <1>6

LEMMA ProceedPromised ==
  ASSUME PromiseInv, NEW r \in Runs, Proceed(r)
  PROVE  Promise!Return(r) \/ UNCHANGED Seen
<1>0. Act(r)
  BY DEF Act, Step
<1>1. /\ at[r] = "alerted" /\ Continues(r, TRUE)
      /\ UNCHANGED <<file, report, details, last, alone>>
  BY DEF Proceed
<1>2. QED
  BY <1>0, <1>1, WhyBad, ClosesPromised

LEMMA SkipPromised ==
  ASSUME PromiseInv, NEW r \in Runs, Skip(r)
  PROVE  \/ Promise!Fail(r) \/ Promise!Publish(r) \/ Promise!Replace(r) \/ Promise!Return(r)
         \/ UNCHANGED Seen
<1>0. Act(r)
  BY DEF Act
<1>1. IInv /\ TypeOK /\ ReasonInv(r) /\ OthersKept(r)
  BY <1>0, Common
<1>2. /\ at[r] \in {"file"} \cup Storing /\ at[r] \notin Idle \cup {"compare"}
      /\ Continues(r, TRUE) /\ UNCHANGED <<file, last, alone>>
  BY DEF Skip, Idle, Storing
<1>3. ~Good(r)
  BY <1>2, WhyBad
<1>4. CASE at[r] = "file"
  <2>1. UNCHANGED <<report, details>>
    BY <1>4 DEF Skip
  <2>2. QED
    BY <1>0, <1>2, <1>3, <1>4, <2>1, ClosesPromised
<1>5. CASE at[r] \in Storing
  <2>1. Promise!GivesUp(r)
    <3>1. /\ RunAlone' = Promise!Set(RunAlone, r, FALSE)
          /\ \/ /\ RunOpen' = Promise!Set(RunOpen, r, None)
                /\ UNCHANGED <<RunDay, RunVerdict, stored, warned, outcome>>
             \/ Promise!Resets(r, IF Good(r) THEN "ok" ELSE "error")
      BY <1>0, <1>2, <1>3, <1>5, ContinuesPromised DEF Storing
    <3>2. QED
      BY <1>3, <3>1 DEF Promise!GivesUp
  <2>2. RunOpen[r] # None
    BY <1>1, <1>5, StageSeen
  <2>3. CASE at[r] = "row" /\ report' = Set(report, Key(r), Result(r)) /\ UNCHANGED details
    <3>1. UNCHANGED <<Files, Listing>>
      BY <1>2, <2>3 DEF Files, Listing, Verdicts
    <3>2. QED
      BY <1>2, <2>1, <2>2, <2>3, <3>1, RowSeen DEF Promise!Publish
  <2>4. CASE at[r] = "insert" /\ Replace(r) /\ UNCHANGED report
    <3>1. UNCHANGED <<Files, Reports>>
      BY <1>2, <2>4 DEF Files, Reports, Verdicts
    <3>2. QED
      BY <1>2, <2>1, <2>4, <3>1, DetailsSeen DEF Promise!Replace
  <2>5. CASE UNCHANGED <<report, details>>
    <3>1. UNCHANGED <<Files, Reports, Listing>>
      BY <1>2, <2>5, StoreSame
    <3>2. QED
      BY <1>2, <2>1, <2>2, <3>1 DEF Promise!Fail, Promise!stores
  <2>6. QED
    BY <2>3, <2>4, <2>5 DEF Skip
<1>6. QED
  BY <1>2, <1>4, <1>5

LEMMA CrashPromised ==
  ASSUME PromiseInv, NEW r \in Runs, Crash(r)
  PROVE  Promise!Die(r)
<1>0. Act(r)
  BY DEF Act
<1>1. TypeOK /\ Shape /\ OthersKept(r)
  BY <1>0, Common
<1>2. /\ at'[r] \in Idle /\ Forgets(r, None) /\ UNCHANGED <<report, details>>
      /\ last' = [s \in Schedulers |-> IF s = r THEN None ELSE last[s]]
  BY <1>1 DEF Crash, Set, TypeOK, Idle
<1>3. Promise!Resets(r, None) /\ RunAlone'[r] = FALSE
  BY <1>1, <1>2, ForgetsSeen
<1>4. UNCHANGED <<Reports, Listing>>
  BY <1>2 DEF Reports, Listing, Verdicts
<1>5. CASE at[r] = "file" /\ Writes(r)
  <2>1. /\ Promise!Writes(r, Channel(r)) /\ Channel(r) \in {"wechat", "alipay"}
        /\ \A q \in Runs \ {r} :
             RunAlone'[q] = (RunAlone[q] /\ q \notin Promise!Rivals(r, Channel(r)))
    BY <1>0, <1>1, <1>5, WritesPromised, StageSeen
  <2>2. RunAlone' = [q \in Runs |->
                       RunAlone[q] /\ q \notin Promise!Rivals(r, Channel(r)) \cup {r}]
    <3>1. RunAlone' = [q \in Runs |-> RunAlone'[q]]
      BY DEF RunAlone
    <3>2. QED
      BY <1>3, <2>1, <3>1
  <2>3. QED
    BY <1>2, <1>3, <1>4, <2>1, <2>2 DEF Promise!Die
<1>6. CASE UNCHANGED <<file, alone>>
  <2>1. RunAlone' = Promise!Set(RunAlone, r, FALSE)
    BY <1>1, <1>3, <1>6, AloneMap DEF Set, Promise!Set
  <2>2. UNCHANGED Files
    BY <1>6 DEF Files, Verdicts
  <2>3. QED
    BY <1>2, <1>3, <1>4, <2>1, <2>2 DEF Promise!Die
<1>7. QED
  BY <1>5, <1>6 DEF Crash

LEMMA FirePromised ==
  ASSUME PromiseInv, NEW s \in Schedulers, Fire(s)
  PROVE  Promise!Begin(s, DayOf(time) - 1)
<1>0. s \in Runs /\ Act(s)
  BY DEF Runs, Act
<1>1. TypeOK /\ Shape /\ TimerInv(s)
  BY DEF PromiseInv, IInv
<1>2. DayOf(time) - 1 \in Days
  BY <1>1, TimeType
<1>3. last[s] = None \/ DayOf(time) - 1 > last[s]
  <2>1. DayOf(time) - 1 \in Int
    BY <1>2 DEF Days
  <2>2. CASE last[s] # None
    BY <1>1, <2>1, <2>2, FireDay
  <2>3. QED
    BY <2>2
<1>4. /\ Begin(s, DayOf(time) - 1) /\ at[s] \in {"down", "waiting"}
      /\ last' = [last EXCEPT ![s] = DayOf(time) - 1]
  BY DEF Fire, Set
<1>5. QED
  BY <1>0, <1>2, <1>3, <1>4, BeginPromised

\* Starting a process, and time, are nothing to the promise.
LEMMA QuietPromised ==
  ASSUME PromiseInv, Tick \/ UNCHANGED vars \/ \E s \in Schedulers : Start(s)
  PROVE  UNCHANGED Seen
<1>1. CASE Tick \/ UNCHANGED vars
  <2>1. UNCHANGED <<at, date, turn, results, outcome, file, report, details, last, alone, stored, warned>>
    BY <1>1 DEF Tick, vars, runVars, storeVars, history
  <2>2. QED
    BY <2>1 DEF Seen, RunDay, RunVerdict, RunOpen, RunAlone, Files, Reports, Listing, Verdicts
<1>2. ASSUME NEW s \in Schedulers, Start(s) PROVE UNCHANGED Seen
  <2>0. s \in Runs /\ Act(s)
    BY <1>2 DEF Runs, Act
  <2>1. TypeOK /\ OthersKept(s)
    BY <2>0, Common
  <2>2. /\ at[s] = "down" /\ at'[s] = "waiting"
        /\ UNCHANGED <<date, turn, results, outcome, file, report, details, last, alone, stored, warned>>
    BY <1>2, <2>0, <2>1 DEF Start, storeVars, history, Set, TypeOK
  <2>3. RunDay'[s] = RunDay[s] /\ RunOpen'[s] = RunOpen[s] /\ RunAlone'[s] = RunAlone[s]
    BY <2>0, <2>2 DEF RunDay, RunOpen, RunAlone, Working, Storing
  <2>4. UNCHANGED <<RunDay, RunVerdict, RunOpen, RunAlone, Files, Reports, Listing>>
    BY <2>0, <2>1, <2>2, <2>3, RunSame, StoreSame
  <2>5. QED
    BY <2>2, <2>4 DEF Seen
<1>3. QED
  BY <1>1, <1>2

LEMMA InitPromised == Init => Promise!Init
<1> SUFFICES ASSUME Init PROVE Promise!Init
    OBVIOUS
<1>1. \A r \in Runs : at[r] = "down" /\ results[r] = <<>> /\ alone[r] = FALSE
  BY DEF Init
<1>2. /\ RunDay = [r \in Runs |-> None] /\ RunOpen = [r \in Runs |-> None]
      /\ RunAlone = [r \in Runs |-> FALSE]
  BY <1>1 DEF RunDay, RunOpen, RunAlone, Working, Storing
<1>3. RunVerdict = [r \in Runs |-> Promise!Nothing]
  <2>1. \A r \in Runs : DOMAIN results[r] = {}
    BY <1>1
  <2>2. QED
    BY <2>1 DEF RunVerdict, Promise!Nothing
<1>4. ASSUME NEW k \in Keys
      PROVE  \/ Reports[k] = None /\ Listing[k] = {}
             \/ Reports[k] \in Promise!Verdicts(k) /\ Listing[k] = Promise!Differences(Reports[k])
  <2>1. CASE report[k] = None
    BY <2>1 DEF Reports, Verdicts, Listing, Init
  <2>2. CASE report[k] # None
    <3>1. report[k] \in Results(k)
      BY <2>2, InitIInv DEF IInv, ReportInv, Earned
    <3>2. Reports[k] = Verdict(report[k])
      BY <2>2 DEF Reports, Verdicts
    <3>3. Reports[k] \in Promise!Verdicts(k)
      BY <3>1, <3>2, ResultAllowed
    <3>4. Listing[k] = {Verdict(row.of) : row \in Batch(None, report[k])}
      BY <2>2 DEF Listing, Init
    <3>5. QED
      BY <3>2, <3>3, <3>4, BatchSeen
  <2>3. QED
    BY <2>1, <2>2
<1>5. DOMAIN Reports = Keys /\ DOMAIN Listing = Keys /\ Files = Reports
  BY DEF Reports, Verdicts, Listing, Files, Init
<1>6. QED
  BY <1>2, <1>3, <1>4, <1>5 DEF Promise!Init, Init, Keys

LEMMA NextPromised ==
  ASSUME PromiseInv, [Next]_vars
  PROVE  Promise!Next \/ UNCHANGED Seen
<1>1. CASE Tick \/ UNCHANGED vars \/ \E s \in Schedulers : Start(s)
  BY <1>1, QuietPromised
<1>2. ASSUME NEW s \in Schedulers, Fire(s) PROVE Promise!Next
  <2>1. s \in Runs /\ DayOf(time) - 1 \in Days
    BY TimeType DEF Runs, PromiseInv, IInv
  <2>2. QED
    BY <1>2, <2>1, FirePromised DEF Promise!Next
<1>3. ASSUME NEW c \in Commands, NEW d \in Asked, RunNow(c, d) PROVE Promise!Next
  <2>1. c \in Runs /\ c \notin Schedulers /\ d \in Days /\ Act(c)
    BY <1>3, RunsAssumption, AskedAssumption DEF Runs, Act
  <2>2. Begin(c, d) /\ at[c] \in {"down", "waiting"} /\ last' = last
    BY <1>3 DEF RunNow
  <2>3. Promise!Begin(c, d)
    BY <2>1, <2>2, BeginPromised
  <2>4. QED
    BY <2>1, <2>3 DEF Promise!Next
<1>4. ASSUME NEW r \in Runs, Step(r) \/ Skip(r) \/ Crash(r) PROVE Promise!Next \/ UNCHANGED Seen
  <2>1. Channel(r) \in {"wechat", "alipay"}
    BY StageSeen DEF PromiseInv, IInv
  <2>2. CASE Step(r)
    BY <2>1, <2>2, ComparePromised, GeneratePromised, StoringPromised, CommitPromised,
       JudgePromised, ProceedPromised DEF Step, Promise!Next
  <2>3. CASE Skip(r)
    BY <2>3, SkipPromised DEF Promise!Next
  <2>4. CASE Crash(r)
    BY <2>4, CrashPromised DEF Promise!Next
  <2>5. QED
    BY <1>4, <2>2, <2>3, <2>4
<1>5. QED
  BY <1>1, <1>2, <1>3, <1>4 DEF Next

\* For any schedulers, commands, bills and ledgers, overlapping, failing and dying: what
\* is stored, alerted and returned is what the promise allows.  The verdicts are of
\* comparisons that were made, of what was read as the bill with the table, number by
\* number (GenerateReport, reconcileDate).
THEOREM ReconciliationKeepsPromise == Spec => PromiseKept
<1>1. PromiseInv /\ [Next]_vars => Promise!Next \/ UNCHANGED Promise!vars
  <2>1. UNCHANGED Seen => UNCHANGED Promise!vars
    BY DEF Seen, Promise!vars, Promise!stores
  <2>2. QED
    BY <2>1, NextPromised
<1>2. QED
  BY <1>1, InitPromised, AlwaysReason, PTL DEF Spec, PromiseKept, Promise!Spec

=============================================================================
