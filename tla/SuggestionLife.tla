--------------------------- MODULE SuggestionLife ---------------------------
(***************************************************************************)
(* The rows of options_suggestions and everyone who writes them: runs of   *)
(* the suggestion engine (lifecycle/suggestion_engine.py), which may       *)
(* overlap because a run started by hand, or one left behind by the job    *)
(* timeout, knows nothing of the others; the 09:35 validator               *)
(* (lifecycle/intraday_validator.py); and the user, whose requests to book *)
(* or to ignore a card the dashboard serves each in a thread of its own.   *)
(* A run is one transaction on a connection of its own: what it            *)
(* writes is seen by others when it commits, and a statement waits for the *)
(* rows another transaction has written, until its lock timeout.  A query  *)
(* sees what is committed: how the database isolates readers is not set by *)
(* the code, and readers that wait would only see less.                    *)
(*                                                                         *)
(* Days are numbers and none is a holiday.  No run crosses midnight.       *)
(***************************************************************************)
EXTENDS Decisions

CONSTANTS
  Names,               \* underlyings and kinds of expiry
  Outlooks,            \* what the data may say to a run: the plan it makes of them
                       \* on live data, and that on closing data (see CardChoice)
  LastRun,             \* engine runs, numbered in the order of their start
  RunKinds,            \* "eod", "catchup" (next morning), "live"
  LastDay,             \* bound on days
  MaxFails,            \* bound on job timeouts and restarts
  MaxTouches,          \* bound on requests of the user and rounds of the validator
  MaxEvents            \* bound on all of these

ASSUME SuggestionAssumption ==
  /\ RunKinds \subseteq {"eod", "catchup", "live"}
  /\ {LastRun, LastDay, MaxFails, MaxTouches, MaxEvents} \subseteq Nat
  /\ LastDay > 0

\* A plan: the ids it takes, its cards with the number of the attempt that made
\* them, and its sit-outs.
Offers == [carded : BOOLEAN, strategy : Strategies, warned : BOOLEAN, u : Names,
           kind : Names, today : Trends \cup {"none"}, score : Int]
Plan   == [ids : Nat, sits : Nat, queue : Seq([offer : Offers, nth : Nat \ {0}])]

Apart(s, t) == Direction(s) = "NEUTRAL" \/ Direction(s) # Direction(t)
OneEach(queue) ==
  \A m, n \in DOMAIN queue : m # n => Apart(queue[m].offer.strategy, queue[n].offer.strategy)

\* Of an offer or a row: what its strategy bets on is what today's session does, or
\* there is a warning.
Warns(c) == Direction(c.strategy) \notin {"NEUTRAL", c.today} /\ c.today # "none" => c.warned

ASSUME OutlookAssumption == \A o \in Outlooks : o \in [live : Plan, close : Plan]

\* What CardChoice promises of its plans: at most one card per direction, and the
\* warning on every card that today's session opposes.
PlansApart  == \A o \in Outlooks : OneEach(o.live.queue) /\ OneEach(o.close.queue)
PlansWarned ==
  \A o \in Outlooks :
    /\ \A n \in DOMAIN o.live.queue : Warns(o.live.queue[n].offer)
    /\ \A n \in DOMAIN o.close.queue : Warns(o.close.queue[n].offer)

VARIABLES
  day,      \* today
  rows,     \* options_suggestions, as committed: [<<date, seq>> -> row]
  mine,     \* per run, the rows it has written and not committed
  run,      \* per run, its progress and what the data will say to it
  cache,    \* SuggestionRepo._next_seq_cache: [<<address, date>> -> seq]
  checker,  \* the validator: the cards it has read
  desk,     \* per request of the user, the card it has read, and what for
  booked,   \* suggestions with a trade
  met,      \* history: per run, the runs it overlapped
  fails,    \* timeouts and restarts so far
  touches   \* requests of the user and rounds of the validator so far

vars == <<day, rows, mine, run, cache, checker, desk, booked, met, fails, touches>>

Days == 1 .. LastDay
Runs == 1 .. LastRun
Requests == 1 .. MaxTouches
NoPlan == [ids |-> 0, sits |-> 0, queue |-> <<>>]
Idle == [pc |-> "new", kind |-> "none", date |-> 0, entry |-> 0, conn |-> 0, first |-> 0,
         queue |-> <<>>, sits |-> 0, cut |-> 0, outlook |-> [live |-> NoPlan, close |-> NoPlan]]
NoDesk == [id |-> <<0, 0>>, what |-> "none"]

Init ==
  /\ day = 1 /\ rows = [i \in {} |-> Idle]
  /\ mine = [r \in Runs |-> [i \in {} |-> Idle]]
  /\ run \in [Runs -> {[Idle EXCEPT !.outlook = o] : o \in Outlooks}]
  /\ cache = [c \in Runs \X Days |-> 0]
  /\ checker = {} /\ desk = [q \in Requests |-> NoDesk] /\ booked = {}
  /\ met = [r \in Runs |-> {}] /\ fails = 0 /\ touches = 0

-----------------------------------------------------------------------------
(* Queries. *)

Over(new, old) == [i \in DOMAIN new \cup DOMAIN old |->
                     IF i \in DOMAIN new THEN new[i] ELSE old[i]]
View(r)  == Over(mine[r], rows)
MayHappen == fails + touches < MaxEvents
Running(r) == run[r].pc \notin {"new", "done", "failed"}
Dirty(r) == UNION {DOMAIN mine[o] : o \in Runs \ {r}}     \* rows others have locked
AllDirty == UNION {DOMAIN mine[o] : o \in Runs}

Slot(c) == <<c.u, c.kind, c.strategy>>
Ignored(table, ids) == [i \in ids |-> [table[i] EXCEPT !.status = "IGNORED"]]

\* _retire_prior_day_pending.
Past(table) == {i \in DOMAIN table : table[i].status = "PENDING" /\ table[i].entry < day}

\* Mutant of Superseded: cards that are no longer pending are replaced too.
SupersededAny(table, c, limit) ==
  {i \in DOMAIN table : /\ table[i].status # "NO_SUGGESTION" /\ Slot(table[i]) = Slot(c)
                        /\ table[i].entry < limit}

\* expire_stale_pending.
Superseded(table, c, limit) ==
  {i \in DOMAIN table : /\ table[i].status = "PENDING" /\ Slot(table[i]) = Slot(c)
                        /\ table[i].entry < limit}

\* Mutant of Offered: only pending cards count.
OfferedPending(table, c, entry) ==
  \E i \in DOMAIN table : /\ table[i].status = "PENDING"
                          /\ Slot(table[i]) = Slot(c) /\ table[i].entry = entry

\* has_suggestion_for.
Offered(table, c, entry) ==
  \E i \in DOMAIN table : /\ table[i].status # "NO_SUGGESTION"
                          /\ Slot(table[i]) = Slot(c) /\ table[i].entry = entry

-----------------------------------------------------------------------------
(* Runs of the engine. *)

\* next_suggestion_id: the greatest id in the table, or the connection's last.
NextSeq(r) ==
  LET d == run[r].date
      used == {i[2] : i \in {j \in DOMAIN View(r) : j[1] = d}}
  IN IF cache[<<run[r].conn, d>>] # 0 THEN cache[<<run[r].conn, d>>] + 1
     ELSE CHOOSE n \in {k + 1 : k \in used \cup {0}} : \A k \in used : k < n

Remember(r, last) == IF last < NextSeq(r) THEN cache
                     ELSE [cache EXCEPT ![<<run[r].conn, run[r].date>>] = last]

\* A run of the evening enters on the next day, with the data of today; the
\* catch-up of the next morning enters today, with the data of yesterday.
DateOf(k)  == IF k = "catchup" THEN day - 1 ELSE day
EntryOf(k) == IF k = "eod" THEN day + 1 ELSE day

\* The job opens a connection, whose object may have the address (id) of an earlier
\* run's: an address is named for the first run that had it.  Then the run ignores
\* pending cards of past days; when another transaction holds one of them too long,
\* it ignores none.
Start(r, k) ==
  /\ run[r].pc = "new" /\ {DateOf(k), EntryOf(k)} \subseteq Days
  /\ r > 1 => run[r - 1].pc # "new"
  /\ \E c \in 1 .. r :
       /\ \A o \in Runs : Running(o) => run[o].conn # c
       /\ run' = [run EXCEPT ![r] = [@ EXCEPT !.pc = "evaluate", !.kind = k,
                    !.date = DateOf(k), !.entry = EntryOf(k), !.conn = c]]
  /\ mine' = [mine EXCEPT ![r] = IF Past(rows) \cap AllDirty = {} THEN Ignored(rows, Past(rows))
                                 ELSE [i \in {} |-> Idle]]
  /\ met' = [o \in Runs |-> IF o = r THEN {p \in Runs : Running(p)}
                             ELSE IF Running(o) THEN met[o] \cup {r} ELSE met[o]]
  /\ UNCHANGED <<day, rows, cache, checker, desk, booked, fails, touches>>

\* Every candidate is evaluated, then the cards of the run are chosen.
Evaluate(r) ==
  /\ run[r].pc = "evaluate"
  /\ LET plan == run[r].outlook[IF run[r].kind = "live" THEN "live" ELSE "close"]
     IN /\ run' = [run EXCEPT ![r] = [@ EXCEPT !.pc = "persist", !.first = NextSeq(r),
                                !.queue = plan.queue, !.sits = plan.sits, !.outlook = Idle.outlook]]
        /\ cache' = Remember(r, NextSeq(r) + plan.ids - 1)
  /\ UNCHANGED <<day, rows, mine, checker, desk, booked, met, fails, touches>>

Card(r)   == Head(run[r].queue).offer
CardId(r) == <<run[r].date, run[r].first + Head(run[r].queue).nth - 1>>
\* Mutant of Limit: a live run replaces nothing of today.
LimitToday(r) == run[r].entry

Limit(r) == IF run[r].kind = "live" THEN run[r].entry + 1 ELSE run[r].entry
Hits(r) == Superseded(View(r), Card(r), Limit(r))

\* Older cards of the slot are ignored, for a live run those of today too; a run
\* on closing data then passes over a slot that has a card for its day.
Replace(r) ==
  /\ run[r].pc = "persist" /\ run[r].queue # <<>>
  /\ Hits(r) \cap Dirty(r) = {}
  /\ mine' = [mine EXCEPT ![r] = Over(Ignored(View(r), Hits(r)), @)]
  /\ run' = IF run[r].kind # "live" /\ Offered(View(r), Card(r), run[r].entry)
            THEN [run EXCEPT ![r].queue = Tail(@)]
            ELSE [run EXCEPT ![r].pc = "insert"]
  /\ UNCHANGED <<day, rows, cache, checker, desk, booked, met, fails, touches>>

RowOf(c, r) == [status |-> "PENDING", u |-> c.u, kind |-> c.kind, strategy |-> c.strategy,
                entry |-> run[r].entry, run |-> r, today |-> c.today, warned |-> c.warned]
SitOutRow(r) == [status |-> "NO_SUGGESTION", u |-> "none", kind |-> "none", strategy |-> "NONE",
                 entry |-> 0, run |-> r, today |-> "none", warned |-> FALSE]

\* Mutant of Fails: what the run has written is not rolled back.
FailsDirty(r) ==
  /\ run' = [run EXCEPT ![r] = [Idle EXCEPT !.pc = "failed", !.kind = run[r].kind,
                                               !.cut = run[r].cut]]
  /\ UNCHANGED mine

\* The run raises; its connection rolls back.
Fails(r) ==
  /\ run' = [run EXCEPT ![r] = [Idle EXCEPT !.pc = "failed", !.kind = run[r].kind,
                                               !.cut = run[r].cut]]
  /\ mine' = [mine EXCEPT ![r] = [i \in {} |-> Idle]]

\* Mutant of Insert: an id that is taken is tried again.
InsertRetries(r) ==
  /\ run[r].pc = "insert" /\ CardId(r) \notin Dirty(r)
  /\ IF CardId(r) \in DOMAIN View(r) THEN UNCHANGED <<mine, run>>
     ELSE /\ mine' = [mine EXCEPT ![r] = Over([i \in {CardId(r)} |-> RowOf(Card(r), r)], @)]
          /\ run' = [run EXCEPT ![r].pc = "persist", ![r].queue = Tail(@)]
  /\ UNCHANGED <<day, rows, cache, checker, desk, booked, met, fails, touches>>

\* The row and its legs; an id that is taken fails the run.
Insert(r) ==
  /\ run[r].pc = "insert"
  /\ CardId(r) \notin Dirty(r)
  /\ IF CardId(r) \in DOMAIN View(r) THEN Fails(r)
     ELSE /\ mine' = [mine EXCEPT ![r] = Over([i \in {CardId(r)} |-> RowOf(Card(r), r)], @)]
          /\ run' = [run EXCEPT ![r].pc = "persist", ![r].queue = Tail(@)]
  /\ UNCHANGED <<day, rows, cache, checker, desk, booked, met, fails, touches>>

\* The sit-out rows, of which those whose id is taken are skipped, and the commit.
Commit(r) ==
  /\ run[r].pc = "persist" /\ run[r].queue = <<>>
  /\ LET ids == {<<run[r].date, NextSeq(r) + n - 1>> : n \in 1 .. run[r].sits}
         new == [i \in ids \ DOMAIN View(r) |-> SitOutRow(r)]
     IN /\ ids \cap Dirty(r) = {}
        /\ rows' = Over(new, View(r))
        /\ cache' = Remember(r, NextSeq(r) + run[r].sits - 1)
  /\ mine' = [mine EXCEPT ![r] = [i \in {} |-> Idle]]
  /\ run' = [run EXCEPT ![r] = [Idle EXCEPT !.pc = "done", !.kind = run[r].kind,
                                               !.cut = run[r].cut]]
  /\ UNCHANGED <<day, checker, desk, booked, met, fails, touches>>

Blocked(r) ==
  \/ run[r].pc = "persist" /\ run[r].queue # <<>> /\ Hits(r) \cap Dirty(r) # {}
  \/ run[r].pc = "insert" /\ CardId(r) \in Dirty(r)
  \/ /\ run[r].pc = "persist" /\ run[r].queue = <<>>
     /\ \E n \in 1 .. run[r].sits : <<run[r].date, NextSeq(r) + n - 1>> \in Dirty(r)

\* A statement that waits too long fails the run (lock_timeout_ms), unless it
\* inserts a sit-out row.
LockTimeout(r) ==
  /\ Blocked(r)
  /\ IF run[r].queue # <<>> THEN Fails(r)
     ELSE run' = [run EXCEPT ![r].sits = 0] /\ UNCHANGED mine
  /\ UNCHANGED <<day, rows, cache, checker, desk, booked, met, fails, touches>>

-----------------------------------------------------------------------------
(* The job timeout (scheduler.py, _run_with_timeout and _run_job). *)

\* The watchdog closes the connection; the thread fails in the call it was in,
\* or goes on and reconnects at its next one.
Cut(r) ==
  /\ Running(r) /\ run[r].cut = 0 /\ fails < MaxFails /\ MayHappen
  /\ fails' = fails + 1
  /\ \/ Fails(r)
     \/ /\ run' = [run EXCEPT ![r].cut = 1]
        /\ mine' = [mine EXCEPT ![r] = [i \in {} |-> Idle]]
  /\ UNCHANGED <<day, rows, cache, checker, desk, booked, met, touches>>

\* The job rolls back on the same connection object, reports its failure on it,
\* which commits what the thread has written since, and closes it.
RollBackCut(r) ==
  /\ Running(r) /\ run[r].cut = 1
  /\ run' = [run EXCEPT ![r].cut = 2]
  /\ mine' = [mine EXCEPT ![r] = [i \in {} |-> Idle]]
  /\ UNCHANGED <<day, rows, cache, checker, desk, booked, met, fails, touches>>

ReportCut(r) ==
  /\ Running(r) /\ run[r].cut = 2
  /\ rows' = View(r)
  /\ mine' = [mine EXCEPT ![r] = [i \in {} |-> Idle]]
  /\ run' = [run EXCEPT ![r].cut = 3]
  /\ UNCHANGED <<day, cache, checker, desk, booked, met, fails, touches>>

CloseCut(r) ==
  /\ Running(r) /\ run[r].cut = 3
  /\ mine' = [mine EXCEPT ![r] = [i \in {} |-> Idle]]
  /\ run' = [run EXCEPT ![r].cut = 4]
  /\ UNCHANGED <<day, rows, cache, checker, desk, booked, met, fails, touches>>

\* The process ends, with its threads and its memory.
Restart ==
  /\ fails < MaxFails /\ MayHappen /\ \E r \in Runs : Running(r)
  /\ fails' = fails + 1
  /\ run' = [r \in Runs |-> IF Running(r) THEN [Idle EXCEPT !.pc = "failed", !.kind = run[r].kind,
                                                                !.cut = run[r].cut]
                             ELSE run[r]]
  /\ mine' = [r \in Runs |-> [i \in {} |-> Idle]]
  /\ cache' = [c \in Runs \X Days |-> 0]
  /\ UNCHANGED <<day, rows, checker, desk, booked, met, touches>>

-----------------------------------------------------------------------------
(* The validator, the user and the calendar. *)

Touch == touches < MaxTouches /\ MayHappen /\ touches' = touches + 1

CheckReads ==
  /\ checker = {} /\ Touch
  /\ checker' = {i \in DOMAIN rows : rows[i].status = "PENDING" /\ rows[i].entry = day}
  /\ checker' # {}
  /\ UNCHANGED <<day, rows, mine, run, cache, desk, booked, met, fails>>

\* Cards whose price has moved are ignored, whatever has become of them.
CheckWrites ==
  /\ checker # {} /\ checker \cap AllDirty = {}
  /\ \E stale \in SUBSET checker : rows' = Over(Ignored(rows, stale), rows)
  /\ checker' = {}
  /\ UNCHANGED <<day, mine, run, cache, desk, booked, met, fails, touches>>

\* revalidate_pending_suggestions, which evaluates but writes no card.
Revalidate ==
  /\ Past(rows) # {} /\ Past(rows) \cap AllDirty = {}
  /\ rows' = Over(Ignored(rows, Past(rows)), rows)
  /\ UNCHANGED <<day, mine, run, cache, checker, desk, booked, met, fails, touches>>

\* mark_executed reads the status of a card, for one more request ...
Choose(i, what) ==
  /\ rows[i].status = "PENDING" /\ Touch
  /\ desk' = [desk EXCEPT ![touches + 1] = [id |-> i, what |-> what]]
  /\ UNCHANGED <<day, rows, mine, run, cache, checker, booked, met, fails>>

Closed(q) == desk' = [desk EXCEPT ![q] = NoDesk]

\* ... and later books the trade or ignores the card, whatever has become of it ...
Confirm(q) ==
  /\ desk[q] # NoDesk /\ desk[q].id \notin AllDirty
  /\ rows' = [rows EXCEPT ![desk[q].id].status = desk[q].what]
  /\ booked' = IF desk[q].what = "EXECUTED" THEN booked \cup {desk[q].id} ELSE booked
  /\ Closed(q)
  /\ UNCHANGED <<day, mine, run, cache, checker, met, fails, touches>>

\* ... or fails: a booking is refused (there is a trade by now, or the gate is
\* shut), or the row stays locked too long.
Refused(q) ==
  /\ desk[q] # NoDesk
  /\ desk[q].what = "EXECUTED" \/ desk[q].id \in AllDirty
  /\ Closed(q)
  /\ UNCHANGED <<day, rows, mine, run, cache, checker, booked, met, fails, touches>>

NewDay ==
  /\ day < LastDay /\ checker = {} /\ \A q \in Requests : desk[q] = NoDesk
  /\ \A r \in Runs : ~Running(r)
  /\ day' = day + 1
  /\ UNCHANGED <<rows, mine, run, cache, checker, desk, booked, met, fails, touches>>

-----------------------------------------------------------------------------
Engine(r) == Evaluate(r) \/ Replace(r) \/ Insert(r) \/ Commit(r) \/ LockTimeout(r)
Timeout(r) == Cut(r) \/ RollBackCut(r) \/ ReportCut(r) \/ CloseCut(r)

Next ==
  \/ \E r \in Runs : Engine(r) \/ Timeout(r) \/ \E k \in RunKinds : Start(r, k)
  \/ Restart
  \/ CheckReads \/ CheckWrites \/ Revalidate
  \/ \E i \in DOMAIN rows, what \in {"EXECUTED", "IGNORED"} : Choose(i, what)
  \/ \E q \in Requests : Confirm(q) \/ Refused(q)
  \/ NewDay

\* A thread runs on; whether anyone starts one is nobody's promise.
Fairness == \A r \in Runs : WF_vars(Engine(r))

Spec == Init /\ [][Next]_vars /\ Fairness

-----------------------------------------------------------------------------
(* Properties. *)

RowType == [status : {"PENDING", "IGNORED", "EXECUTED", "NO_SUGGESTION"},
            u : Names \cup {"none"}, kind : Names \cup {"none"},
            strategy : Strategies \cup {"NONE"}, entry : Nat, run : Runs,
            today : Trends \cup {"none"}, warned : BOOLEAN]
RunType == [pc : {"new", "evaluate", "persist", "insert", "done", "failed"},
            kind : RunKinds \cup {"none"}, date : Days \cup {0}, entry : Days \cup {0},
            conn : Runs \cup {0}, first : Nat, queue : Seq([offer : Offers, nth : Nat \ {0}]),
            sits : Nat, cut : 0 .. 4, outlook : [live : Plan, close : Plan]]
Ids == Days \X Nat

\* The variables hold what their comments say (database/models.py:590-660).
TypeOK ==
  /\ day \in Days
  /\ DOMAIN rows \subseteq Ids /\ rows \in [DOMAIN rows -> RowType]
  /\ DOMAIN mine = Runs
  /\ \A r \in Runs :
       /\ DOMAIN mine[r] \subseteq Ids /\ mine[r] \in [DOMAIN mine[r] -> RowType]
       /\ (Running(r) \/ DOMAIN mine[r] = {})
  /\ run \in [Runs -> RunType]
  /\ \A r \in Runs : Running(r) => {run[r].date, run[r].entry} \subseteq Days /\ run[r].conn # 0
  /\ cache \in [Runs \X Days -> Nat]
  /\ checker \subseteq DOMAIN rows /\ booked \subseteq DOMAIN rows
  /\ DOMAIN desk = Requests
  /\ \A q \in Requests :
       desk[q] = NoDesk \/ desk[q] \in [id : DOMAIN rows, what : {"EXECUTED", "IGNORED"}]
  /\ met \in [Runs -> SUBSET Runs] /\ fails \in 0 .. MaxFails /\ touches \in 0 .. MaxTouches

Twins(i, j) == /\ i # j /\ rows[i].status # "NO_SUGGESTION" /\ Slot(rows[i]) = Slot(rows[j])
               /\ rows[i].entry = rows[j].entry
MetRuns(i, j) == rows[i].run \in met[rows[j].run]

WasCut(i) == run[rows[i].run].cut # 0

\* Two cards of one slot and day can be placed only when their runs overlapped, or
\* one of them was timed out between the two writes: a live card replaces, a card
\* on closing data is passed over (suggestion_engine.py:1375-1402).
OneCardPerSlot ==
  \A i, j \in DOMAIN rows :
    Twins(i, j) /\ rows[i].status = "PENDING" /\ rows[j].status = "PENDING"
      => MetRuns(i, j) \/ WasCut(i) \/ WasCut(j)

\* A card that was booked or ignored is not offered again on closing data
\* (models.py:712), unless the runs overlapped.
NotOfferedTwice ==
  \A i, j \in DOMAIN rows :
    /\ Twins(i, j) /\ run[rows[i].run].kind # "live" /\ run[rows[j].run].kind # "live"
    => MetRuns(i, j)

\* Whatever part of a run's cards is committed holds one card per direction at
\* most (suggestion_engine.py:1313).
OneDirectionPerRun ==
  \A i, j \in DOMAIN rows :
    /\ i # j /\ rows[i].run = rows[j].run
    /\ rows[i].status # "NO_SUGGESTION" /\ rows[j].status # "NO_SUGGESTION"
    => Direction(rows[i].strategy) = "NEUTRAL"
       \/ Direction(rows[i].strategy) # Direction(rows[j].strategy)

\* A directional card that today's session opposes carries the warning, the
\* halves of a condor included (suggestion_engine.py:265, :1066).
FoughtCardIsWarned == \A i \in DOMAIN rows : Warns(rows[i])

\* The validator, or a request of the user, has read the card and may yet write it.
Held(i) == i \in checker \/ \E q \in Requests : desk[q].id = i

\* A booked card is EXECUTED for good, and nobody takes it up, as soon as those who
\* had read it before it was booked are done: a request to ignore it writes IGNORED
\* on what it read (trade_executor.py:321), and so does the validator
\* (intraday_validator.py:264).
BookedStaysExecuted ==
  [][\A i \in booked : rows[i].status = "EXECUTED" /\ ~Held(i)
       => rows'[i].status = "EXECUTED" /\ ~Held(i)']_vars

\* Every run ends, whatever rows and ids the others hold and whatever became of its
\* connection (connection.py:90, scheduler.py:123).
RunsEnd == \A r \in Runs : Running(r) ~> ~Running(r)

-----------------------------------------------------------------------------
(* The inductive invariant behind the safety properties. *)

IsCard(w) == w.status # "NO_SUGGESTION"

\* Two rows that may stand side by side, by the history of their runs.
Compatible(v, w, progress, seen) ==
  IsCard(v) /\ IsCard(w) =>
    /\ PlansApart /\ v.run = w.run => Apart(v.strategy, w.strategy)
    /\ Slot(v) = Slot(w) /\ v.entry = w.entry /\ v.run \notin seen[w.run] =>
         /\ "live" \in {progress[v.run].kind, progress[w.run].kind}
         /\ v.status = "PENDING" /\ w.status = "PENDING"
              => progress[v.run].cut # 0 \/ progress[w.run].cut # 0

AllCompatible(table, progress, seen) ==
  \A i, j \in DOMAIN table : i # j => Compatible(table[i], table[j], progress, seen)

\* What a run has written and not committed: new rows of its own, and pending rows,
\* ignored, that nobody else writes until it commits.
Locked ==
  \A r \in Runs : \A i \in DOMAIN mine[r] :
    /\ IF i \in DOMAIN rows
       THEN rows[i].status = "PENDING" /\ mine[r][i] = [rows[i] EXCEPT !.status = "IGNORED"]
       ELSE mine[r][i].run = r /\ IsCard(mine[r][i])
    /\ i \notin Dirty(r)

\* Who has met whom; and a run that has not written has no rows.
Met ==
  \A r, o \in Runs :
    /\ o \in met[r] => r \in met[o] /\ run[r].pc # "new"
    /\ Running(r) /\ Running(o) /\ r # o => o \in met[r]
WrittenLate ==
  /\ \A i \in DOMAIN rows : run[rows[i].run].pc \notin {"new", "evaluate"}
  /\ \A r \in Runs : run[r].pc = "evaluate" => DOMAIN mine[r] \subseteq DOMAIN rows

\* The rows are compatible, those others see and those each run sees; a card that is
\* about to be inserted is compatible with them, and those in the queue are apart.
Tables ==
  /\ AllCompatible(rows, run, met)
  /\ \A r \in Runs :
       /\ AllCompatible(View(r), run, met)
       /\ run[r].pc = "insert" =>
            /\ run[r].queue # <<>>
            /\ \A i \in DOMAIN View(r) : Compatible(View(r)[i], RowOf(Card(r), r), run, met)
       /\ PlansApart =>
            /\ OneEach(run[r].queue)
            /\ \A i \in DOMAIN View(r), n \in DOMAIN run[r].queue :
                 View(r)[i].run = r /\ IsCard(View(r)[i])
                   => Apart(View(r)[i].strategy, run[r].queue[n].offer.strategy)

\* Cards have a strategy, sit-outs have none; and each card warns.
Sound(w) == (IsCard(w) <=> w.strategy # "NONE") /\ (PlansWarned => Warns(w))
AllSound ==
  /\ \A i \in DOMAIN rows : Sound(rows[i])
  /\ \A r \in Runs :
       /\ \A i \in DOMAIN mine[r] : Sound(mine[r][i])
       /\ PlansWarned => \A n \in DOMAIN run[r].queue : Warns(run[r].queue[n].offer)
       /\ run[r].pc \in {"new", "evaluate"} => run[r].outlook \in Outlooks

\* The validator and the requests have read cards, and a card that is booked is
\* pending no more.
Readers ==
  /\ \A i \in checker : IsCard(rows[i])
  /\ \A i \in booked : rows[i].status # "PENDING"
  /\ \A q \in Requests : desk[q] # NoDesk => IsCard(rows[desk[q].id])

\* The ids are bounded, so that there is a next one.
Bounded == \E top \in Nat : \A i \in DOMAIN rows \cup AllDirty : i[2] <= top

IInv == TypeOK /\ Locked /\ Met /\ WrittenLate /\ Tables /\ AllSound /\ Readers
=============================================================================
