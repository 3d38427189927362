----------------------------- MODULE FeedWatch -----------------------------
(***************************************************************************)
(* The live feed and everyone who must notice when it stops.  The process  *)
(* `main.py --ws-runner` waits for a Zerodha session, runs one KiteWSRunner*)
(* per session and starts over when it ends (providers/zerodha/ws_runner.py*)
(* and subscription_manager.py); Docker restarts it when it dies.  Inside  *)
(* it WSMonitor counts ticks and writes a status file, WSWatchdog alerts   *)
(* when no tick comes.  In the scheduler's process the fallback job reads  *)
(* the file and guards the trades itself when the feed looks dead          *)
(* (lifecycle/intraday_sl_fallback.py, providers/ws_health.py).            *)
(*                                                                         *)
(* Time passes in units (one minute in the instances); ages stop counting  *)
(* at Old.  A closed ticker makes connect() return and calls back no more. *)
(***************************************************************************)
EXTENDS Naturals, FiniteSets

CONSTANTS
  WatchStale,          \* ws_watchdog.stale_threshold_sec, not below its check interval
  TickStale,           \* intraday_sl_fallback.tick_stale_sec
  MinStreak,           \* intraday_sl_fallback.min_unhealthy_streak
  OpenAt, CloseAt,     \* the session, within a day of units 0 .. DayEnd
  DayEnd,
  LastDay,             \* bound on days
  Tokens,              \* instruments that may be subscribed
  Wishes,              \* the sets of them that may be wanted; {}: switched off
  MaxLogins,           \* bound on logins
  MaxUpsets            \* bound on deaths, failing calls, logouts and changed settings

ASSUME FeedAssumption ==
  /\ {WatchStale, TickStale, MinStreak, OpenAt, CloseAt, DayEnd, LastDay,
      MaxLogins, MaxUpsets} \subseteq Nat
  /\ WatchStale >= 1 /\ MinStreak >= 1 /\ LastDay >= 1 /\ OpenAt <= CloseAt /\ CloseAt <= DayEnd
  /\ Wishes \subseteq SUBSET Tokens

VARIABLES
  day, clock,          \* tokens expire between two days
  minted,              \* access tokens are numbers: the day each was minted on
  file,                \* zerodha_session.json: a token, or 0
  dead,                \* tokens Kite refuses
  wish,                \* what the loaders, the app's flag and the kill switch make of it
  runner,              \* the ws_runner process and its KiteWSRunner
  desired, subscribed, \* its token sets
  mon,                 \* its WSMonitor
  dog,                 \* its WSWatchdog
  snap,                \* ws_status.json
  streak,              \* sl_fallback_state.json: unhealthy_streak
  feed,                \* history: age of the last tick of all
  told,                \* history: the dead-man alert went out in this outage
  blind,               \* history: runs of the fallback since then that guarded nothing
  upsets               \* deaths, failing calls, logouts and changed settings so far

world   == <<day, clock, minted, file, dead, wish>>
session == <<runner, desired, subscribed, mon, dog>>
history == <<feed, told, blind>>
vars == <<world, session, snap, streak, history, upsets>>

Old == 1 + (IF WatchStale > TickStale THEN WatchStale ELSE TickStale)
Aged(a) == IF a < Old THEN a + 1 ELSE Old

InSession == clock \in OpenAt .. CloseAt
Valid(t)  == t # 0 /\ minted[t] = day        \* is_token_valid

NoRunner == [pc |-> "down", token |-> 0, state |-> "none", stop |-> FALSE, instance |-> FALSE]
NoMon    == [up |-> FALSE, tick |-> Old, expired |-> FALSE]
NoDog    == [up |-> FALSE, fired |-> FALSE, checked |-> FALSE]

Init ==
  /\ day = 1 /\ clock = 0 /\ minted = [t \in 1 .. MaxLogins |-> 0] /\ file = 0 /\ dead = {}
  /\ wish \in Wishes
  /\ runner = [NoRunner EXCEPT !.pc = "polling"] /\ desired = {} /\ subscribed = {}
  /\ mon = NoMon /\ dog = NoDog
  /\ snap = [tick |-> Old, bad |-> TRUE] /\ streak = 0
  /\ feed = Old /\ told = FALSE /\ blind = 0 /\ upsets = 0

Running == runner.pc \in {"loop", "build", "connect", "over"}
Upset   == upsets < MaxUpsets /\ upsets' = upsets + 1

-----------------------------------------------------------------------------
(* The life of the process (main.py) and of a session in it. *)

\* What WSMonitor writes of itself and of runner.status().
Status == [tick |-> mon.tick,
           bad |-> \/ mon.expired
                   \/ runner.state \in {"degraded", "token_expired", "stopped"}
                   \/ (runner.state = "connected" /\ subscribed = {})]

\* No valid token: an idle snapshot, and another look in five seconds.
Wait ==
  /\ runner.pc = "polling" /\ ~Valid(file)
  /\ snap' = [tick |-> Old, bad |-> TRUE]
  /\ UNCHANGED <<world, session, streak, history, upsets>>

\* _run_ws_runner_once builds the objects of a session and starts their threads.
Enter ==
  /\ runner.pc = "polling" /\ Valid(file) /\ ~runner.instance
  /\ runner' = [pc |-> "loop", token |-> file, state |-> "disconnected",
                stop |-> FALSE, instance |-> TRUE]
  /\ mon' = [NoMon EXCEPT !.up = TRUE] /\ dog' = [NoDog EXCEPT !.up = TRUE]
  /\ UNCHANGED <<world, desired, subscribed, snap, streak, history, upsets>>

Dead ==
  /\ runner' = NoRunner /\ desired' = {} /\ subscribed' = {}
  /\ mon' = NoMon /\ dog' = NoDog

\* A second KiteWSRunner raises: token expiry does not give the singleton back.
EnterRaises ==
  /\ runner.pc = "polling" /\ Valid(file) /\ runner.instance
  /\ Dead /\ UNCHANGED <<world, snap, streak, history, upsets>>

\* The process is killed, or an exception outside the session's try ends it.
Die ==
  /\ runner.pc # "down" /\ Upset /\ Dead
  /\ UNCHANGED <<world, snap, streak, history>>

DockerRestarts ==
  /\ runner.pc = "down" /\ runner' = [NoRunner EXCEPT !.pc = "polling"]
  /\ UNCHANGED <<world, desired, subscribed, mon, dog, snap, streak, history, upsets>>

\* The finally block: every part stops, the monitor with a last snapshot.
Finally ==
  /\ runner.pc = "over"
  /\ runner' = [runner EXCEPT !.pc = "polling"] /\ desired' = {} /\ subscribed' = {}
  /\ mon' = NoMon /\ dog' = NoDog /\ snap' = Status
  /\ UNCHANGED <<world, streak, history, upsets>>

-----------------------------------------------------------------------------
(* The connect loop of KiteWSRunner. *)

Loop(next) == runner' = next
              /\ UNCHANGED <<world, desired, mon, dog, snap, streak, history>>

\* The top of the loop looks at the stop event once.
LoopTop ==
  /\ runner.pc = "loop" /\ Loop(IF runner.stop THEN [runner EXCEPT !.pc = "over", !.state = "stopped"]
                                ELSE [runner EXCEPT !.pc = "build"])
  /\ UNCHANGED <<subscribed, upsets>>

\* A ticker is built and connected.  A stop meanwhile is noticed only if it came
\* between these two, where it leaves no ticker to connect.
Build ==
  /\ runner.pc = "build"
  /\ \/ Loop([runner EXCEPT !.pc = "connect", !.state = "connecting"])
     \/ runner.stop /\ Loop([runner EXCEPT !.pc = "loop", !.state = "connecting"])
  /\ UNCHANGED <<subscribed, upsets>>

Connected == runner.pc = "connect" /\ runner.state = "connected"

\* on_connect: what is desired is subscribed, if the call does not fail.
Opens ==
  /\ runner.pc = "connect" /\ ~Connected /\ runner.token \notin dead
  /\ Loop([runner EXCEPT !.state = "connected"])
  /\ \/ subscribed' = desired /\ upsets' = upsets
     \/ desired # {} /\ subscribed' = {} /\ Upset

\* The library reconnects on its own: on_close, then on_connect.
Reopens ==
  /\ Connected /\ runner.token \notin dead /\ Loop(runner)
  /\ \/ subscribed' = desired /\ upsets' = upsets
     \/ desired # {} /\ subscribed' = {} /\ Upset

\* connect() raises; after five minutes of that the feed is called degraded.
ConnectFails ==
  /\ runner.pc = "connect" /\ ~Connected
  /\ \E s \in {"connecting", "degraded"} : Loop([runner EXCEPT !.pc = "loop", !.state = s])
  /\ UNCHANGED <<subscribed, upsets>>

\* A 403 of a token that REST still takes: try again at once.
RefusedOnce ==
  /\ runner.pc = "connect" /\ runner.token \notin dead /\ file = runner.token /\ Valid(file)
  /\ Loop([runner EXCEPT !.pc = "loop"]) /\ UNCHANGED <<subscribed, upsets>>

\* Otherwise the session is over, and the singleton is kept.
TokenExpires ==
  /\ runner.pc = "connect" /\ (runner.token \in dead \/ file # runner.token \/ ~Valid(file))
  /\ runner' = [runner EXCEPT !.pc = "over", !.state = "token_expired", !.stop = TRUE]
  /\ mon' = [mon EXCEPT !.expired = TRUE]
  /\ UNCHANGED <<world, desired, subscribed, dog, snap, streak, history, upsets>>

\* KiteWSRunner.stop: the connected ticker is closed, and connect() returns.
Stopped == [runner EXCEPT !.stop = TRUE, !.state = "stopped", !.instance = FALSE]

\* connect() returns unasked: _ProcessRestartRequired ends the session.
Returns ==
  /\ runner.pc = "connect" /\ ~runner.stop /\ Loop([Stopped EXCEPT !.pc = "over"])
  /\ UNCHANGED <<subscribed, upsets>>

\* The same in a session whose stop came too early to close this ticker.
ReturnsLate ==
  /\ runner.pc = "connect" /\ runner.stop /\ Loop([runner EXCEPT !.pc = "loop"])
  /\ UNCHANGED <<subscribed, upsets>>

\* Mutant of Watch: only a file that is gone is noticed.
WatchLogoutOnly ==
  /\ runner.pc \in {"loop", "build", "connect"} /\ ~runner.stop /\ file = 0
  /\ Loop([Stopped EXCEPT !.pc = IF @ = "connect" THEN "loop" ELSE @])
  /\ UNCHANGED <<subscribed, upsets>>

\* _watch_session: a session file that is gone or holds another token stops the runner.
Watch ==
  /\ runner.pc \in {"loop", "build", "connect"} /\ ~runner.stop /\ file # runner.token
  /\ Loop([Stopped EXCEPT !.pc = IF @ = "connect" THEN "loop" ELSE @])
  /\ UNCHANGED <<subscribed, upsets>>

-----------------------------------------------------------------------------
(* Subscriptions and ticks. *)

\* SubscriptionManager.reconcile_once compares the wish with the desired set,
\* and only a change reaches the connection.
Reconcile ==
  /\ Running /\ wish # desired /\ desired' = wish
  /\ \/ subscribed' = (IF Connected THEN wish ELSE subscribed) /\ upsets' = upsets
     \/ Connected /\ ~(wish \subseteq subscribed) /\ subscribed' = subscribed /\ Upset
  /\ UNCHANGED <<world, runner, mon, dog, snap, streak, history>>

\* A tick of a subscribed instrument.  It ends the outage; one that the watchdog has
\* no more time to see today (the last unit of the session) is left for tomorrow.
Tick ==
  /\ Connected /\ subscribed # {}
  /\ mon' = [mon EXCEPT !.tick = 0] /\ feed' = 0 /\ blind' = 0
  /\ told' = (told /\ ~(InSession /\ clock < CloseAt))
  /\ UNCHANGED <<world, runner, desired, subscribed, dog, snap, streak, upsets>>

-----------------------------------------------------------------------------
(* Those who watch. *)

\* The writer thread of WSMonitor.
WriteSnapshot ==
  /\ mon.up /\ snap' = Status
  /\ UNCHANGED <<world, session, streak, history, upsets>>

\* Mutant of Check: the watchdog is armed again whenever it has nothing to report.
CheckKeepsFired ==
  /\ dog.up /\ ~dog.checked
  /\ LET stale == mon.tick > WatchStale
     IN /\ dog' = [dog EXCEPT !.checked = TRUE, !.fired = IF InSession THEN @ \/ stale ELSE @]
        /\ told' = (told \/ (InSession /\ stale /\ ~dog.fired))
  /\ UNCHANGED <<world, runner, desired, subscribed, mon, snap, streak, feed, blind, upsets>>

\* check_once: one alert when the feed is stale, armed again when it is fresh; nothing
\* outside the session.
Check ==
  /\ dog.up /\ ~dog.checked
  /\ LET stale == mon.tick > WatchStale
     IN /\ dog' = [dog EXCEPT !.checked = TRUE, !.fired = IF InSession THEN stale ELSE @]
        /\ told' = (told \/ (InSession /\ stale /\ ~dog.fired))
  /\ UNCHANGED <<world, runner, desired, subscribed, mon, snap, streak, feed, blind, upsets>>

\* Mutant of Unhealthy: the state in the file is believed.
UnhealthyByState(s) == s.bad

\* is_ws_unhealthy, in the session.  The age of the file is tested too, which adds
\* nothing: its last tick is older than the file, and has the lower limit.
Unhealthy(s) == s.bad \/ s.tick > TickStale

\* run_intraday_sl_fallback: trades are evaluated once the feed was found unhealthy
\* MinStreak times in a row.
Streak == IF InSession /\ Unhealthy(snap) THEN streak + 1 ELSE 0
Fallback ==
  /\ streak' = (IF Streak > MinStreak THEN MinStreak ELSE Streak)
  /\ blind' = (IF ~InSession \/ feed <= TickStale \/ Streak >= MinStreak THEN 0
               ELSE IF blind < MinStreak THEN blind + 1 ELSE blind)
  /\ UNCHANGED <<world, session, snap, feed, told, upsets>>

-----------------------------------------------------------------------------
(* The world. *)

\* The watchdog's loop looks at least once in a unit of time.
Pass ==
  /\ dog.up => dog.checked
  /\ IF clock < DayEnd
       THEN /\ clock' = clock + 1 /\ day' = day
            /\ mon' = [mon EXCEPT !.tick = Aged(@)] /\ feed' = Aged(feed)
            /\ snap' = [snap EXCEPT !.tick = Aged(@)]
       ELSE /\ day < LastDay /\ day' = day + 1 /\ clock' = 0
            /\ mon' = [mon EXCEPT !.tick = Old] /\ feed' = Old
            /\ snap' = [snap EXCEPT !.tick = Old]
  /\ dog' = [dog EXCEPT !.checked = FALSE]
  /\ UNCHANGED <<minted, file, dead, wish, runner, desired, subscribed,
                 streak, told, blind, upsets>>

\* A login: Kite refuses the older tokens from then on, the session file is replaced
\* and the container is started.
Login ==
  \E t \in 1 .. MaxLogins :
    /\ minted[t] = 0 /\ \A o \in 1 .. t - 1 : minted[o] # 0
    /\ minted' = [minted EXCEPT ![t] = day] /\ file' = t /\ dead' = 1 .. t - 1
    /\ runner' = (IF runner.pc = "down" THEN [runner EXCEPT !.pc = "polling"] ELSE runner)
    /\ UNCHANGED <<day, clock, wish, desired, subscribed, mon, dog, snap,
                   streak, history, upsets>>

Logout ==
  /\ file # 0 /\ file' = 0 /\ Upset
  /\ UNCHANGED <<day, clock, minted, dead, wish, session, snap, streak, history>>

\* Kite ends a token on its own: at 06:00, or when the user logs out there.
KiteEnds ==
  /\ \E t \in 1 .. MaxLogins : minted[t] # 0 /\ t \notin dead /\ dead' = dead \cup {t}
  /\ UNCHANGED <<day, clock, minted, file, wish, session, snap, streak, history, upsets>>

Switch ==
  /\ wish' \in Wishes \ {wish} /\ Upset
  /\ UNCHANGED <<day, clock, minted, file, dead, session, snap, streak, history>>

-----------------------------------------------------------------------------
Process == Wait \/ Enter \/ EnterRaises \/ DockerRestarts \/ Finally
Connection == \/ LoopTop \/ Build \/ Opens \/ ConnectFails \/ RefusedOnce
              \/ TokenExpires \/ Returns \/ ReturnsLate
Next == \/ Process \/ Die \/ Connection \/ Reopens \/ Watch \/ Reconcile \/ Tick
        \/ WriteSnapshot \/ Check \/ Fallback \/ Pass \/ Login \/ Logout \/ KiteEnds \/ Switch

\* The process polls, Docker restarts it, the threads of a session run, and a blocked
\* connect() of a refused token ends.
Fairness == /\ WF_vars(Enter) /\ WF_vars(EnterRaises) /\ WF_vars(DockerRestarts) /\ WF_vars(Finally)
            /\ WF_vars(LoopTop) /\ WF_vars(Build) /\ WF_vars(Watch)
            /\ WF_vars(runner.stop /\ (TokenExpires \/ ReturnsLate))

Spec == Init /\ [][Next]_vars /\ Fairness

-----------------------------------------------------------------------------
Runners    == [pc : {"down", "polling", "loop", "build", "connect", "over"},
               token : 0 .. MaxLogins,
               state : {"none", "disconnected", "connecting", "connected", "degraded",
                        "token_expired", "stopped"},
               stop : BOOLEAN, instance : BOOLEAN]
Monitors   == [up : BOOLEAN, tick : 0 .. Old, expired : BOOLEAN]
Watchdogs  == [up : BOOLEAN, fired : BOOLEAN, checked : BOOLEAN]
Snapshots  == [tick : 0 .. Old, bad : BOOLEAN]

TypeOK ==
  /\ day \in 1 .. LastDay /\ clock \in 0 .. DayEnd /\ file \in 0 .. MaxLogins
  /\ minted \in [1 .. MaxLogins -> 0 .. LastDay] /\ wish \in Wishes
  /\ dead \subseteq {t \in 1 .. MaxLogins : minted[t] # 0} /\ (file = 0 \/ minted[file] # 0)
  /\ runner \in Runners /\ subscribed \subseteq Tokens /\ desired \subseteq Tokens
  /\ mon \in Monitors /\ dog \in Watchdogs /\ Running = mon.up /\ Running = dog.up
  /\ Running /\ ~runner.stop => runner.instance
  /\ snap \in Snapshots /\ streak \in 0 .. MinStreak
  /\ feed \in 0 .. Old /\ told \in BOOLEAN /\ blind \in Nat /\ upsets \in 0 .. MaxUpsets

\* The fallback does not miss a dead feed: of the runs it makes while no tick has come for
\* longer than TickStale, fewer than MinStreak in a row guard no trade, whatever the runner,
\* its file and its deaths do (intraday_sl_fallback.py:79, ws_health.py:111).
BlindBounded == blind < MinStreak

\* A feed that dies within the session is alerted while the runner is up: once the watchdog
\* has looked and found no tick for longer than WatchStale, the alert of this outage went out
\* (ws_watchdog.py:165).  Its flag survives the night, and an outage whose end no check saw.
OutageAlerted ==
  dog.up /\ dog.checked /\ InSession /\ mon.tick > WatchStale => told

\* A new login reaches the feed: the runner runs with the newest token, unless that is
\* replaced, or expires, in time (main.py:395, main.py:512).
LoginPickedUp ==
  \A t \in 1 .. MaxLogins :
    (file = t /\ Valid(t)) ~> ((Running /\ runner.token = t) \/ file # t \/ ~Valid(t))

-----------------------------------------------------------------------------
(* What makes the safety properties inductive (FeedWatch_proofs). *)

\* Nobody has seen a later tick than the last one.
NoTickInvented == feed <= mon.tick /\ feed <= snap.tick

\* Every blind run of the fallback is counted in its file.
BlindCounted == blind <= streak /\ BlindBounded

\* A watchdog whose alert belongs to an outage that is over will see a fresh tick
\* in this unit of time or the next.
FiredBeforeTick ==
  dog.fired /\ ~told =>
    /\ dog.up /\ InSession
    /\ (mon.tick = 0 /\ clock < CloseAt) \/ (mon.tick <= 1 /\ ~dog.checked)

CheckedMeansFired == dog.up /\ dog.checked /\ InSession /\ mon.tick > WatchStale => dog.fired

IInv == TypeOK /\ NoTickInvented /\ BlindCounted /\ FiredBeforeTick /\ CheckedMeansFired
=============================================================================
