-------------------------- MODULE FeedWatch_proofs --------------------------
(***************************************************************************)
(* Proofs about FeedWatch, for every limit of staleness, streak, session,  *)
(* number of days, logins and upsets, and every set of instruments.  The   *)
(* steps of the runner and its connection disturb the types only; the      *)
(* steps of those who watch are taken one by one.                          *)
(***************************************************************************)
EXTENDS FeedWatch, TLAPS

WatchInv == NoTickInvented /\ BlindCounted /\ FiredBeforeTick /\ CheckedMeansFired

\* What the watchers go by.
Watched == <<clock, mon, dog, snap, streak, history>>

-----------------------------------------------------------------------------
(* Ages. *)

\* The constants, one by one.
LEMMA Limits ==
  /\ WatchStale \in Nat /\ TickStale \in Nat /\ MinStreak \in Nat /\ OpenAt \in Nat
  /\ CloseAt \in Nat /\ DayEnd \in Nat /\ LastDay \in Nat /\ MaxLogins \in Nat
  /\ WatchStale >= 1 /\ MinStreak >= 1 /\ LastDay >= 1
  /\ OpenAt <= CloseAt /\ CloseAt <= DayEnd /\ MaxUpsets \in Nat
BY FeedAssumption

\* Old is beyond both limits.
LEMMA OldIsBeyond == Old \in Nat /\ Old > WatchStale /\ Old > TickStale
BY Limits DEF Old

\* An age grows to Old and no further, and two ages keep their order.
LEMMA AgesGrow ==
  ASSUME NEW a \in 0 .. Old, NEW b \in 0 .. Old, a <= b
  PROVE  /\ Aged(a) \in 0 .. Old /\ Aged(b) \in 0 .. Old /\ Aged(a) <= Aged(b)
         /\ a = 0 => Aged(a) = 1
BY OldIsBeyond, Limits DEF Aged

-----------------------------------------------------------------------------
(* The first state. *)

\* It has everything the invariant asks for.
LEMMA InitIInv == Init => IInv
<1> SUFFICES ASSUME Init PROVE IInv
  OBVIOUS
<1> USE Limits, OldIsBeyond
<1>1. /\ runner = [pc |-> "polling", token |-> 0, state |-> "none",
                   stop |-> FALSE, instance |-> FALSE]
      /\ mon = [up |-> FALSE, tick |-> Old, expired |-> FALSE]
      /\ dog = [up |-> FALSE, fired |-> FALSE, checked |-> FALSE]
      /\ snap = [tick |-> Old, bad |-> TRUE]
  BY DEF Init, NoRunner, NoMon, NoDog
<1>2. TypeOK
  <2>1. day \in 1 .. LastDay /\ clock \in 0 .. DayEnd /\ file = 0 /\ 0 \in 0 .. MaxLogins
    BY DEF Init
  <2>2. minted \in [1 .. MaxLogins -> 0 .. LastDay] /\ wish \in Wishes
    <3>1. 0 \in 0 .. LastDay
      OBVIOUS
    <3> QED BY <3>1, Zenon DEF Init
  <2>3. dead = {}
    BY DEF Init
  <2>4. runner \in Runners /\ mon \in Monitors /\ dog \in Watchdogs /\ snap \in Snapshots
    BY <1>1 DEF Runners, Monitors, Watchdogs, Snapshots
  <2>5. Running = FALSE /\ mon.up = FALSE /\ dog.up = FALSE
    BY <1>1 DEF Running
  <2>6. subscribed \subseteq Tokens /\ desired \subseteq Tokens
    BY DEF Init
  <2>7. feed \in 0 .. Old /\ streak \in 0 .. MinStreak /\ upsets \in 0 .. MaxUpsets
    BY DEF Init
  <2>8. told \in BOOLEAN /\ blind \in Nat
    BY DEF Init
  <2> QED BY <2>1, <2>2, <2>3, <2>4, <2>5, <2>6, <2>7, <2>8 DEF TypeOK
<1>3. NoTickInvented /\ BlindCounted
  BY <1>1 DEF Init, NoTickInvented, BlindCounted, BlindBounded
<1>4. FiredBeforeTick /\ CheckedMeansFired
  BY <1>1 DEF FiredBeforeTick, CheckedMeansFired
<1> QED BY <1>2, <1>3, <1>4 DEF IInv

-----------------------------------------------------------------------------
(* Steps that no watcher notices. *)

\* What the watchers do not read leaves them alone.
LEMMA UnnoticedStep ==
  ASSUME WatchInv, UNCHANGED Watched
  PROVE  WatchInv'
BY DEF WatchInv, Watched, history, NoTickInvented, BlindCounted, BlindBounded,
       FiredBeforeTick, CheckedMeansFired, InSession

\* A session or a process that ends takes its monitor and its watchdog along; the
\* last snapshot shows no tick that was not there.
LEMMA EndingStep ==
  ASSUME IInv, mon' = NoMon, dog' = NoDog,
         snap' = snap \/ snap' = Status,
         UNCHANGED <<clock, streak, history>>
  PROVE  WatchInv'
<1> USE OldIsBeyond DEF IInv, TypeOK, Runners, Monitors, Watchdogs, Snapshots, history
<1>1. NoTickInvented'
  <2>1. snap'.tick \in {snap.tick, mon.tick}
    BY DEF Status
  <2> QED BY <2>1 DEF NoTickInvented, NoMon
<1>2. BlindCounted'
  BY DEF BlindCounted, BlindBounded
<1>3. FiredBeforeTick' /\ CheckedMeansFired'
  BY DEF FiredBeforeTick, CheckedMeansFired, NoDog
<1> QED BY <1>1, <1>2, <1>3 DEF WatchInv

-----------------------------------------------------------------------------
(* Types. *)

\* A session in good shape.
SessionOK ==
  /\ runner \in Runners /\ subscribed \subseteq Tokens /\ desired \subseteq Tokens
  /\ mon \in Monitors /\ dog \in Watchdogs /\ Running = mon.up /\ Running = dog.up
  /\ Running /\ ~runner.stop => runner.instance

\* A step of the session that leaves it in good shape keeps the types.
LEMMA SessionStep ==
  ASSUME TypeOK, SessionOK', snap' \in Snapshots, upsets' \in 0 .. MaxUpsets,
         UNCHANGED <<world, streak>>,
         feed' \in 0 .. Old, told' \in BOOLEAN, blind' \in Nat
  PROVE  TypeOK'
BY DEF TypeOK, SessionOK, world

\* A step of others leaves the session as it is.
LEMMA OthersStep ==
  ASSUME TypeOK, UNCHANGED session
  PROVE  SessionOK'
BY DEF TypeOK, SessionOK, session, Running

\* A session has ended, or its process.
LEMMA EndedOK ==
  ASSUME TypeOK, mon' = NoMon, dog' = NoDog, runner' \in Runners,
         runner'.pc \in {"polling", "down"}, desired' = {}, subscribed' = {}
  PROVE  SessionOK'
<1>1. Running' = FALSE
  BY DEF Running
<1>2. mon' \in Monitors /\ dog' \in Watchdogs /\ mon'.up = FALSE /\ dog'.up = FALSE
  BY OldIsBeyond DEF NoMon, NoDog, Monitors, Watchdogs
<1> QED BY <1>1, <1>2 DEF SessionOK

\* A step of the connect loop.
LEMMA LoopStep ==
  ASSUME TypeOK, Running, runner' \in Runners,
         runner'.pc \in {"loop", "build", "connect", "over"},
         runner'.stop \/ (~runner.stop /\ runner'.instance = runner.instance),
         subscribed' \in {subscribed, desired, {}}, UNCHANGED <<desired, dog>>,
         mon' \in Monitors, mon'.up = mon.up
  PROVE  SessionOK'
<1>1. Running' = Running
  BY DEF Running
<1> QED BY <1>1 DEF TypeOK, SessionOK

\* A snapshot is one.
LEMMA StatusOK == ASSUME TypeOK PROVE Status \in Snapshots
BY DEF TypeOK, Status, Snapshots, Monitors

\* Upsets stay within their bound.
LEMMA UpsetOK == ASSUME TypeOK, Upset \/ upsets' = upsets PROVE upsets' \in 0 .. MaxUpsets
BY Limits DEF TypeOK, Upset

\* Every step keeps the types.
LEMMA TypeStep ==
  ASSUME TypeOK, Next
  PROVE  TypeOK'
<1> USE Limits, OldIsBeyond
<1>1. /\ runner \in Runners /\ mon \in Monitors /\ dog \in Watchdogs /\ snap \in Snapshots
      /\ feed \in 0 .. Old /\ told \in BOOLEAN /\ blind \in Nat /\ upsets \in 0 .. MaxUpsets
  BY DEF TypeOK
<1>2. CASE UNCHANGED <<world, streak, history>> /\ SessionOK' /\ (Upset \/ upsets' = upsets)
           /\ (snap' = snap \/ snap' = Status \/ snap' = [tick |-> Old, bad |-> TRUE])
  <2>1. [tick |-> Old, bad |-> TRUE] \in Snapshots
    BY DEF Snapshots
  <2>2. snap' \in Snapshots
    BY <1>1, <1>2, <2>1, StatusOK
  <2> QED BY <1>1, <1>2, <2>2, SessionStep, UpsetOK DEF history
<1>3. CASE Process \/ Die
  <2>1. CASE Wait
    BY <1>2, <2>1, OthersStep DEF Wait
  <2>2. CASE Enter
    <3>1. runner' \in Runners /\ mon' \in Monitors /\ dog' \in Watchdogs
      <4>1. mon' = [up |-> TRUE, tick |-> Old, expired |-> FALSE]
        BY <2>2 DEF Enter, NoMon
      <4>2. dog' = [up |-> TRUE, fired |-> FALSE, checked |-> FALSE]
        BY <2>2 DEF Enter, NoDog
      <4>3. runner' = [pc |-> "loop", token |-> file, state |-> "disconnected",
                       stop |-> FALSE, instance |-> TRUE] /\ file \in 0 .. MaxLogins
        BY <2>2 DEF Enter, TypeOK
      <4> QED BY <4>1, <4>2, <4>3 DEF Runners, Monitors, Watchdogs
    <3>2. Running' = TRUE /\ mon'.up = TRUE /\ dog'.up = TRUE /\ runner'.instance = TRUE
      BY <2>2 DEF Enter, NoMon, NoDog, Running
    <3>3. SessionOK'
      BY <2>2, <3>1, <3>2 DEF Enter, SessionOK, TypeOK
    <3> QED BY <1>2, <2>2, <3>3 DEF Enter
  <2>3. CASE EnterRaises \/ Die
    <3>1. Dead /\ UNCHANGED <<world, snap, streak, history>> /\ (Upset \/ upsets' = upsets)
      BY <2>3 DEF EnterRaises, Die
    <3>2. runner' \in Runners /\ runner'.pc = "down"
      BY <3>1 DEF Dead, NoRunner, Runners
    <3> QED BY <1>2, <3>1, <3>2, EndedOK DEF Dead
  <2>4. CASE DockerRestarts
    <3>1. runner' = [pc |-> "polling", token |-> 0, state |-> "none",
                     stop |-> FALSE, instance |-> FALSE]
      BY <2>4 DEF DockerRestarts, NoRunner
    <3>2. runner' \in Runners /\ Running' = FALSE /\ Running = FALSE
      <4>1. runner' \in Runners /\ runner'.pc = "polling"
        BY <3>1 DEF Runners
      <4> QED BY <2>4, <4>1 DEF DockerRestarts, Running
    <3>3. SessionOK'
      BY <2>4, <3>2 DEF DockerRestarts, SessionOK, TypeOK
    <3> QED BY <1>2, <2>4, <3>3 DEF DockerRestarts
  <2>5. CASE Finally
    <3>1. runner' \in Runners /\ runner'.pc = "polling"
      BY <1>1, <2>5 DEF Finally, Runners
    <3> QED BY <1>2, <2>5, <3>1, EndedOK DEF Finally
  <2> QED BY <1>3, <2>1, <2>2, <2>3, <2>4, <2>5 DEF Process
<1>4. CASE Connection \/ Reopens \/ Watch
  <2>1. /\ Running /\ runner' \in Runners
        /\ runner'.pc \in {"loop", "build", "connect", "over"}
        /\ runner'.stop \/ (~runner.stop /\ runner'.instance = runner.instance)
        /\ mon' \in Monitors /\ mon'.up = mon.up
    <3>1. CASE LoopTop
      BY <1>1, <3>1 DEF LoopTop, Loop, Running, Runners
    <3>2. CASE Build
      BY <1>1, <3>2 DEF Build, Loop, Running, Runners
    <3>3. CASE Opens \/ Reopens
      BY <1>1, <3>3 DEF Opens, Reopens, Connected, Loop, Running, Runners
    <3>4. CASE ConnectFails
      BY <1>1, <3>4 DEF ConnectFails, Loop, Running, Runners
    <3>5. CASE RefusedOnce \/ ReturnsLate
      BY <1>1, <3>5 DEF RefusedOnce, ReturnsLate, Loop, Running, Runners
    <3>6. CASE TokenExpires
      BY <1>1, <3>6 DEF TokenExpires, Running, Runners, Monitors
    <3>7. CASE Returns
      BY <1>1, <3>7 DEF Returns, Stopped, Loop, Running, Runners
    <3>8. CASE Watch
      BY <1>1, <3>8 DEF Watch, Stopped, Loop, Running, Runners
    <3> QED BY <1>4, <3>1, <3>2, <3>3, <3>4, <3>5, <3>6, <3>7, <3>8 DEF Connection
  <2>2. /\ subscribed' \in {subscribed, desired, {}} /\ UNCHANGED <<desired, dog>>
        /\ UNCHANGED <<world, snap, streak, history>> /\ (Upset \/ upsets' = upsets)
    BY <1>4 DEF Connection, LoopTop, Build, Opens, Reopens, ConnectFails, RefusedOnce,
                TokenExpires, Returns, ReturnsLate, Watch, Loop
  <2> QED BY <1>2, <2>1, <2>2, LoopStep
<1>5. CASE Reconcile
  <2>1. /\ desired' \subseteq Tokens /\ subscribed' \subseteq Tokens
        /\ UNCHANGED <<world, runner, mon, dog, snap, streak, history>>
        /\ (Upset \/ upsets' = upsets)
    BY <1>5, FeedAssumption DEF Reconcile, TypeOK
  <2>2. SessionOK'
    BY <2>1 DEF SessionOK, TypeOK, Running
  <2> QED BY <1>2, <2>1, <2>2
<1>6. CASE Tick
  <2>1. mon' \in Monitors /\ mon'.up = mon.up
    BY <1>1, <1>6 DEF Tick, Monitors
  <2>2. SessionOK'
    BY <1>6, <2>1 DEF Tick, SessionOK, TypeOK, Running
  <2>3. feed' \in 0 .. Old /\ told' \in BOOLEAN /\ blind' \in Nat
    BY <1>1, <1>6 DEF Tick
  <2> QED BY <1>1, <1>6, <2>2, <2>3, SessionStep DEF Tick
<1>7. CASE WriteSnapshot
  BY <1>2, <1>7, OthersStep DEF WriteSnapshot
<1>8. CASE Check
  <2>1. dog' \in Watchdogs /\ dog'.up = dog.up
    <3>1. /\ dog.fired \in BOOLEAN /\ (mon.tick > WatchStale) \in BOOLEAN
          /\ dog' = [dog EXCEPT !.checked = TRUE,
                                !.fired = IF InSession THEN mon.tick > WatchStale ELSE dog.fired]
      BY <1>1, <1>8 DEF Check, Watchdogs
    <3> QED BY <1>1, <3>1 DEF Watchdogs
  <2>2. SessionOK'
    BY <1>8, <2>1 DEF Check, SessionOK, TypeOK, Running
  <2>3. told' \in BOOLEAN
    BY <1>1, <1>8 DEF Check, InSession
  <2> QED BY <1>1, <1>8, <2>2, <2>3, SessionStep DEF Check
<1>9. CASE Fallback
  <2>1. streak' \in 0 .. MinStreak /\ blind' \in Nat
    BY <1>1, <1>9 DEF Fallback, Streak, TypeOK
  <2> QED BY <1>9, <2>1 DEF Fallback, TypeOK, world, session, Running
<1>10. CASE Pass
  <2>1. /\ mon' \in Monitors /\ mon'.up = mon.up /\ snap' \in Snapshots
        /\ dog' \in Watchdogs /\ dog'.up = dog.up
    <3>1. \A a \in 0 .. Old : Aged(a) \in 0 .. Old
      BY DEF Aged
    <3>2. PICK m \in 0 .. Old, n \in 0 .. Old :
            mon' = [mon EXCEPT !.tick = m] /\ snap' = [snap EXCEPT !.tick = n]
      BY <1>1, <1>10, <3>1 DEF Pass, Monitors, Snapshots
    <3>3. mon' \in Monitors /\ mon'.up = mon.up /\ snap' \in Snapshots
      BY <1>1, <3>2 DEF Monitors, Snapshots
    <3> QED BY <1>1, <1>10, <3>3 DEF Pass, Watchdogs
  <2>2. feed' \in 0 .. Old
    BY <1>1, <1>10 DEF Pass, Aged
  <2>3. day' \in 1 .. LastDay /\ clock' \in 0 .. DayEnd
    BY <1>10, SMTT(30) DEF Pass, TypeOK
  <2> QED BY <1>10, <2>1, <2>2, <2>3 DEF Pass, TypeOK, Running
<1>11. CASE Login \/ Logout \/ KiteEnds \/ Switch
  <2>1. CASE Login
    <3>1. PICK t \in 1 .. MaxLogins :
            /\ minted[t] = 0 /\ \A o \in 1 .. t - 1 : minted[o] # 0
            /\ minted' = [minted EXCEPT ![t] = day] /\ file' = t /\ dead' = 1 .. t - 1
            /\ runner' = (IF runner.pc = "down" THEN [runner EXCEPT !.pc = "polling"] ELSE runner)
            /\ UNCHANGED <<day, clock, wish, desired, subscribed, mon, dog, snap,
                           streak, history, upsets>>
      BY <2>1 DEF Login
    <3>2. /\ minted' \in [1 .. MaxLogins -> 0 .. LastDay] /\ minted'[t] # 0
          /\ \A o \in 1 .. t - 1 : minted'[o] # 0
      BY <3>1, SMTT(30) DEF TypeOK
    <3>3. runner' \in Runners /\ Running' = Running
          /\ runner'.stop = runner.stop /\ runner'.instance = runner.instance
      BY <1>1, <3>1, SMTT(30) DEF Runners, Running
    <3>4. dead' \subseteq {o \in 1 .. MaxLogins : minted'[o] # 0} /\ file' \in 0 .. MaxLogins
      BY <3>1, <3>2
    <3> QED BY <3>1, <3>2, <3>3, <3>4 DEF TypeOK, history
  <2>2. CASE Logout
    BY <2>2, UpsetOK DEF Logout, TypeOK, session, history, Running
  <2>3. CASE KiteEnds
    BY <2>3 DEF KiteEnds, TypeOK, session, history, Running
  <2>4. CASE Switch
    BY <2>4, UpsetOK DEF Switch, TypeOK, session, history, Running
  <2> QED BY <1>11, <2>1, <2>2, <2>3, <2>4
<1> QED BY <1>3, <1>4, <1>5, <1>6, <1>7, <1>8, <1>9, <1>10, <1>11 DEF Next

-----------------------------------------------------------------------------
(* The steps of those who watch, and of what they watch. *)

\* A step keeps what the watchers rely on, given the types before it.
LEMMA WatchStep ==
  ASSUME IInv, Next
  PROVE  WatchInv'
<1> USE Limits, OldIsBeyond
<1>1. WatchInv
  BY DEF IInv, WatchInv
<1>2. /\ mon \in Monitors /\ dog \in Watchdogs /\ snap \in Snapshots /\ clock \in 0 .. DayEnd
      /\ feed \in 0 .. Old /\ told \in BOOLEAN /\ blind \in Nat /\ streak \in 0 .. MinStreak
      /\ mon.tick \in 0 .. Old /\ snap.tick \in 0 .. Old
  BY DEF IInv, TypeOK, Monitors, Snapshots
<1>3. CASE UNCHANGED Watched
  BY <1>1, <1>3, UnnoticedStep
<1>4. CASE Process \/ Die
  <2>1. CASE Wait
    <3>1. snap'.tick = Old /\ UNCHANGED <<clock, mon, dog, streak, history>>
      BY <2>1 DEF Wait, world, session
    <3> QED BY <1>1, <1>2, <3>1
         DEF WatchInv, NoTickInvented, BlindCounted, BlindBounded, FiredBeforeTick,
             CheckedMeansFired, InSession, history
  <2>2. CASE Enter
    <3>1. /\ mon'.tick = Old /\ ~dog'.fired /\ ~dog'.checked
          /\ UNCHANGED <<clock, snap, streak, history>>
      BY <2>2 DEF Enter, NoMon, NoDog, world
    <3> QED BY <1>1, <1>2, <3>1
         DEF WatchInv, NoTickInvented, BlindCounted, BlindBounded, FiredBeforeTick,
             CheckedMeansFired, history
  <2>3. CASE EnterRaises \/ Die
    BY <2>3, EndingStep DEF EnterRaises, Die, Dead, world
  <2>4. CASE DockerRestarts
    BY <1>3, <2>4 DEF DockerRestarts, Watched, world
  <2>5. CASE Finally
    BY <2>5, EndingStep DEF Finally, world
  <2> QED BY <1>4, <2>1, <2>2, <2>3, <2>4, <2>5 DEF Process
<1>5. CASE (Connection /\ ~TokenExpires) \/ Reopens \/ Watch
  BY <1>3, <1>5 DEF Connection, LoopTop, Build, Opens, Reopens, ConnectFails, RefusedOnce,
                    Returns, ReturnsLate, Watch, Loop, Watched, world
<1>6. CASE TokenExpires
  <2>1. mon'.tick = mon.tick /\ UNCHANGED <<clock, dog, snap, streak, history>>
    BY <1>2, <1>6 DEF TokenExpires, Monitors, world
  <2> QED BY <1>1, <1>2, <2>1
       DEF WatchInv, NoTickInvented, BlindCounted, BlindBounded, FiredBeforeTick,
           CheckedMeansFired, InSession, history
<1>7. CASE Reconcile
  BY <1>3, <1>7 DEF Reconcile, Watched, world
<1>8. CASE Login \/ Logout \/ KiteEnds \/ Switch
  BY <1>3, <1>8 DEF Login, Logout, KiteEnds, Switch, Watched, session, history
<1>9. CASE Tick
  <2>1. /\ mon'.tick = 0 /\ feed' = 0 /\ blind' = 0
        /\ told' = (told /\ ~(InSession /\ clock < CloseAt))
        /\ UNCHANGED <<clock, dog, snap, streak>>
    BY <1>2, <1>9 DEF Tick, Monitors, world
  <2>2. dog.up
    BY <1>9 DEF IInv, TypeOK, Tick, Connected, Running
  <2> QED BY <1>1, <1>2, <2>1, <2>2
       DEF WatchInv, NoTickInvented, BlindCounted, BlindBounded, FiredBeforeTick,
           CheckedMeansFired, InSession
<1>10. CASE WriteSnapshot
  <2>1. snap'.tick = mon.tick /\ UNCHANGED <<clock, mon, dog, streak, history>>
    BY <1>10 DEF WriteSnapshot, Status, world, session
  <2> QED BY <1>1, <1>2, <2>1
       DEF WatchInv, NoTickInvented, BlindCounted, BlindBounded, FiredBeforeTick,
           CheckedMeansFired, InSession, history
<1>11. CASE Check
  <2> DEFINE stale == mon.tick > WatchStale
  <2>1. /\ dog'.fired = (IF InSession THEN stale ELSE dog.fired)
        /\ dog'.up = dog.up /\ dog'.checked = TRUE
    BY <1>2, <1>11 DEF Check, Watchdogs
  <2>2. /\ dog.up /\ told' = (told \/ (InSession /\ stale /\ ~dog.fired))
        /\ UNCHANGED <<clock, mon, snap, streak, feed, blind>>
    BY <1>11 DEF Check, world
  <2>3. InSession' = InSession
    BY <2>2 DEF InSession
  <2>4. InSession => (dog'.fired <=> stale) /\ (told' <=> told \/ (stale /\ ~dog.fired))
    BY <1>2, <2>1, <2>2
  <2>5. ~InSession => (dog'.fired <=> dog.fired) /\ (told' <=> told)
    BY <1>2, <2>1, <2>2
  <2>6. ~(dog'.fired /\ ~told')
    BY <1>1, <1>2, <2>4, <2>5 DEF WatchInv, FiredBeforeTick
  <2>7. CheckedMeansFired'
    BY <2>2, <2>3, <2>4 DEF CheckedMeansFired
  <2> QED BY <1>1, <2>2, <2>6, <2>7
       DEF WatchInv, NoTickInvented, BlindCounted, BlindBounded, FiredBeforeTick
<1>12. CASE Fallback
  <2>1. UNCHANGED <<clock, mon, dog, snap, feed, told>>
    BY <1>12 DEF Fallback, world, session
  <2>2. NoTickInvented' /\ FiredBeforeTick' /\ CheckedMeansFired'
    BY <1>1, <2>1 DEF WatchInv, NoTickInvented, FiredBeforeTick, CheckedMeansFired, InSession
  <2>3. BlindCounted'
    <3>1. InSession /\ feed > TickStale => Streak = streak + 1
      BY <1>1, <1>2 DEF Streak, Unhealthy, WatchInv, NoTickInvented
    <3>2. Streak \in Nat
      BY <1>2 DEF Streak
    <3> QED BY <1>1, <1>2, <1>12, <3>1, <3>2 DEF WatchInv, BlindCounted, BlindBounded, Fallback
  <2> QED BY <2>2, <2>3 DEF WatchInv
<1>13. CASE Pass
  <2>1. /\ dog'.fired = dog.fired /\ dog'.up = dog.up /\ dog'.checked = FALSE
        /\ dog.up => dog.checked
        /\ UNCHANGED <<streak, told, blind>>
    BY <1>2, <1>13 DEF Pass, Watchdogs
  <2>2. NoTickInvented'
    <3>1. CASE clock < DayEnd
      <4>1. mon'.tick = Aged(mon.tick) /\ feed' = Aged(feed) /\ snap'.tick = Aged(snap.tick)
        BY <1>2, <1>13, <3>1 DEF Pass, Monitors, Snapshots
      <4> QED BY <1>1, <1>2, <4>1, AgesGrow DEF WatchInv, NoTickInvented
    <3>2. CASE ~(clock < DayEnd)
      <4>1. mon'.tick = Old /\ feed' = Old /\ snap'.tick = Old
        BY <1>2, <1>13, <3>2 DEF Pass, Monitors, Snapshots
      <4> QED BY <4>1 DEF NoTickInvented
    <3> QED BY <3>1, <3>2
  <2>3. FiredBeforeTick'
    <3> SUFFICES ASSUME dog.fired, ~told
                 PROVE  dog'.up /\ InSession' /\ mon'.tick <= 1
      BY <2>1 DEF FiredBeforeTick
    <3>1. dog.up /\ InSession /\ mon.tick = 0 /\ clock < CloseAt
      BY <1>1, <1>2, <2>1 DEF WatchInv, FiredBeforeTick
    <3>2. clock' = clock + 1 /\ mon'.tick = Aged(mon.tick)
      BY <1>2, <1>13, <3>1 DEF Pass, Monitors
    <3> QED BY <1>2, <2>1, <3>1, <3>2, AgesGrow DEF InSession
  <2>4. CheckedMeansFired'
    BY <2>1 DEF CheckedMeansFired
  <2> QED BY <1>1, <2>1, <2>2, <2>3, <2>4 DEF WatchInv, BlindCounted, BlindBounded
<1> QED BY <1>4, <1>5, <1>6, <1>7, <1>8, <1>9, <1>10, <1>11, <1>12, <1>13 DEF Next, Connection

-----------------------------------------------------------------------------
(* The theorems. *)

\* IInv holds in every reachable state.
THEOREM InvariantHolds == Spec => []IInv
<1>1. IInv /\ [Next]_vars => IInv'
  <2> SUFFICES ASSUME IInv, [Next]_vars PROVE IInv'
    OBVIOUS
  <2>1. CASE Next
    BY <2>1, TypeStep, WatchStep DEF IInv, WatchInv
  <2>2. CASE UNCHANGED vars
    <3>1. UNCHANGED <<world, session, snap, streak, history, upsets>>
      BY <2>2 DEF vars
    <3>2. WatchInv'
      BY <3>1, UnnoticedStep DEF IInv, WatchInv, Watched, world, session
    <3>3. SessionOK'
      BY <3>1, OthersStep DEF IInv
    <3> QED BY <3>1, <3>2, <3>3, SessionStep DEF IInv, WatchInv, TypeOK, history
  <2> QED BY <2>1, <2>2
<1> QED BY InitIInv, <1>1, PTL DEF Spec

\* The runner, its monitor and its watchdog are up together, and a running session owns
\* the singleton unless it was stopped.
THEOREM TypeCorrect == Spec => []TypeOK
BY InvariantHolds, PTL DEF IInv

\* The fallback guards the trades of a dead feed at the latest in its MinStreak-th run:
\* no snapshot shows a tick later than the last, so each of the runs finds the feed
\* unhealthy and counts (intraday_sl_fallback.py:79, ws_health.py:111).
THEOREM NeverBlind == Spec => []BlindBounded
<1>1. IInv => BlindBounded
  BY DEF IInv, BlindCounted
<1> QED BY InvariantHolds, <1>1, PTL

\* An outage the watchdog has looked at was alerted: its flag is from this outage, since
\* a fresh tick in the session is seen by the check that precedes the next unit
\* (ws_watchdog.py:165).
THEOREM AlwaysAlerted == Spec => []OutageAlerted
<1>1. IInv => OutageAlerted
  <2> SUFFICES ASSUME IInv, dog.up, dog.checked, InSession, mon.tick > WatchStale PROVE told
    BY DEF OutageAlerted
  <2>1. dog.fired
    BY DEF IInv, CheckedMeansFired
  <2>2. mon.tick > 1
    BY Limits DEF IInv, TypeOK, Monitors
  <2> QED BY <2>1, <2>2 DEF IInv, FiredBeforeTick
<1> QED BY InvariantHolds, <1>1, PTL

=============================================================================
