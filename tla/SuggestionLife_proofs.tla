----------------------- MODULE SuggestionLife_proofs ------------------------
(***************************************************************************)
(* Proofs about SuggestionLife, for any number of runs, days, timeouts and *)
(* requests and for any plans: types, that a slot has one card unless runs *)
(* overlapped or were timed out, that a run's committed cards are one per  *)
(* direction and carry their warning, and that a booking stays.            *)
(***************************************************************************)
EXTENDS SuggestionLife, CardChoice, SequenceTheorems, WellFoundedInduction, TLAPS

Inv == IInv /\ Bounded

Empty == [i \in {} |-> Idle]

\* A row, or the card it is, no longer pending.
Later(v, w) ==
  \/ w = v
  \/ IsCard(v) /\ \E s \in {"IGNORED", "EXECUTED"} : w = [v EXCEPT !.status = s]

LaterTable(T, U) == DOMAIN U = DOMAIN T /\ \A i \in DOMAIN T : Later(T[i], U[i])

RowTables == UNION {[D -> RowType] : D \in SUBSET Ids}

\* What a step makes of a run and of whom it has met.
Grows(r, p, s, q, t) ==
  q[r].kind = p[r].kind /\ (p[r].cut # 0 => q[r].cut # 0) /\ s[r] \subseteq t[r]

-----------------------------------------------------------------------------
(* Tables of rows. *)

LEMMA RowTable ==
  \A T : T \in RowTables <=> DOMAIN T \subseteq Ids /\ T \in [DOMAIN T -> RowType]
  BY DEF RowTables

LEMMA OverTable ==
  ASSUME NEW T \in RowTables, NEW U \in RowTables
  PROVE  /\ Over(T, U) \in RowTables /\ DOMAIN Over(T, U) = DOMAIN T \cup DOMAIN U
         /\ \A i \in DOMAIN T : Over(T, U)[i] = T[i]
         /\ \A i \in DOMAIN U : i \notin DOMAIN T => Over(T, U)[i] = U[i]
  BY RowTable DEF Over

LEMMA OverEmpty ==
  ASSUME NEW U \in RowTables, NEW T, DOMAIN T = {}
  PROVE  Over(T, U) = U
  BY RowTable DEF Over

LEMMA EmptyTable == Empty \in RowTables /\ DOMAIN Empty = {}
  BY RowTable DEF Empty

LEMMA IgnoredTable ==
  ASSUME NEW T \in RowTables, NEW S \in SUBSET DOMAIN T
  PROVE  /\ Ignored(T, S) \in RowTables /\ DOMAIN Ignored(T, S) = S
         /\ \A i \in S : Ignored(T, S)[i] = [T[i] EXCEPT !.status = "IGNORED"]
<1>1. \A i \in S : [T[i] EXCEPT !.status = "IGNORED"] \in RowType
  BY RowTable DEF RowType
<1> QED BY <1>1, RowTable DEF Ignored

LEMMA LaterFields ==
  ASSUME NEW v \in RowType, NEW w, Later(v, w)
  PROVE  /\ w \in RowType /\ w.u = v.u /\ w.kind = v.kind /\ w.strategy = v.strategy
         /\ w.entry = v.entry /\ w.run = v.run /\ w.today = v.today /\ w.warned = v.warned
         /\ (IsCard(w) <=> IsCard(v)) /\ (w.status = "PENDING" => v.status = "PENDING")
         /\ Slot(w) = Slot(v)
  BY DEF Later, RowType, IsCard, Slot

LEMMA CompatibleLater ==
  ASSUME NEW v \in RowType, NEW w \in RowType, NEW v2, NEW w2, Later(v, v2), Later(w, w2),
         NEW p, NEW s, NEW q, NEW t, Grows(v.run, p, s, q, t), Grows(w.run, p, s, q, t),
         Compatible(v, w, p, s)
  PROVE  Compatible(v2, w2, q, t)
  BY LaterFields DEF Grows, Compatible

LEMMA AllCompatibleLater ==
  ASSUME NEW T \in RowTables, NEW U, LaterTable(T, U),
         NEW p, NEW s, NEW q, NEW t, \A i \in DOMAIN T : Grows(T[i].run, p, s, q, t),
         AllCompatible(T, p, s)
  PROVE  AllCompatible(U, q, t)
<1> SUFFICES ASSUME NEW i \in DOMAIN U, NEW j \in DOMAIN U, i # j
             PROVE  Compatible(U[i], U[j], q, t)
  BY DEF AllCompatible
<1>1. /\ T[i] \in RowType /\ T[j] \in RowType /\ Later(T[i], U[i]) /\ Later(T[j], U[j])
      /\ Compatible(T[i], T[j], p, s)
  BY RowTable DEF LaterTable, AllCompatible
<1>2. Grows(T[i].run, p, s, q, t) /\ Grows(T[j].run, p, s, q, t)
  BY DEF LaterTable
<1> QED BY <1>1, <1>2, CompatibleLater

LEMMA LaterTableSame == \A T : LaterTable(T, T)
  BY DEF LaterTable, Later

LEMMA LaterTableTable ==
  ASSUME NEW T \in RowTables, NEW U, LaterTable(T, U), U \in [DOMAIN U -> RowType]
  PROVE  U \in RowTables
  BY RowTable DEF LaterTable

\* To ignore cards of a table makes it a later one.
LEMMA IgnoredLater ==
  ASSUME NEW T \in RowTables, NEW S \in SUBSET DOMAIN T, \A i \in S : IsCard(T[i])
  PROVE  /\ LaterTable(T, Over(Ignored(T, S), T)) /\ Over(Ignored(T, S), T) \in RowTables
         /\ \A i \in DOMAIN T : i \notin S => Over(Ignored(T, S), T)[i] = T[i]
<1> DEFINE V == Ignored(T, S)
           U == Over(V, T)
<1>1. /\ V \in RowTables /\ DOMAIN V = S
      /\ \A i \in S : V[i] = [T[i] EXCEPT !.status = "IGNORED"]
  BY IgnoredTable
<1> HIDE DEF V
<1>2. /\ U \in RowTables /\ DOMAIN U = DOMAIN V \cup DOMAIN T
      /\ \A i \in DOMAIN V : U[i] = V[i]
      /\ \A i \in DOMAIN T : i \notin DOMAIN V => U[i] = T[i]
  BY <1>1, OverTable, RowTable
<1> HIDE DEF U
<1>3. \A i \in DOMAIN T : Later(T[i], U[i])
  BY <1>1, <1>2 DEF Later
<1> QED BY <1>1, <1>2, <1>3 DEF LaterTable, U, V

\* For runs that met each other, who stands beside whom does not matter.
LEMMA CompatibleSymmetric ==
  ASSUME NEW v \in RowType, NEW w \in RowType, NEW p, NEW s,
         \A r, o \in Runs : o \in s[r] => r \in s[o], Compatible(v, w, p, s)
  PROVE  Compatible(w, v, p, s)
<1>1. v.run \in Runs /\ w.run \in Runs
  BY DEF RowType
<1> QED BY <1>1 DEF Compatible, Apart

LEMMA GrowsSame == \A r, p, s : Grows(r, p, s, p, s)
  BY DEF Grows

-----------------------------------------------------------------------------
(* What each run sees. *)

LEMMA ViewType ==
  ASSUME TypeOK, NEW r \in Runs
  PROVE  /\ rows \in RowTables /\ mine[r] \in RowTables /\ View(r) \in RowTables
         /\ DOMAIN View(r) = DOMAIN mine[r] \cup DOMAIN rows
         /\ \A i \in DOMAIN mine[r] : View(r)[i] = mine[r][i]
         /\ \A i \in DOMAIN rows : i \notin DOMAIN mine[r] => View(r)[i] = rows[i]
<1>1. rows \in RowTables /\ mine[r] \in RowTables
  BY RowTable DEF TypeOK
<1> QED BY <1>1, OverTable, RowTable DEF View

\* A committed row is seen as it is or, by the run that ignored it, as ignored; the
\* other rows a run sees are its own.
LEMMA ViewRows ==
  ASSUME TypeOK, Locked, NEW r \in Runs
  PROVE  /\ \A i \in DOMAIN rows : Later(rows[i], View(r)[i])
         /\ \A i \in DOMAIN View(r) : i \notin DOMAIN rows =>
              i \in DOMAIN mine[r] /\ View(r)[i].run = r /\ IsCard(View(r)[i])
<1>1. ASSUME NEW i \in DOMAIN mine[r] \cap DOMAIN rows
      PROVE  Later(rows[i], View(r)[i])
  <2>1. View(r)[i] = mine[r][i]
    BY ViewType
  <2>2. rows[i].status = "PENDING" /\ mine[r][i] = [rows[i] EXCEPT !.status = "IGNORED"]
    BY DEF Locked
  <2> QED BY <2>1, <2>2 DEF Later, IsCard
<1>2. \A i \in DOMAIN rows : i \notin DOMAIN mine[r] => Later(rows[i], View(r)[i])
  BY ViewType DEF Later
<1>3. \A i \in DOMAIN View(r) : i \notin DOMAIN rows =>
        i \in DOMAIN mine[r] /\ View(r)[i].run = r /\ IsCard(View(r)[i])
  BY ViewType DEF Locked
<1> QED BY <1>1, <1>2, <1>3

LEMMA Disjoint ==
  ASSUME TypeOK, Locked, NEW r \in Runs, NEW o \in Runs, r # o
  PROVE  DOMAIN mine[r] \cap DOMAIN mine[o] = {}
<1>1. DOMAIN mine[o] \subseteq Dirty(r)
  BY DEF Dirty
<1>2. \A i \in DOMAIN mine[r] : i \notin Dirty(r)
  BY DEF Locked
<1> QED BY <1>1, <1>2

\* The rows a run sees are those of runs that have started.
LEMMA ViewStarted ==
  ASSUME TypeOK, Locked, WrittenLate, NEW r \in Runs, NEW i \in DOMAIN View(r)
  PROVE  View(r)[i].run \in Runs /\ run[View(r)[i].run].pc # "new"
<1>1. View(r) \in RowTables /\ rows \in RowTables
  BY ViewType
<1>2. CASE i \in DOMAIN rows
  <2>1. View(r)[i].run = rows[i].run
    BY <1>1, <1>2, ViewRows, LaterFields, RowTable
  <2> QED BY <1>1, <1>2, <2>1, RowTable DEF WrittenLate, RowType
<1>3. CASE i \notin DOMAIN rows
  <2>1. i \in DOMAIN mine[r] /\ View(r)[i].run = r
    BY <1>3, ViewRows
  <2>2. Running(r)
    BY <2>1 DEF TypeOK
  <2> QED BY <2>1, <2>2 DEF Running
<1> QED BY <1>2, <1>3

-----------------------------------------------------------------------------
(* The next id. *)

LEMMA NaturalMaximum ==
  ASSUME NEW S \in SUBSET Nat, NEW top \in Nat, \A k \in S : k <= top
  PROVE  \E k \in S \cup {0} : \A m \in S : m <= k
<1> DEFINE B == {n \in Nat : \A m \in S : m <= n}
<1>1. PICK n \in B : \A m \in B : <<m, n>> \notin OpToRel(<, Nat)
  <2>1. B \subseteq Nat /\ top \in B
    OBVIOUS
  <2> HIDE DEF B
  <2> QED BY <2>1, WFMin, NatLessThanWellFounded
<1>2. \A m \in B : ~(m < n)
  BY <1>1 DEF OpToRel
<1>3. CASE n \in S
  BY <1>3
<1>4. CASE n \notin S /\ n # 0
  <2>1. n - 1 \in B
    BY <1>4
  <2> QED BY <1>2, <2>1
<1>5. CASE n = 0
  BY <1>5
<1> QED BY <1>3, <1>4, <1>5

LEMMA NextSeqType ==
  ASSUME TypeOK, Bounded, NEW r \in Runs, run[r].date \in Days, run[r].conn # 0
  PROVE  NextSeq(r) \in Nat \ {0}
<1> DEFINE d == run[r].date
           used == {i[2] : i \in {j \in DOMAIN View(r) : j[1] = d}}
<1>1. cache[<<run[r].conn, d>>] \in Nat
  <2>1. run[r].conn \in Runs
    BY DEF TypeOK, RunType
  <2> QED BY <2>1 DEF TypeOK
<1>2. CASE cache[<<run[r].conn, d>>] # 0
  BY <1>1, <1>2 DEF NextSeq
<1>3. CASE cache[<<run[r].conn, d>>] = 0
  <2>1. PICK top \in Nat : \A i \in DOMAIN rows \cup AllDirty : i[2] <= top
    BY DEF Bounded
  <2>2. DOMAIN View(r) \subseteq DOMAIN rows \cup AllDirty /\ DOMAIN View(r) \subseteq Ids
    BY ViewType, RowTable DEF AllDirty
  <2>3. used \subseteq Nat /\ \A k \in used : k <= top
    BY <2>1, <2>2 DEF Ids
  <2> HIDE DEF used
  <2>4. PICK k \in used \cup {0} : \A m \in used : m <= k
    BY <2>3, NaturalMaximum
  <2> DEFINE after == {m + 1 : m \in used \cup {0}}
  <2>5. /\ after \subseteq Nat \ {0}
        /\ \E n \in after : \A m \in used : m < n
    BY <2>3, <2>4
  <2>6. NextSeq(r) = CHOOSE n \in after : \A m \in used : m < n
    BY <1>3 DEF NextSeq, used
  <2> HIDE DEF after
  <2>7. (CHOOSE n \in after : \A m \in used : m < n) \in after
    BY <2>5
  <2> QED BY <2>5, <2>6, <2>7
<1> QED BY <1>2, <1>3

-----------------------------------------------------------------------------
(* What a step may do to the rows. *)

\* What runs have written is dropped.
Dropping == rows' = rows /\ \A r \in Runs : mine'[r] = mine[r] \/ mine'[r] = Empty

\* Cards that no run has written are no longer pending.
Rewriting ==
  /\ mine' = mine /\ rows' \in RowTables /\ LaterTable(rows, rows')
  /\ \A i \in DOMAIN rows \cap AllDirty : rows'[i] = rows[i]

\* What a run has written is committed, with sit-outs.
Publishing(r) ==
  /\ Running(r) /\ mine' = [mine EXCEPT ![r] = Empty]
  /\ \E new : /\ new \in RowTables /\ DOMAIN new \cap (DOMAIN View(r) \cup Dirty(r)) = {}
              /\ \A i \in DOMAIN new : new[i] = SitOutRow(r)
              /\ \E top \in Nat : \A i \in DOMAIN new : i[2] <= top
              /\ run[r].pc = "persist" \/ DOMAIN new = {}
              /\ rows' = Over(new, View(r))

\* A run ignores pending cards, or adds one.
Ignoring(r) ==
  /\ rows' = rows
  /\ \E S \in SUBSET DOMAIN View(r) :
       /\ S \cap Dirty(r) = {} /\ \A i \in S : View(r)[i].status = "PENDING"
       /\ mine' = [mine EXCEPT ![r] = Over(Ignored(View(r), S), @)]
Inserting(r) ==
  /\ rows' = rows /\ run[r].pc = "insert" /\ CardId(r) \notin DOMAIN View(r) \cup Dirty(r)
  /\ mine' = [mine EXCEPT ![r] = Over([i \in {CardId(r)} |-> RowOf(Card(r), r)], @)]

Groups ==
  \/ Dropping \/ Rewriting
  \/ \E r \in Runs : Publishing(r) \/ Ignoring(r) \/ Inserting(r)

LEMMA QueueType ==
  ASSUME TypeOK, NEW r \in Runs, run[r].queue # <<>>
  PROVE  /\ Head(run[r].queue) \in [offer : Offers, nth : Nat \ {0}]
         /\ Tail(run[r].queue) \in Seq([offer : Offers, nth : Nat \ {0}])
         /\ Head(run[r].queue) = run[r].queue[1] /\ 1 \in DOMAIN run[r].queue
         /\ \A n \in DOMAIN Tail(run[r].queue) :
              n + 1 \in DOMAIN run[r].queue /\ Tail(run[r].queue)[n] = run[r].queue[n + 1]
<1> DEFINE q == run[r].queue
           E == [offer : Offers, nth : Nat \ {0}]
<1>1. q \in Seq(E) /\ q # <<>>
  BY DEF TypeOK, RunType
<1> HIDE DEF E, q
<1>2. /\ Head(q) \in E /\ Tail(q) \in Seq(E) /\ Len(Tail(q)) = Len(q) - 1
      /\ \A n \in 1 .. Len(Tail(q)) : Tail(q)[n] = q[n + 1]
  BY <1>1, HeadTailProperties
<1>3. DOMAIN q = 1 .. Len(q) /\ Len(q) \in Nat \ {0} /\ Head(q) = q[1]
  BY <1>1
<1>4. DOMAIN Tail(q) = 1 .. Len(Tail(q))
  BY <1>2
<1>5. \A n \in DOMAIN Tail(q) : n + 1 \in DOMAIN q
  BY <1>2, <1>3, <1>4
<1>6. /\ Head(q) \in E /\ Tail(q) \in Seq(E) /\ Head(q) = q[1] /\ 1 \in DOMAIN q
      /\ \A n \in DOMAIN Tail(q) : n + 1 \in DOMAIN q /\ Tail(q)[n] = q[n + 1]
  BY <1>2, <1>3, <1>4, <1>5
<1> QED BY <1>6 DEF E, q

LEMMA CardType ==
  ASSUME TypeOK, NEW r \in Runs, Running(r), run[r].queue # <<>>
  PROVE  /\ Card(r) \in Offers /\ CardId(r) \in Ids
         /\ RowOf(Card(r), r) \in RowType /\ RowOf(Card(r), r).status = "PENDING"
         /\ RowOf(Card(r), r).run = r /\ IsCard(RowOf(Card(r), r))
<1>1. Head(run[r].queue).offer \in Offers /\ Head(run[r].queue).nth \in Nat \ {0}
  <2>1. Head(run[r].queue) \in [offer : Offers, nth : Nat \ {0}]
    BY QueueType
  <2> QED BY <2>1
<1>2. run[r].date \in Days /\ run[r].entry \in Days /\ run[r].first \in Nat
  BY DEF TypeOK, RunType
<1>3. Days \subseteq Nat
  BY DEF Days
<1>4. Card(r) \in Offers /\ CardId(r) \in Ids
  BY <1>1, <1>2, <1>3 DEF Card, CardId, Ids
<1>5. ASSUME NEW c \in Offers
      PROVE  /\ RowOf(c, r) \in RowType /\ RowOf(c, r).status = "PENDING"
             /\ RowOf(c, r).run = r /\ IsCard(RowOf(c, r))
  <2>1. /\ c.u \in Names /\ c.kind \in Names /\ c.strategy \in Strategies
        /\ c.today \in Trends \cup {"none"} /\ run[r].entry \in Nat
    BY <1>2, <1>3 DEF Offers
  <2>2. c.warned \in BOOLEAN
    BY DEF Offers
  <2> QED BY <2>1, <2>2 DEF RowOf, RowType, IsCard
<1> QED BY <1>4, <1>5

LEMMA SitOutType ==
  ASSUME NEW r \in Runs
  PROVE  SitOutRow(r) \in RowType /\ ~IsCard(SitOutRow(r)) /\ SitOutRow(r).run = r
  BY DEF SitOutRow, RowType, IsCard, Trends

LEMMA EmptyMine ==
  ASSUME TypeOK, NEW r \in Runs, ~Running(r)
  PROVE  mine[r] = Empty
  BY DEF TypeOK, Empty

\* Every step is one of these.
LEMMA StepGroups ==
  ASSUME Inv, Next
  PROVE  Groups
<1> USE DEF Inv, IInv
<1> USE DEF Groups
<1>1. ASSUME NEW r \in Runs, Fails(r)
      PROVE  \A o \in Runs : mine'[o] = mine[o] \/ mine'[o] = Empty
  BY <1>1 DEF Fails, Empty, TypeOK
<1>2. ASSUME NEW r \in Runs,
             Evaluate(r) \/ LockTimeout(r) \/ Cut(r) \/ RollBackCut(r) \/ CloseCut(r)
      PROVE  Dropping
  <2> DEFINE emptied == mine' = [mine EXCEPT ![r] = [i \in {} |-> Idle]]
  <2>1. CASE rows' = rows /\ mine' = mine
    BY <2>1 DEF Dropping
  <2>2. CASE rows' = rows /\ emptied
    BY <2>2 DEF Dropping, Empty, TypeOK
  <2>3. CASE rows' = rows /\ Fails(r)
    BY <2>3, <1>1 DEF Dropping
  <2> QED BY <1>2, <2>1, <2>2, <2>3 DEF Evaluate, LockTimeout, Cut, RollBackCut, CloseCut
<1>3. ASSUME NEW r \in Runs, NEW k \in RunKinds, Start(r, k)
      PROVE  Ignoring(r)
  <2>1. ~Running(r) /\ mine[r] = Empty /\ mine[r] \in RowTables /\ DOMAIN mine[r] = {}
    BY <1>3, EmptyMine, EmptyTable DEF Start, Running
  <2>2. View(r) = rows /\ rows \in RowTables
    BY <2>1, OverEmpty, ViewType DEF View
  <2> DEFINE S == IF Past(rows) \cap AllDirty = {} THEN Past(rows) ELSE {}
  <2>3. S \in SUBSET DOMAIN View(r) /\ \A i \in S : View(r)[i].status = "PENDING"
    BY <2>2 DEF Past
  <2>4. S \cap Dirty(r) = {}
    BY DEF Dirty, AllDirty
  <2>5. Ignored(rows, S) \in RowTables /\ DOMAIN Ignored(rows, S) = S
    BY <2>2, <2>3, IgnoredTable
  <2>6. Over(Ignored(rows, S), mine[r]) = Ignored(rows, S)
    BY <2>1, <2>5, RowTable DEF Over
  <2>7. mine' = [mine EXCEPT ![r] = Over(Ignored(View(r), S), @)]
    <3>1. CASE Past(rows) \cap AllDirty = {}
      BY <1>3, <3>1, <2>2, <2>6 DEF Start
    <3>2. CASE Past(rows) \cap AllDirty # {}
      <4>1. Ignored(rows, S) = [i \in {} |-> Idle]
        BY <3>2 DEF Ignored
      <4> QED BY <1>3, <3>2, <2>2, <2>6, <4>1 DEF Start
    <3> QED BY <3>1, <3>2
  <2> HIDE DEF S
  <2> QED BY <1>3, <2>3, <2>4, <2>7 DEF Ignoring, Start
<1>4. ASSUME NEW r \in Runs, Replace(r)
      PROVE  Ignoring(r)
  <2>1. Hits(r) \in SUBSET DOMAIN View(r) /\ \A i \in Hits(r) : View(r)[i].status = "PENDING"
    BY DEF Hits, Superseded
  <2> QED BY <1>4, <2>1 DEF Replace, Ignoring
<1>5. ASSUME NEW r \in Runs, Insert(r)
      PROVE  Dropping \/ Inserting(r)
  <2>1. CASE CardId(r) \in DOMAIN View(r)
    BY <1>5, <2>1, <1>1 DEF Insert, Dropping
  <2>2. CASE CardId(r) \notin DOMAIN View(r)
    BY <1>5, <2>2 DEF Insert, Inserting
  <2> QED BY <2>1, <2>2
<1>6. ASSUME NEW r \in Runs, Commit(r)
      PROVE  Publishing(r)
  <2> DEFINE ids == {<<run[r].date, NextSeq(r) + n - 1>> : n \in 1 .. run[r].sits}
             new == [i \in ids \ DOMAIN View(r) |-> SitOutRow(r)]
  <2>1. Running(r) /\ run[r].date \in Days /\ run[r].conn # 0
    BY <1>6 DEF Commit, Running, TypeOK
  <2>2. NextSeq(r) \in Nat \ {0} /\ run[r].sits \in Nat
    BY <2>1, NextSeqType DEF TypeOK, RunType
  <2>3. ids \subseteq Ids
    BY <2>1, <2>2 DEF Ids
  <2>4. ids \cap Dirty(r) = {} /\ rows' = Over(new, View(r))
    BY <1>6 DEF Commit
  <2>5. mine' = [mine EXCEPT ![r] = Empty]
    BY <1>6 DEF Commit, Empty
  <2>6. /\ new \in RowTables /\ DOMAIN new \cap (DOMAIN View(r) \cup Dirty(r)) = {}
        /\ \A i \in DOMAIN new : new[i] = SitOutRow(r)
    BY <2>3, <2>4, SitOutType, RowTable
  <2>7. \E top \in Nat : \A i \in DOMAIN new : i[2] <= top
    <3>1. NextSeq(r) + run[r].sits \in Nat
      BY <2>2
    <3>2. \A i \in DOMAIN new : i[2] <= NextSeq(r) + run[r].sits
      BY <2>2
    <3> QED BY <3>1, <3>2
  <2> HIDE DEF new
  <2>8. run[r].pc = "persist"
    BY <1>6 DEF Commit
  <2> QED BY <2>1, <2>4, <2>5, <2>6, <2>7, <2>8 DEF Publishing
<1>7. ASSUME NEW r \in Runs, ReportCut(r)
      PROVE  Publishing(r)
  <2>1. Running(r) /\ mine' = [mine EXCEPT ![r] = Empty] /\ rows' = View(r)
    BY <1>7 DEF ReportCut, Empty
  <2>2. View(r) = Over(Empty, View(r)) /\ Empty \in RowTables /\ DOMAIN Empty = {}
    BY OverEmpty, EmptyTable, ViewType
  <2>3. \E top \in Nat : \A i \in DOMAIN Empty : i[2] <= top
    BY <2>2
  <2> QED BY <2>1, <2>2, <2>3 DEF Publishing
<1>8. CASE Restart
  BY <1>8 DEF Restart, Dropping, Empty
<1>9. CASE \/ CheckReads \/ NewDay \/ \E q \in Requests : Refused(q)
           \/ \E i \in DOMAIN rows, what \in {"EXECUTED", "IGNORED"} : Choose(i, what)
  BY <1>9 DEF CheckReads, NewDay, Refused, Choose, Dropping
<1>10. ASSUME NEW S \in SUBSET DOMAIN rows, S \cap AllDirty = {}, \A i \in S : IsCard(rows[i]),
              mine' = mine, rows' = Over(Ignored(rows, S), rows)
       PROVE  Rewriting
  <2>1. rows \in RowTables
    BY RowTable DEF TypeOK
  <2> QED BY <1>10, <2>1, IgnoredLater DEF Rewriting
<1>11. CASE CheckWrites
  <2>1. PICK S \in SUBSET checker : rows' = Over(Ignored(rows, S), rows)
    BY <1>11 DEF CheckWrites
  <2>2. S \subseteq DOMAIN rows /\ S \cap AllDirty = {} /\ \A i \in S : IsCard(rows[i])
    BY <1>11 DEF CheckWrites, TypeOK, Readers
  <2> QED BY <1>10, <1>11, <2>1, <2>2 DEF CheckWrites
<1>12. CASE Revalidate
  <2>1. Past(rows) \subseteq DOMAIN rows /\ \A i \in Past(rows) : IsCard(rows[i])
    BY DEF Past, IsCard
  <2> QED BY <1>10, <1>12, <2>1 DEF Revalidate
<1>13. ASSUME NEW q \in Requests, Confirm(q)
       PROVE  Rewriting
  <2>1. /\ desk[q].id \in DOMAIN rows /\ desk[q].what \in {"EXECUTED", "IGNORED"}
        /\ IsCard(rows[desk[q].id]) /\ desk[q].id \notin AllDirty
    BY <1>13 DEF Confirm, TypeOK, Readers
  <2>2. mine' = mine /\ rows' = [rows EXCEPT ![desk[q].id].status = desk[q].what]
    BY <1>13 DEF Confirm
  <2>3. DOMAIN rows' = DOMAIN rows /\ rows'[desk[q].id] = [rows[desk[q].id] EXCEPT !.status = desk[q].what]
        /\ \A i \in DOMAIN rows : i # desk[q].id => rows'[i] = rows[i]
    BY <2>1, <2>2 DEF TypeOK
  <2>4. LaterTable(rows, rows')
    BY <2>1, <2>3 DEF LaterTable, Later
  <2>5. rows' \in RowTables
    <3>1. rows' = [i \in DOMAIN rows |-> rows'[i]] /\ rows \in RowTables
      <4>1. rows \in [DOMAIN rows -> RowType]
        BY DEF TypeOK
      <4>2. rows' = [i \in DOMAIN rows |-> rows'[i]]
        BY <2>2, <4>1
      <4>3. rows \in RowTables
        BY RowTable DEF TypeOK
      <4> QED BY <4>2, <4>3
    <3>2. \A i \in DOMAIN rows : rows'[i] \in RowType
      BY <3>1, <2>4, RowTable, LaterFields DEF LaterTable
    <3> QED BY <3>1, <3>2, RowTable
  <2> QED BY <2>1, <2>2, <2>3, <2>4, <2>5 DEF Rewriting
<1> QED BY <1>2, <1>3, <1>4, <1>5, <1>6, <1>7, <1>8, <1>9, <1>11, <1>12, <1>13
        DEF Next, Engine, Timeout

-----------------------------------------------------------------------------
(* Who has written which row. *)

LEMMA DirtyOthers ==
  ASSUME NEW r \in Runs
  PROVE  /\ \A i : i \in Dirty(r) <=> \E o \in Runs \ {r} : i \in DOMAIN mine[o]
         /\ \A i : i \in Dirty(r)' <=> \E o \in Runs \ {r} : i \in DOMAIN mine'[o]
         /\ \A i : i \in AllDirty <=> \E o \in Runs : i \in DOMAIN mine[o]
  BY DEF Dirty, AllDirty

\* The types of what runs have written, and their locks, outlive any step.
LEMMA LockedStep ==
  ASSUME Inv, Groups, DOMAIN mine' = Runs
  PROVE  Locked' /\ \A r \in Runs : mine'[r] \in RowTables
<1> USE DEF Inv, IInv
<1>1. \A r \in Runs : mine[r] \in RowTables
  BY ViewType
<1>2. CASE Dropping
  <2>1. \A r \in Runs : mine'[r] = mine[r] \/ (mine'[r] = Empty /\ DOMAIN mine'[r] = {})
    BY <1>2, EmptyTable DEF Dropping
  <2>2. \A r \in Runs : Dirty(r)' \subseteq Dirty(r)
    BY <2>1, DirtyOthers
  <2> QED BY <1>1, <1>2, <2>1, <2>2, EmptyTable DEF Dropping, Locked
<1>3. CASE Rewriting
  <2>1. /\ mine' = mine /\ DOMAIN rows' = DOMAIN rows
        /\ \A r \in Runs : \A i \in DOMAIN mine[r] \cap DOMAIN rows : rows'[i] = rows[i]
    BY <1>3, DirtyOthers DEF Rewriting, LaterTable
  <2>2. \A r \in Runs : Dirty(r)' = Dirty(r)
    BY <2>1 DEF Dirty
  <2> QED BY <1>1, <2>1, <2>2 DEF Locked
<1>4. ASSUME NEW r \in Runs, Publishing(r)
      PROVE  Locked' /\ \A o \in Runs : mine'[o] \in RowTables
  <2>1. PICK new : /\ new \in RowTables /\ DOMAIN new \cap (DOMAIN View(r) \cup Dirty(r)) = {}
                   /\ \A i \in DOMAIN new : new[i] = SitOutRow(r)
                   /\ rows' = Over(new, View(r))
    BY <1>4 DEF Publishing
  <2>2. /\ mine'[r] = Empty /\ DOMAIN mine'[r] = {}
        /\ \A o \in Runs \ {r} : mine'[o] = mine[o]
    BY <1>4, EmptyTable DEF Publishing, TypeOK
  <2>3. /\ DOMAIN rows' = DOMAIN new \cup DOMAIN View(r)
        /\ \A i \in DOMAIN View(r) : rows'[i] = View(r)[i]
    <3>1. View(r) \in RowTables
      BY ViewType
    <3> QED BY <2>1, <3>1, OverTable, ZenonT(60)
  <2>4. \A o \in Runs : Dirty(o)' \subseteq Dirty(o)
    BY <2>2, DirtyOthers
  <2>5. ASSUME NEW o \in Runs, NEW i \in DOMAIN mine'[o]
        PROVE  /\ IF i \in DOMAIN rows'
                  THEN rows'[i].status = "PENDING"
                       /\ mine'[o][i] = [rows'[i] EXCEPT !.status = "IGNORED"]
                  ELSE mine'[o][i].run = o /\ IsCard(mine'[o][i])
               /\ i \notin Dirty(o)'
    <3>1. o # r /\ mine'[o] = mine[o] /\ i \in DOMAIN mine[o] /\ i \notin Dirty(o)
      BY <2>2, <2>5 DEF Locked
    <3>2. i \in Dirty(r) /\ i \notin DOMAIN mine[r]
      BY <3>1, DirtyOthers
    <3>3. i \in DOMAIN rows' <=> i \in DOMAIN rows
      BY <2>1, <2>3, <3>2, ViewType
    <3>4. i \in DOMAIN rows => rows'[i] = rows[i]
      BY <2>3, <3>2, ViewType
    <3> QED BY <2>4, <3>1, <3>3, <3>4 DEF Locked
  <2> QED BY <1>1, <2>2, <2>5, EmptyTable DEF Locked
<1>5. ASSUME NEW r \in Runs, Ignoring(r)
      PROVE  Locked' /\ \A o \in Runs : mine'[o] \in RowTables
  <2>1. PICK S \in SUBSET DOMAIN View(r) :
          /\ S \cap Dirty(r) = {} /\ \A i \in S : View(r)[i].status = "PENDING"
          /\ mine' = [mine EXCEPT ![r] = Over(Ignored(View(r), S), @)]
    BY <1>5 DEF Ignoring
  <2> DEFINE ign == Ignored(View(r), S)
  <2>2. /\ ign \in RowTables /\ DOMAIN ign = S
        /\ \A i \in S : ign[i] = [View(r)[i] EXCEPT !.status = "IGNORED"]
    BY ViewType, IgnoredTable, RowTable
  <2>3. /\ mine'[r] = Over(ign, mine[r]) /\ \A o \in Runs \ {r} : mine'[o] = mine[o]
    BY <2>1 DEF TypeOK
  <2> HIDE DEF ign
  <2>4. /\ mine'[r] \in RowTables /\ DOMAIN mine'[r] = S \cup DOMAIN mine[r]
        /\ \A i \in S : mine'[r][i] = ign[i]
        /\ \A i \in DOMAIN mine[r] : i \notin S => mine'[r][i] = mine[r][i]
    <3>1. mine[r] \in RowTables
      BY <1>1
    <3>2. /\ Over(ign, mine[r]) \in RowTables
          /\ DOMAIN Over(ign, mine[r]) = DOMAIN ign \cup DOMAIN mine[r]
          /\ \A i \in DOMAIN ign : Over(ign, mine[r])[i] = ign[i]
          /\ \A i \in DOMAIN mine[r] : i \notin DOMAIN ign => Over(ign, mine[r])[i] = mine[r][i]
      BY <2>2, <3>1, OverTable
    <3> QED BY <2>2, <2>3, <3>2
  <2>5. ASSUME NEW i \in DOMAIN mine'[r]
        PROVE  /\ IF i \in DOMAIN rows
                  THEN rows[i].status = "PENDING"
                       /\ mine'[r][i] = [rows[i] EXCEPT !.status = "IGNORED"]
                  ELSE mine'[r][i].run = r /\ IsCard(mine'[r][i])
               /\ i \notin Dirty(r)
    <3>1. CASE i \in S /\ i \in DOMAIN mine[r]
      <4>1. /\ View(r)[i] = mine[r][i] /\ mine[r][i].status = "PENDING"
            /\ mine'[r][i] = [mine[r][i] EXCEPT !.status = "IGNORED"] /\ mine[r][i] \in RowType
        <5>1. View(r)[i] = mine[r][i] /\ mine[r][i] \in RowType
          BY <1>1, <3>1, ViewType, RowTable
        <5> QED BY <5>1, <3>1, <2>1, <2>2, <2>4
      <4>2. i \notin DOMAIN rows
        <5>1. ASSUME i \in DOMAIN rows
              PROVE  FALSE
          <6>1. mine[r][i] = [rows[i] EXCEPT !.status = "IGNORED"] /\ rows[i] \in RowType
            <7>1. mine[r][i] = [rows[i] EXCEPT !.status = "IGNORED"]
              BY <3>1, <5>1 DEF Locked
            <7>2. rows \in RowTables
              BY ViewType
            <7> QED BY <5>1, <7>1, <7>2, RowTable
          <6> QED BY <4>1, <6>1 DEF RowType
        <5> QED BY <5>1
      <4>3. mine[r][i].run = r /\ i \notin Dirty(r)
        BY <3>1, <4>2 DEF Locked
      <4> QED BY <4>1, <4>2, <4>3 DEF RowType, IsCard
    <3>2. CASE i \in S /\ i \notin DOMAIN mine[r]
      <4>1. i \in DOMAIN rows /\ View(r)[i] = rows[i]
        BY <3>2, ViewType
      <4> QED BY <3>2, <4>1, <2>1, <2>2, <2>4
    <3>3. CASE i \notin S
      BY <3>3, <2>4 DEF Locked
    <3> QED BY <3>1, <3>2, <3>3
  <2>6. Dirty(r)' = Dirty(r) /\ \A o \in Runs \ {r} : Dirty(o)' \subseteq Dirty(o) \cup S
    <3>1. Dirty(r)' = Dirty(r)
      BY <2>3 DEF Dirty
    <3>2. ASSUME NEW o \in Runs \ {r}, NEW i \in Dirty(o)', i \notin S
          PROVE  i \in Dirty(o)
      <4>1. PICK p \in Runs \ {o} : i \in DOMAIN mine'[p]
        BY <3>2, DirtyOthers
      <4>2. i \in DOMAIN mine[p]
        BY <2>3, <2>4, <3>2, <4>1
      <4> QED BY <4>1, <4>2, DirtyOthers
    <3> QED BY <3>1, <3>2
  <2>7. \A o \in Runs \ {r} : \A i \in DOMAIN mine[o] : i \in Dirty(r)
    BY DirtyOthers
  <2>8. rows' = rows
    BY <1>5 DEF Ignoring
  <2> QED BY <1>1, <2>1, <2>3, <2>4, <2>5, <2>6, <2>7, <2>8 DEF Locked
<1>6. ASSUME NEW r \in Runs, Inserting(r)
      PROVE  Locked' /\ \A o \in Runs : mine'[o] \in RowTables
  <2> DEFINE id == CardId(r)
             new == [i \in {id} |-> RowOf(Card(r), r)]
  <2>1. /\ RowOf(Card(r), r) \in RowType /\ RowOf(Card(r), r).run = r
        /\ IsCard(RowOf(Card(r), r)) /\ id \in Ids
    BY <1>6, CardType DEF Inserting, Tables, Running
  <2>2. new \in RowTables /\ DOMAIN new = {id} /\ new[id] = RowOf(Card(r), r)
    BY <2>1, RowTable
  <2>3. mine'[r] = Over(new, mine[r]) /\ \A o \in Runs \ {r} : mine'[o] = mine[o]
    BY <1>6 DEF Inserting, TypeOK
  <2>4. id \notin DOMAIN rows /\ id \notin Dirty(r)
    BY <1>6, ViewType DEF Inserting
  <2> HIDE DEF new, id
  <2>5. /\ mine'[r] \in RowTables /\ DOMAIN mine'[r] = {id} \cup DOMAIN mine[r]
        /\ mine'[r][id] = RowOf(Card(r), r)
        /\ \A i \in DOMAIN mine[r] : i # id => mine'[r][i] = mine[r][i]
    <3>1. mine[r] \in RowTables
      BY <1>1
    <3>2. /\ Over(new, mine[r]) \in RowTables
          /\ DOMAIN Over(new, mine[r]) = DOMAIN new \cup DOMAIN mine[r]
          /\ \A i \in DOMAIN new : Over(new, mine[r])[i] = new[i]
          /\ \A i \in DOMAIN mine[r] : i \notin DOMAIN new => Over(new, mine[r])[i] = mine[r][i]
      BY <2>2, <3>1, OverTable
    <3> QED BY <2>2, <2>3, <3>2
  <2>6. Dirty(r)' = Dirty(r) /\ \A o \in Runs \ {r} : Dirty(o)' \subseteq Dirty(o) \cup {id}
    <3>1. Dirty(r)' = Dirty(r)
      BY <2>3 DEF Dirty
    <3>2. ASSUME NEW o \in Runs \ {r}, NEW i \in Dirty(o)', i \notin {id}
          PROVE  i \in Dirty(o)
      <4>1. PICK p \in Runs \ {o} : i \in DOMAIN mine'[p]
        BY <3>2, DirtyOthers
      <4>2. i \in DOMAIN mine[p]
        BY <2>3, <2>5, <3>2, <4>1
      <4> QED BY <4>1, <4>2, DirtyOthers
    <3> QED BY <3>1, <3>2
  <2>7. \A o \in Runs \ {r} : \A i \in DOMAIN mine[o] : i \in Dirty(r)
    BY DirtyOthers
  <2>8. rows' = rows
    BY <1>6 DEF Inserting
  <2>9. ASSUME NEW o \in Runs, NEW i \in DOMAIN mine'[o]
        PROVE  /\ IF i \in DOMAIN rows
                  THEN rows[i].status = "PENDING"
                       /\ mine'[o][i] = [rows[i] EXCEPT !.status = "IGNORED"]
                  ELSE mine'[o][i].run = o /\ IsCard(mine'[o][i])
               /\ i \notin Dirty(o)'
    <3>1. CASE o = r /\ i = id
      BY <3>1, <2>1, <2>4, <2>5, <2>6
    <3>2. CASE o = r /\ i # id
      <4>1. i \in DOMAIN mine[r] /\ mine'[r][i] = mine[r][i]
        BY <2>9, <3>2, <2>5
      <4> QED BY <3>2, <4>1, <2>6 DEF Locked
    <3>3. CASE o # r
      <4>1. i \in DOMAIN mine[o] /\ mine'[o] = mine[o] /\ i # id
        BY <2>9, <3>3, <2>3, <2>4, <2>7
      <4> QED BY <3>3, <4>1, <2>6 DEF Locked
    <3> QED BY <3>1, <3>2, <3>3
  <2> QED BY <1>1, <2>3, <2>5, <2>8, <2>9 DEF Locked
<1> QED BY <1>2, <1>3, <1>4, <1>5, <1>6 DEF Groups

-----------------------------------------------------------------------------
(* Types. *)

LEMMA RowsStep ==
  ASSUME Inv, Groups
  PROVE  /\ rows' \in RowTables /\ DOMAIN rows \subseteq DOMAIN rows'
         /\ \A i \in DOMAIN rows : Later(rows[i], rows'[i])
<1> USE DEF Inv, IInv
<1>1. CASE Dropping
  <2>1. rows \in RowTables
    BY DEF TypeOK, RowTables
  <2> QED BY <1>1, <2>1 DEF Dropping, Later
<1>2. CASE Rewriting
  BY <1>2 DEF Rewriting, LaterTable
<1>3. ASSUME NEW r \in Runs, Publishing(r)
      PROVE  /\ rows' \in RowTables /\ DOMAIN rows \subseteq DOMAIN rows'
             /\ \A i \in DOMAIN rows : Later(rows[i], rows'[i])
  <2>1. PICK new : /\ new \in RowTables /\ DOMAIN new \cap (DOMAIN View(r) \cup Dirty(r)) = {}
                   /\ rows' = Over(new, View(r))
    BY <1>3 DEF Publishing
  <2>2. View(r) \in RowTables /\ DOMAIN View(r) = DOMAIN mine[r] \cup DOMAIN rows
    BY ViewType
  <2>3. /\ rows' \in RowTables /\ DOMAIN rows' = DOMAIN new \cup DOMAIN View(r)
        /\ \A i \in DOMAIN View(r) : rows'[i] = View(r)[i]
    <3>1. /\ Over(new, View(r)) \in RowTables
          /\ DOMAIN Over(new, View(r)) = DOMAIN new \cup DOMAIN View(r)
          /\ \A i \in DOMAIN View(r) : i \notin DOMAIN new => Over(new, View(r))[i] = View(r)[i]
      BY <2>1, <2>2, OverTable
    <3> QED BY <2>1, <3>1
  <2> QED BY <2>2, <2>3, ViewRows
<1>4. ASSUME NEW r \in Runs, Ignoring(r) \/ Inserting(r)
      PROVE  rows' = rows /\ rows \in RowTables
  BY <1>4 DEF Ignoring, Inserting, TypeOK, RowTables
<1> QED BY <1>1, <1>2, <1>3, <1>4 DEF Groups, Later

LEMMA NoOutlookType == [live |-> NoPlan, close |-> NoPlan] \in [live : Plan, close : Plan]
<1> DEFINE E == [offer : Offers, nth : Nat \ {0}]
<1>1. <<>> \in Seq(E)
  OBVIOUS
<1> HIDE DEF E
<1>2. NoPlan \in Plan
  BY <1>1 DEF NoPlan, Plan, E
<1> QED BY <1>2

LEMMA IdleType ==
  /\ Idle \in RunType
  /\ \A p \in {"new", "done", "failed"}, k \in RunKinds \cup {"none"}, c \in 0 .. 4 :
       [Idle EXCEPT !.pc = p, !.kind = k, !.cut = c] \in RunType
<1> DEFINE E == [offer : Offers, nth : Nat \ {0}]
           O == [live |-> NoPlan, close |-> NoPlan]
           OS == [live : Plan, close : Plan]
           RS == [pc : {"new", "evaluate", "persist", "insert", "done", "failed"},
                  kind : RunKinds \cup {"none"}, date : Days \cup {0}, entry : Days \cup {0},
                  conn : Runs \cup {0}, first : Nat, queue : Seq(E),
                  sits : Nat, cut : 0 .. 4, outlook : OS]
<1>1. O \in OS
  BY NoOutlookType
<1>2. Idle = [pc |-> "new", kind |-> "none", date |-> 0, entry |-> 0, conn |-> 0, first |-> 0,
              queue |-> <<>>, sits |-> 0, cut |-> 0, outlook |-> O]
  BY DEF Idle
<1>3. RunType = RS
  BY DEF RunType
<1> HIDE DEF E, O, OS
<1>4. <<>> \in Seq(E)
  OBVIOUS
<1>5. Idle \in RS
  BY <1>1, <1>2, <1>4
<1>6. ASSUME NEW v \in RS, NEW p \in {"new", "done", "failed"}, NEW k \in RunKinds \cup {"none"},
             NEW c \in 0 .. 4
      PROVE  [v EXCEPT !.pc = p, !.kind = k, !.cut = c] \in RS
  OBVIOUS
<1> QED BY <1>3, <1>5, <1>6

LEMMA RememberType ==
  ASSUME TypeOK, NEW r \in Runs, run[r].date \in Days, run[r].conn # 0,
         NextSeq(r) \in Nat \ {0}, NEW last \in Int
  PROVE  Remember(r, last) \in [Runs \X Days -> Nat]
<1>1. run[r].conn \in Runs /\ cache \in [Runs \X Days -> Nat]
  BY DEF TypeOK, RunType
<1>2. CASE last < NextSeq(r)
  BY <1>1, <1>2 DEF Remember
<1>3. CASE ~(last < NextSeq(r))
  BY <1>1, <1>3 DEF Remember
<1> QED BY <1>2, <1>3

\* What a step makes of a run.
RunStep(r) ==
  /\ run'[r] \in RunType
  /\ Running(r)' => run'[r].date \in Days /\ run'[r].entry \in Days /\ run'[r].conn # 0
  /\ Running(r)' \/ DOMAIN mine'[r] = {}

LEMMA RunKept ==
  ASSUME TypeOK, NEW r \in Runs, run'[r] = run[r], mine'[r] = mine[r] \/ DOMAIN mine'[r] = {}
  PROVE  RunStep(r)
  BY DEF RunStep, TypeOK, Running

\* A step that only touches one run.
LEMMA OneRun ==
  ASSUME TypeOK, NEW r \in Runs, NEW x, run' = [run EXCEPT ![r] = x], x \in RunType,
         x.pc \notin {"new", "done", "failed"} =>
           x.date \in Days /\ x.entry \in Days /\ x.conn # 0,
         DOMAIN mine' = Runs, \A o \in Runs \ {r} : mine'[o] = mine[o],
         x.pc \in {"new", "done", "failed"} => DOMAIN mine'[r] = {}
  PROVE  run' \in [Runs -> RunType] /\ \A o \in Runs : RunStep(o)
<1>1. run \in [Runs -> RunType]
  BY DEF TypeOK
<1>2. run'[r] = x /\ \A o \in Runs \ {r} : run'[o] = run[o]
  BY <1>1
<1>3. \A o \in Runs \ {r} : RunStep(o)
  BY <1>2, RunKept
<1>4. RunStep(r)
  BY <1>2 DEF RunStep, Running
<1> QED BY <1>1, <1>3, <1>4

LEMMA RunFields ==
  ASSUME TypeOK, NEW r \in Runs
  PROVE  /\ run[r] \in RunType /\ run[r].kind \in RunKinds \cup {"none"} /\ run[r].cut \in 0 .. 4
         /\ run[r].sits \in Nat /\ run[r].outlook \in [live : Plan, close : Plan]
         /\ Running(r) => run[r].date \in Days /\ run[r].entry \in Days /\ run[r].conn # 0
  BY DEF TypeOK, RunType

LEMMA FailedType ==
  ASSUME TypeOK, NEW r \in Runs
  PROVE  LET x == [Idle EXCEPT !.pc = "failed", !.kind = run[r].kind, !.cut = run[r].cut]
         IN x \in RunType /\ x.pc = "failed"
  BY IdleType, RunFields DEF Idle

LEMMA FailsStep ==
  ASSUME TypeOK, NEW r \in Runs, Fails(r)
  PROVE  run' \in [Runs -> RunType] /\ DOMAIN mine' = Runs /\ \A o \in Runs : RunStep(o)
<1> DEFINE x == [Idle EXCEPT !.pc = "failed", !.kind = run[r].kind, !.cut = run[r].cut]
<1>1. x \in RunType /\ x.pc = "failed"
  BY FailedType
<1>2. run' = [run EXCEPT ![r] = x]
  BY DEF Fails
<1> HIDE DEF x
<1>3. /\ DOMAIN mine' = Runs /\ DOMAIN mine'[r] = {}
      /\ \A o \in Runs \ {r} : mine'[o] = mine[o]
  BY DEF Fails, TypeOK
<1> QED BY <1>1, <1>2, <1>3, OneRun

\* The connection is dealt with, the thread runs on.
LEMMA CutStep ==
  ASSUME TypeOK, NEW r \in Runs, Running(r), NEW c \in 0 .. 4, run' = [run EXCEPT ![r].cut = c],
         mine' = mine \/ mine' = [mine EXCEPT ![r] = [i \in {} |-> Idle]]
  PROVE  run' \in [Runs -> RunType] /\ DOMAIN mine' = Runs /\ \A o \in Runs : RunStep(o)
<1> DEFINE x == [run[r] EXCEPT !.cut = c]
<1>1. x \in RunType /\ x.pc = run[r].pc /\ x.date = run[r].date /\ x.entry = run[r].entry
      /\ x.conn = run[r].conn
  BY RunFields DEF RunType
<1>2. run' = [run EXCEPT ![r] = x]
  OBVIOUS
<1> HIDE DEF x
<1>3. DOMAIN mine' = Runs /\ \A o \in Runs \ {r} : mine'[o] = mine[o]
  BY DEF TypeOK
<1>4. x.pc \notin {"new", "done", "failed"}
  BY <1>1 DEF Running
<1>5. x.date \in Days /\ x.entry \in Days /\ x.conn # 0
  BY <1>1, RunFields
<1>6. run' \in [Runs -> RunType] /\ \A o \in Runs \ {r} : run'[o] = run[o]
  <2>1. run \in [Runs -> RunType] /\ x \in RunType
    BY <1>1 DEF TypeOK
  <2> QED BY <1>2, <2>1
<1>7. RunStep(r)
  <2>1. run'[r] = x
    BY <1>2 DEF TypeOK
  <2> QED BY <1>1, <1>4, <1>5, <2>1 DEF RunStep, Running
<1>8. \A o \in Runs \ {r} : RunStep(o)
  BY <1>3, <1>6, RunKept
<1> QED BY <1>3, <1>6, <1>7, <1>8

LEMMA RunsStep ==
  ASSUME Inv, Next
  PROVE  /\ run' \in [Runs -> RunType] /\ DOMAIN mine' = Runs /\ cache' \in [Runs \X Days -> Nat]
         /\ \A r \in Runs : RunStep(r)
<1> USE DEF Inv, IInv
<1> DEFINE Goal == /\ run' \in [Runs -> RunType] /\ DOMAIN mine' = Runs
                   /\ cache' \in [Runs \X Days -> Nat] /\ \A r \in Runs : RunStep(r)
<1>1. /\ run \in [Runs -> RunType] /\ DOMAIN mine = Runs /\ cache \in [Runs \X Days -> Nat]
      /\ Days \subseteq Nat
  BY DEF TypeOK, Days
<1>2. CASE run' = run /\ mine' = mine /\ cache' = cache
  BY <1>1, <1>2, RunKept
<1>3. ASSUME NEW r \in Runs, NEW k \in RunKinds, Start(r, k)
      PROVE  Goal
  <2>1. PICK c \in 1 .. r :
          run' = [run EXCEPT ![r] = [@ EXCEPT !.pc = "evaluate", !.kind = k,
                    !.date = DateOf(k), !.entry = EntryOf(k), !.conn = c]]
    BY <1>3 DEF Start
  <2> DEFINE x == [run[r] EXCEPT !.pc = "evaluate", !.kind = k,
                     !.date = DateOf(k), !.entry = EntryOf(k), !.conn = c]
  <2>2. c \in Runs /\ c # 0 /\ DateOf(k) \in Days /\ EntryOf(k) \in Days
    BY <1>3, SuggestionAssumption DEF Start, Runs
  <2>3. /\ x \in RunType /\ x.pc = "evaluate"
        /\ x.date = DateOf(k) /\ x.entry = EntryOf(k) /\ x.conn = c
    BY <2>2, RunFields, ZenonT(90) DEF RunType
  <2>4. run' = [run EXCEPT ![r] = x]
    BY <2>1
  <2> HIDE DEF x
  <2>5. DOMAIN mine' = Runs /\ (\A o \in Runs \ {r} : mine'[o] = mine[o]) /\ cache' = cache
    BY <1>1, <1>3 DEF Start
  <2> QED BY <1>1, <2>2, <2>3, <2>4, <2>5, OneRun
<1>4. ASSUME NEW r \in Runs, Evaluate(r)
      PROVE  Goal
  <2> DEFINE plan == run[r].outlook[IF run[r].kind = "live" THEN "live" ELSE "close"]
             x == [run[r] EXCEPT !.pc = "persist", !.first = NextSeq(r),
                                !.queue = plan.queue, !.sits = plan.sits, !.outlook = Idle.outlook]
  <2>1. Running(r) /\ run[r].date \in Days /\ run[r].entry \in Days /\ run[r].conn # 0
    BY <1>4, RunFields DEF Evaluate, Running
  <2>2. NextSeq(r) \in Nat \ {0}
    BY <2>1, NextSeqType
  <2>3. plan \in Plan
    BY RunFields
  <2>4. /\ run' = [run EXCEPT ![r] = x] /\ cache' = Remember(r, NextSeq(r) + plan.ids - 1)
        /\ mine' = mine
    BY <1>4 DEF Evaluate
  <2> HIDE DEF plan
  <2>5. /\ plan.queue \in Seq([offer : Offers, nth : Nat \ {0}]) /\ plan.sits \in Nat
        /\ plan.ids \in Nat
    BY <2>3 DEF Plan
  <2>6. Idle.outlook \in [live : Plan, close : Plan]
    BY NoOutlookType DEF Idle
  <2>7. x \in RunType /\ x.pc = "persist" /\ x.date = run[r].date /\ x.entry = run[r].entry
        /\ x.conn = run[r].conn
    BY <2>2, <2>5, <2>6, RunFields, ZenonT(90) DEF RunType
  <2> HIDE DEF x
  <2>8. cache' \in [Runs \X Days -> Nat]
    <3>1. NextSeq(r) + plan.ids - 1 \in Int
      BY <2>2, <2>5
    <3> QED BY <2>1, <2>2, <2>4, <3>1, RememberType
  <2> QED BY <1>1, <2>1, <2>4, <2>7, <2>8, OneRun
<1>5. ASSUME NEW r \in Runs, cache' = cache, run[r].queue # <<>>, Running(r),
             DOMAIN mine' = Runs, \A o \in Runs \ {r} : mine'[o] = mine[o],
             \/ run' = [run EXCEPT ![r].queue = Tail(@)]
             \/ run' = [run EXCEPT ![r].pc = "insert"]
             \/ run' = [run EXCEPT ![r].pc = "persist", ![r].queue = Tail(@)]
      PROVE  Goal
  <2> DEFINE x == run'[r]
  <2>1. Tail(run[r].queue) \in Seq([offer : Offers, nth : Nat \ {0}])
    BY <1>5, QueueType
  <2>2. /\ x \in RunType /\ x.pc \in {run[r].pc, "insert", "persist"} /\ x.date = run[r].date
        /\ x.entry = run[r].entry /\ x.conn = run[r].conn
    <3>1. CASE run' = [run EXCEPT ![r].queue = Tail(@)]
      BY <1>1, <2>1, <3>1, ZenonT(90) DEF RunType
    <3>2. CASE run' = [run EXCEPT ![r].pc = "insert"]
      BY <1>1, <3>2, ZenonT(90) DEF RunType
    <3>3. CASE run' = [run EXCEPT ![r].pc = "persist", ![r].queue = Tail(@)]
      BY <1>1, <2>1, <3>3, ZenonT(90) DEF RunType
    <3> QED BY <1>5, <3>1, <3>2, <3>3
  <2>3. run' = [run EXCEPT ![r] = x]
    BY <1>1, <1>5
  <2> HIDE DEF x
  <2>4. x.pc \notin {"new", "done", "failed"}
    BY <1>5, <2>2 DEF Running
  <2> QED BY <1>1, <1>5, <2>2, <2>3, <2>4, RunFields, OneRun
<1>6. ASSUME NEW r \in Runs, Fails(r), cache' = cache
      PROVE  Goal
  BY <1>1, <1>6, FailsStep
<1>7. ASSUME NEW r \in Runs, Replace(r)
      PROVE  Goal
  BY <1>1, <1>5, <1>7 DEF Replace, Running
<1>8. ASSUME NEW r \in Runs, Insert(r)
      PROVE  Goal
  <2>1. run[r].queue # <<>> /\ Running(r) /\ cache' = cache
    BY <1>8 DEF Insert, Tables, Running
  <2>2. CASE CardId(r) \in DOMAIN View(r)
    BY <1>6, <1>8, <2>1, <2>2 DEF Insert
  <2>3. CASE CardId(r) \notin DOMAIN View(r)
    BY <1>1, <1>5, <1>8, <2>1, <2>3 DEF Insert
  <2> QED BY <2>2, <2>3
<1>9. ASSUME NEW r \in Runs, Commit(r)
      PROVE  Goal
  <2> DEFINE x == [Idle EXCEPT !.pc = "done", !.kind = run[r].kind, !.cut = run[r].cut]
  <2>1. Running(r) /\ run[r].date \in Days /\ run[r].conn # 0 /\ run[r].sits \in Nat
    BY <1>9, RunFields DEF Commit, Running
  <2>2. NextSeq(r) \in Nat \ {0}
    BY <2>1, NextSeqType
  <2>3. x \in RunType /\ x.pc = "done"
    BY IdleType, RunFields DEF Idle
  <2>4. /\ run' = [run EXCEPT ![r] = x] /\ cache' = Remember(r, NextSeq(r) + run[r].sits - 1)
        /\ mine' = [mine EXCEPT ![r] = [i \in {} |-> Idle]]
    BY <1>9 DEF Commit
  <2> HIDE DEF x
  <2>5. cache' \in [Runs \X Days -> Nat]
    <3>1. NextSeq(r) + run[r].sits - 1 \in Int
      BY <2>1, <2>2
    <3> QED BY <2>1, <2>2, <2>4, <3>1, RememberType
  <2>6. DOMAIN mine' = Runs /\ DOMAIN mine'[r] = {} /\ \A o \in Runs \ {r} : mine'[o] = mine[o]
    BY <1>1, <2>4
  <2> QED BY <2>3, <2>4, <2>5, <2>6, OneRun
<1>10. ASSUME NEW r \in Runs, LockTimeout(r)
       PROVE  Goal
  <2>1. CASE run[r].queue # <<>>
    BY <1>6, <1>10, <2>1 DEF LockTimeout
  <2>2. CASE run[r].queue = <<>>
    <3> DEFINE x == [run[r] EXCEPT !.sits = 0]
    <3>1. Running(r)
      BY <1>10 DEF LockTimeout, Blocked, Running
    <3>2. x \in RunType /\ x.pc = run[r].pc /\ x.date = run[r].date /\ x.entry = run[r].entry
          /\ x.conn = run[r].conn
      BY RunFields DEF RunType
    <3>3. run' = [run EXCEPT ![r] = x] /\ mine' = mine /\ cache' = cache
      BY <1>10, <2>2 DEF LockTimeout
    <3> HIDE DEF x
    <3> QED BY <1>1, <3>1, <3>2, <3>3, RunFields, OneRun DEF Running
  <2> QED BY <2>1, <2>2
<1>11. ASSUME NEW r \in Runs, Cut(r) \/ RollBackCut(r) \/ ReportCut(r) \/ CloseCut(r)
       PROVE  Goal
  <2>1. cache' = cache /\ Running(r)
    BY <1>11 DEF Cut, RollBackCut, ReportCut, CloseCut
  <2>2. CASE Fails(r)
    BY <1>6, <2>1, <2>2
  <2>3. CASE \E c \in 1 .. 4 : /\ run' = [run EXCEPT ![r].cut = c]
                               /\ mine' = [mine EXCEPT ![r] = [i \in {} |-> Idle]]
    <3>1. PICK c \in 1 .. 4 : /\ run' = [run EXCEPT ![r].cut = c]
                              /\ mine' = [mine EXCEPT ![r] = [i \in {} |-> Idle]]
      BY <2>3
    <3>2. c \in 0 .. 4
      OBVIOUS
    <3>3. run' \in [Runs -> RunType] /\ DOMAIN mine' = Runs /\ \A o \in Runs : RunStep(o)
      BY <2>1, <3>1, <3>2, CutStep
    <3> QED BY <1>1, <2>1, <3>3
  <2> QED BY <1>11, <2>2, <2>3 DEF Cut, RollBackCut, ReportCut, CloseCut
<1>12. CASE Restart
  <2>1. /\ mine' = [r \in Runs |-> [i \in {} |-> Idle]] /\ cache' = [c \in Runs \X Days |-> 0]
        /\ \A r \in Runs : DOMAIN mine'[r] = {}
    BY <1>12 DEF Restart
  <2>2. /\ DOMAIN run' = Runs /\ run' = [r \in Runs |-> run'[r]]
        /\ \A r \in Runs : run'[r] = IF Running(r)
                                     THEN [Idle EXCEPT !.pc = "failed", !.kind = run[r].kind,
                                                       !.cut = run[r].cut]
                                     ELSE run[r]
    BY <1>12 DEF Restart
  <2>3. ASSUME NEW r \in Runs
        PROVE  run'[r] \in RunType /\ run'[r].pc \in {"new", "done", "failed"}
    <3>1. CASE Running(r)
      <4>1. run'[r] = [Idle EXCEPT !.pc = "failed", !.kind = run[r].kind, !.cut = run[r].cut]
        BY <2>2, <3>1
      <4> QED BY <4>1, FailedType
    <3>2. CASE ~Running(r)
      BY <2>2, <3>2, RunFields DEF Running
    <3> QED BY <3>1, <3>2
  <2>4. \A r \in Runs : RunStep(r)
    BY <2>1, <2>3 DEF RunStep, Running
  <2> QED BY <2>1, <2>2, <2>3, <2>4
<1>13. CASE \/ CheckReads \/ CheckWrites \/ Revalidate \/ NewDay
            \/ \E i \in DOMAIN rows, what \in {"EXECUTED", "IGNORED"} : Choose(i, what)
            \/ \E q \in Requests : Confirm(q) \/ Refused(q)
  BY <1>2, <1>13 DEF CheckReads, CheckWrites, Revalidate, Confirm, Refused, NewDay, Choose
<1> QED BY <1>3, <1>4, <1>7, <1>8, <1>9, <1>10, <1>11, <1>12, <1>13 DEF Next, Engine, Timeout

LEMMA TypeStep ==
  ASSUME Inv, Next
  PROVE  TypeOK'
<1> USE DEF Inv, IInv
<1>1. Groups
  BY StepGroups
<1>2. /\ run' \in [Runs -> RunType] /\ DOMAIN mine' = Runs /\ cache' \in [Runs \X Days -> Nat]
      /\ \A r \in Runs : RunStep(r)
  BY RunsStep
<1>3. rows' \in RowTables /\ DOMAIN rows \subseteq DOMAIN rows'
  BY <1>1, RowsStep
<1>4. \A r \in Runs : mine'[r] \in RowTables
  BY <1>1, <1>2, LockedStep
<1>5. day' \in Days
  <2>1. CASE NewDay
    BY <2>1, SuggestionAssumption DEF NewDay, TypeOK, Days
  <2>2. CASE UNCHANGED day
    BY <2>2 DEF TypeOK
  <2> QED BY <2>1, <2>2
        DEF Next, Engine, Timeout, Start, Evaluate, Replace, Insert, Commit, LockTimeout, Cut,
            RollBackCut, ReportCut, CloseCut, Restart, CheckReads, CheckWrites, Revalidate, Confirm,
            Refused, Choose
<1>6. checker' \subseteq DOMAIN rows' /\ touches' \in 0 .. MaxTouches
  <2>1. CASE CheckReads
    BY <2>1, <1>3, SuggestionAssumption DEF CheckReads, Touch, TypeOK
  <2>2. CASE \E i \in DOMAIN rows, what \in {"EXECUTED", "IGNORED"} : Choose(i, what)
    BY <2>2, <1>3, SuggestionAssumption DEF Choose, Touch, TypeOK
  <2>3. CASE checker' \in {checker, {}} /\ UNCHANGED touches
    BY <2>3, <1>3 DEF TypeOK
  <2> QED BY <2>1, <2>2, <2>3
        DEF Next, Engine, Timeout, Start, Evaluate, Replace, Insert, Commit, LockTimeout, Cut,
            RollBackCut, ReportCut, CloseCut, Restart, CheckWrites, Revalidate, Confirm, Refused,
            NewDay
<1> DEFINE DeskOK ==
             /\ booked \subseteq DOMAIN rows /\ DOMAIN desk = Requests
             /\ \A q \in Requests :
                  desk[q] = NoDesk \/ desk[q] \in [id : DOMAIN rows, what : {"EXECUTED", "IGNORED"}]
<1>7. DeskOK'
  <2>1. ASSUME NEW q \in Requests, NEW x,
               x = NoDesk \/ x \in [id : DOMAIN rows, what : {"EXECUTED", "IGNORED"}],
               desk' = [desk EXCEPT ![q] = x]
        PROVE  /\ DOMAIN desk' = Requests
               /\ \A p \in Requests :
                    \/ desk'[p] = NoDesk
                    \/ desk'[p] \in [id : DOMAIN rows', what : {"EXECUTED", "IGNORED"}]
    <3>1. DOMAIN desk' = Requests /\ \A p \in Requests : desk'[p] = x \/ desk'[p] = desk[p]
      BY <2>1 DEF TypeOK
    <3> QED BY <2>1, <3>1, <1>3 DEF TypeOK
  <2>2. ASSUME NEW i \in DOMAIN rows, NEW what \in {"EXECUTED", "IGNORED"}, Choose(i, what)
        PROVE  DeskOK'
    <3>1. touches + 1 \in Requests
      BY <2>2, SuggestionAssumption DEF Choose, Touch, Requests, TypeOK
    <3>2. [id |-> i, what |-> what] \in [id : DOMAIN rows, what : {"EXECUTED", "IGNORED"}]
      OBVIOUS
    <3>3. /\ desk' = [desk EXCEPT ![touches + 1] = [id |-> i, what |-> what]]
          /\ booked' = booked
      BY <2>2 DEF Choose
    <3>4. booked' \subseteq DOMAIN rows'
      BY <3>3, <1>3 DEF TypeOK
    <3> QED BY <2>1, <3>1, <3>2, <3>3, <3>4
  <2>3. ASSUME NEW q \in Requests, Confirm(q) \/ Refused(q)
        PROVE  DeskOK'
    <3>1. desk' = [desk EXCEPT ![q] = NoDesk]
      BY <2>3 DEF Confirm, Refused, Closed
    <3>2. desk[q].id \in DOMAIN rows
      BY <2>3 DEF Confirm, Refused, TypeOK
    <3>3. booked' \subseteq booked \cup {desk[q].id}
      BY <2>3 DEF Confirm, Refused
    <3>4. booked' \subseteq DOMAIN rows'
      BY <3>2, <3>3, <1>3 DEF TypeOK
    <3> QED BY <2>1, <3>1, <3>4
  <2>4. CASE UNCHANGED <<desk, booked>>
    BY <2>4, <1>3 DEF TypeOK
  <2> QED BY <2>2, <2>3, <2>4
        DEF Next, Engine, Timeout, Start, Evaluate, Replace, Insert, Commit, LockTimeout, Cut,
            RollBackCut, ReportCut, CloseCut, Restart, CheckReads, CheckWrites, Revalidate, NewDay
<1>8. met' \in [Runs -> SUBSET Runs]
  <2>1. ASSUME NEW r \in Runs, NEW k \in RunKinds, Start(r, k)
        PROVE  met' \in [Runs -> SUBSET Runs]
    BY <2>1 DEF Start, TypeOK
  <2>2. CASE UNCHANGED met
    BY <2>2 DEF TypeOK
  <2> QED BY <2>1, <2>2
        DEF Next, Engine, Timeout, Evaluate, Replace, Insert, Commit, LockTimeout, Cut,
            RollBackCut, ReportCut, CloseCut, Restart, CheckReads, CheckWrites, Revalidate, Confirm,
            Refused, Choose, NewDay
<1>9. fails' \in 0 .. MaxFails
  <2>1. CASE fails < MaxFails /\ fails' = fails + 1
    BY <2>1, SuggestionAssumption DEF TypeOK
  <2>2. CASE UNCHANGED fails
    BY <2>2 DEF TypeOK
  <2> QED BY <2>1, <2>2
        DEF Next, Engine, Timeout, Start, Evaluate, Replace, Insert, Commit, LockTimeout, Cut,
            RollBackCut, ReportCut, CloseCut, Restart, CheckReads, CheckWrites, Revalidate, Confirm,
            Refused, Choose, NewDay
<1>10. DOMAIN rows' \subseteq Ids /\ rows' \in [DOMAIN rows' -> RowType]
  BY <1>3, RowTable
<1>11. \A r \in Runs : /\ DOMAIN mine'[r] \subseteq Ids /\ mine'[r] \in [DOMAIN mine'[r] -> RowType]
                       /\ (Running(r)' \/ DOMAIN mine'[r] = {})
  BY <1>2, <1>4, RowTable DEF RunStep
<1>12. \A r \in Runs :
         Running(r)' => {run'[r].date, run'[r].entry} \subseteq Days /\ run'[r].conn # 0
  BY <1>2 DEF RunStep
<1> QED BY <1>2, <1>5, <1>6, <1>7, <1>8, <1>9, <1>10, <1>11, <1>12 DEF TypeOK

LEMMA BoundedStep ==
  ASSUME Inv, Groups, DOMAIN mine' = Runs
  PROVE  Bounded'
<1> USE DEF Inv, IInv
<1>1. PICK top \in Nat : \A i \in DOMAIN rows \cup AllDirty : i[2] <= top
  BY DEF Bounded
<1>2. ASSUME NEW t \in Nat,
             \A i \in DOMAIN rows' \cup AllDirty' : i \in DOMAIN rows \cup AllDirty \/ i[2] <= t,
             DOMAIN rows \cup AllDirty \subseteq Ids, DOMAIN rows' \cup AllDirty' \subseteq Ids
      PROVE  Bounded'
  <2> DEFINE u == IF t < top THEN top ELSE t
  <2>1. u \in Nat /\ top <= u /\ t <= u
    OBVIOUS
  <2> HIDE DEF u
  <2>2. ASSUME NEW i \in DOMAIN rows' \cup AllDirty'
        PROVE  i[2] <= u
    <3>1. i[2] \in Nat
      BY <1>2 DEF Ids
    <3>2. i[2] <= top \/ i[2] <= t
      BY <1>1, <1>2
    <3> QED BY <2>1, <3>1, <3>2
  <2> QED BY <2>1, <2>2 DEF Bounded
<1>3. DOMAIN rows \cup AllDirty \subseteq Ids
  BY DEF TypeOK, AllDirty
<1>4. DOMAIN rows' \cup AllDirty' \subseteq Ids
  <2>1. rows' \in RowTables /\ \A r \in Runs : mine'[r] \in RowTables
    BY RowsStep, LockedStep
  <2> QED BY <2>1, RowTable DEF AllDirty
<1>5. CASE Dropping \/ Rewriting
  <2>1. DOMAIN rows' \cup AllDirty' \subseteq DOMAIN rows \cup AllDirty
    BY <1>5, EmptyTable DEF Dropping, Rewriting, LaterTable, AllDirty
  <2> QED BY <1>2, <1>3, <1>4, <2>1
<1>6. ASSUME NEW r \in Runs, NEW t \in Nat, NEW D,
             \A i \in D : i[2] <= t,
             DOMAIN rows' \subseteq DOMAIN View(r) \cup D,
             DOMAIN mine'[r] \subseteq DOMAIN View(r) \cup D,
             \A o \in Runs \ {r} : mine'[o] = mine[o]
      PROVE  Bounded'
  <2>1. DOMAIN View(r) \subseteq DOMAIN rows \cup AllDirty
    <3>1. DOMAIN View(r) = DOMAIN mine[r] \cup DOMAIN rows
      BY ViewType
    <3> QED BY <3>1 DEF AllDirty
  <2>2. DOMAIN rows' \cup AllDirty' \subseteq DOMAIN rows \cup AllDirty \cup D
    BY <1>6, <2>1 DEF AllDirty
  <2> QED BY <1>2, <1>3, <1>4, <1>6, <2>2
<1>7. ASSUME NEW r \in Runs, Publishing(r)
      PROVE  Bounded'
  <2>1. PICK new : /\ new \in RowTables /\ (\E t \in Nat : \A i \in DOMAIN new : i[2] <= t)
                   /\ rows' = Over(new, View(r))
    BY <1>7 DEF Publishing
  <2>2. PICK t \in Nat : \A i \in DOMAIN new : i[2] <= t
    BY <2>1
  <2>3. DOMAIN rows' = DOMAIN new \cup DOMAIN View(r)
    BY <2>1 DEF Over
  <2>4. DOMAIN mine'[r] = {} /\ \A o \in Runs \ {r} : mine'[o] = mine[o]
    BY <1>7, EmptyTable DEF Publishing, TypeOK
  <2> QED BY <1>6, <2>2, <2>3, <2>4
<1>8. ASSUME NEW r \in Runs, Ignoring(r)
      PROVE  Bounded'
  <2>1. PICK S \in SUBSET DOMAIN View(r) : mine' = [mine EXCEPT ![r] = Over(Ignored(View(r), S), @)]
    BY <1>8 DEF Ignoring
  <2>2. DOMAIN mine'[r] = S \cup DOMAIN mine[r] /\ \A o \in Runs \ {r} : mine'[o] = mine[o]
    BY <2>1 DEF Over, Ignored, TypeOK
  <2>3. rows' = rows /\ DOMAIN View(r) = DOMAIN mine[r] \cup DOMAIN rows
    BY <1>8, ViewType DEF Ignoring
  <2> DEFINE D == {}
             t == 0
  <2>4. /\ DOMAIN rows' \subseteq DOMAIN View(r) \cup D
        /\ DOMAIN mine'[r] \subseteq DOMAIN View(r) \cup D
        /\ t \in Nat /\ \A i \in D : i[2] <= t
    BY <2>2, <2>3
  <2> HIDE DEF D, t
  <2> QED BY <1>6, <2>2, <2>4
<1>9. ASSUME NEW r \in Runs, Inserting(r)
      PROVE  Bounded'
  <2>1. CardId(r) \in Ids
    BY <1>9, CardType DEF Inserting, Tables, Running
  <2>2. CardId(r)[2] \in Nat
    BY <2>1 DEF Ids
  <2>3. mine' = [mine EXCEPT ![r] = Over([i \in {CardId(r)} |-> RowOf(Card(r), r)], @)]
    BY <1>9 DEF Inserting
  <2> HIDE DEF CardId
  <2>4. /\ DOMAIN mine'[r] = {CardId(r)} \cup DOMAIN mine[r]
        /\ \A o \in Runs \ {r} : mine'[o] = mine[o]
    BY <2>3 DEF Over, TypeOK
  <2>5. rows' = rows /\ DOMAIN View(r) = DOMAIN mine[r] \cup DOMAIN rows
    BY <1>9, ViewType DEF Inserting
  <2> DEFINE D == {CardId(r)}
             t == CardId(r)[2]
  <2>6. /\ DOMAIN rows' \subseteq DOMAIN View(r) \cup D
        /\ DOMAIN mine'[r] \subseteq DOMAIN View(r) \cup D
        /\ t \in Nat /\ \A i \in D : i[2] <= t
    BY <2>2, <2>4, <2>5
  <2> HIDE DEF D, t
  <2> QED BY <1>6, <2>4, <2>6
<1> QED BY <1>5, <1>7, <1>8, <1>9 DEF Groups

-----------------------------------------------------------------------------
(* How runs move on. *)

Onward(r) ==
  /\ run'[r].kind = run[r].kind /\ (run[r].cut # 0 => run'[r].cut # 0)
  /\ run'[r].pc = "new" <=> run[r].pc = "new"
  /\ run'[r].pc = "evaluate" => run[r].pc = "evaluate"
  /\ Running(r)' => Running(r)

LEMMA OnwardSame ==
  ASSUME NEW r \in Runs, run'[r] = run[r]
  PROVE  Onward(r)
  BY DEF Onward, Running

LEMMA OnwardOne ==
  ASSUME TypeOK, NEW r \in Runs, Running(r), NEW x, run' = [run EXCEPT ![r] = x],
         x.kind = run[r].kind, run[r].cut # 0 => x.cut # 0,
         x.pc \notin {"new", "evaluate"} \/ x.pc = run[r].pc
  PROVE  \A o \in Runs : Onward(o)
<1>1. run'[r] = x /\ \A o \in Runs \ {r} : run'[o] = run[o]
  BY DEF TypeOK
<1>2. Onward(r)
  BY <1>1 DEF Onward, Running
<1> QED BY <1>1, <1>2, OnwardSame

\* A run starts, or all runs go onward.
LEMMA OnwardStep ==
  ASSUME Inv, Next
  PROVE  \/ met' = met /\ \A r \in Runs : Onward(r)
         \/ \E r \in Runs, k \in RunKinds : Start(r, k)
<1> USE DEF Inv, IInv
<1> DEFINE Goal == met' = met /\ \A r \in Runs : Onward(r)
<1>1. run \in [Runs -> RunType] /\ DOMAIN run = Runs /\ \A r \in Runs : run[r].cut \in 0 .. 4
  BY DEF TypeOK, RunType
<1>2. CASE UNCHANGED <<run, met>>
  BY <1>2, OnwardSame
<1>3. ASSUME NEW r \in Runs, Fails(r), Running(r), UNCHANGED met
      PROVE  Goal
  <2> DEFINE x == [Idle EXCEPT !.pc = "failed", !.kind = run[r].kind, !.cut = run[r].cut]
  <2>1. x.kind = run[r].kind /\ x.cut = run[r].cut /\ x.pc = "failed"
    BY DEF Idle
  <2>2. run' = [run EXCEPT ![r] = x]
    BY <1>3 DEF Fails
  <2> HIDE DEF x
  <2> QED BY <1>3, <2>1, <2>2, OnwardOne
<1>4. ASSUME NEW r \in Runs, Evaluate(r)
      PROVE  Goal
  <2> DEFINE plan == run[r].outlook[IF run[r].kind = "live" THEN "live" ELSE "close"]
             x == [run[r] EXCEPT !.pc = "persist", !.first = NextSeq(r),
                                !.queue = plan.queue, !.sits = plan.sits, !.outlook = Idle.outlook]
  <2>1. run' = [run EXCEPT ![r] = x] /\ met' = met /\ Running(r)
    BY <1>4 DEF Evaluate, Running
  <2> HIDE DEF plan
  <2>2. x.kind = run[r].kind /\ x.cut = run[r].cut /\ x.pc = "persist"
    BY <1>1 DEF RunType
  <2> HIDE DEF x
  <2> QED BY <2>1, <2>2, OnwardOne
<1>5. ASSUME NEW r \in Runs, Running(r), UNCHANGED met,
             \/ run' = [run EXCEPT ![r].queue = Tail(@)]
             \/ run' = [run EXCEPT ![r].pc = "insert"]
             \/ run' = [run EXCEPT ![r].pc = "persist", ![r].queue = Tail(@)]
             \/ run' = [run EXCEPT ![r].sits = 0]
             \/ \E c \in 1 .. 4 : run' = [run EXCEPT ![r].cut = c]
      PROVE  Goal
  <2>1. /\ run'[r].kind = run[r].kind /\ (run[r].cut # 0 => run'[r].cut # 0)
        /\ run'[r].pc \in {run[r].pc, "insert", "persist"}
        /\ \A o \in Runs \ {r} : run'[o] = run[o]
    <3>1. CASE run' = [run EXCEPT ![r].queue = Tail(@)]
      BY <1>1, <3>1 DEF RunType
    <3>2. CASE run' = [run EXCEPT ![r].pc = "insert"]
      BY <1>1, <3>2 DEF RunType
    <3>3. CASE run' = [run EXCEPT ![r].pc = "persist", ![r].queue = Tail(@)]
      BY <1>1, <3>3 DEF RunType
    <3>4. CASE run' = [run EXCEPT ![r].sits = 0]
      BY <1>1, <3>4 DEF RunType
    <3>5. ASSUME NEW c \in 1 .. 4, run' = [run EXCEPT ![r].cut = c]
          PROVE  /\ run'[r].kind = run[r].kind /\ (run[r].cut # 0 => run'[r].cut # 0)
                 /\ run'[r].pc = run[r].pc /\ \A o \in Runs \ {r} : run'[o] = run[o]
      BY <1>1, <3>5 DEF RunType
    <3> QED BY <1>5, <3>1, <3>2, <3>3, <3>4, <3>5
  <2>2. Onward(r)
    BY <1>5, <2>1 DEF Onward, Running
  <2> QED BY <1>5, <2>1, <2>2, OnwardSame
<1>6. ASSUME NEW r \in Runs, Replace(r)
      PROVE  Goal
  BY <1>5, <1>6 DEF Replace, Running
<1>7. ASSUME NEW r \in Runs, Insert(r)
      PROVE  Goal
  BY <1>3, <1>5, <1>7 DEF Insert, Running
<1>8. ASSUME NEW r \in Runs, Commit(r)
      PROVE  Goal
  <2> DEFINE x == [Idle EXCEPT !.pc = "done", !.kind = run[r].kind, !.cut = run[r].cut]
  <2>1. x.kind = run[r].kind /\ x.cut = run[r].cut /\ x.pc = "done"
    BY DEF Idle
  <2>2. run' = [run EXCEPT ![r] = x] /\ Running(r) /\ met' = met
    BY <1>8 DEF Commit, Running
  <2> HIDE DEF x
  <2> QED BY <2>1, <2>2, OnwardOne
<1>9. ASSUME NEW r \in Runs, LockTimeout(r)
      PROVE  Goal
  <2>1. Running(r) /\ UNCHANGED met
    BY <1>9 DEF LockTimeout, Blocked, Running
  <2> QED BY <1>3, <1>5, <1>9, <2>1 DEF LockTimeout
<1>10. ASSUME NEW r \in Runs, Cut(r) \/ RollBackCut(r) \/ ReportCut(r) \/ CloseCut(r)
       PROVE  Goal
  <2>1. Running(r) /\ UNCHANGED met
    BY <1>10 DEF Cut, RollBackCut, ReportCut, CloseCut
  <2>2. Fails(r) \/ \E c \in 1 .. 4 : run' = [run EXCEPT ![r].cut = c]
    BY <1>10 DEF Cut, RollBackCut, ReportCut, CloseCut
  <2> QED BY <1>3, <1>5, <2>1, <2>2
<1>11. CASE Restart
  <2>1. UNCHANGED met
    BY <1>11 DEF Restart
  <2>2. ASSUME NEW r \in Runs
        PROVE  Onward(r)
    <3>1. CASE ~Running(r)
      BY <1>11, <3>1, OnwardSame DEF Restart
    <3>2. CASE Running(r)
      <4>1. run'[r] = [Idle EXCEPT !.pc = "failed", !.kind = run[r].kind, !.cut = run[r].cut]
        BY <1>11, <3>2 DEF Restart
      <4>2. run'[r].kind = run[r].kind /\ run'[r].cut = run[r].cut /\ run'[r].pc = "failed"
        BY <4>1 DEF Idle
      <4> QED BY <3>2, <4>2 DEF Onward, Running
    <3> QED BY <3>1, <3>2
  <2> QED BY <2>1, <2>2
<1>12. CASE \/ CheckReads \/ CheckWrites \/ Revalidate \/ NewDay
            \/ \E i \in DOMAIN rows, what \in {"EXECUTED", "IGNORED"} : Choose(i, what)
            \/ \E q \in Requests : Confirm(q) \/ Refused(q)
  BY <1>2, <1>12 DEF CheckReads, CheckWrites, Revalidate, Confirm, Refused, NewDay, Choose
<1> QED BY <1>4, <1>6, <1>7, <1>8, <1>9, <1>10, <1>11, <1>12 DEF Next, Engine, Timeout

\* Of a start.
LEMMA StartRun ==
  ASSUME TypeOK, NEW r \in Runs, NEW k \in RunKinds, Start(r, k)
  PROVE  /\ run[r].pc = "new" /\ run'[r].pc = "evaluate" /\ run'[r].cut = run[r].cut
         /\ run'[r].queue = run[r].queue /\ run'[r].outlook = run[r].outlook
         /\ \A o \in Runs \ {r} : run'[o] = run[o]
         /\ met'[r] = {p \in Runs : Running(p)}
         /\ \A o \in Runs \ {r} : met'[o] = IF Running(o) THEN met[o] \cup {r} ELSE met[o]
<1>1. PICK c \in 1 .. r :
        run' = [run EXCEPT ![r] = [@ EXCEPT !.pc = "evaluate", !.kind = k,
                  !.date = DateOf(k), !.entry = EntryOf(k), !.conn = c]]
  BY DEF Start
<1>2. run \in [Runs -> RunType]
  BY DEF TypeOK
<1>3. /\ run'[r].pc = "evaluate" /\ run'[r].cut = run[r].cut /\ run'[r].queue = run[r].queue
      /\ run'[r].outlook = run[r].outlook /\ \A o \in Runs \ {r} : run'[o] = run[o]
  BY <1>1, <1>2 DEF RunType
<1> QED BY <1>3 DEF Start

LEMMA GrowsStep ==
  ASSUME Inv, Next, NEW r \in Runs, run[r].pc # "new"
  PROVE  Grows(r, run, met, run', met')
<1> USE DEF Inv, IInv
<1>1. CASE met' = met /\ \A o \in Runs : Onward(o)
  BY <1>1 DEF Grows, Onward
<1>2. ASSUME NEW o \in Runs, NEW k \in RunKinds, Start(o, k)
      PROVE  Grows(r, run, met, run', met')
  <2>1. r # o /\ run'[r] = run[r] /\ met[r] \subseteq met'[r]
    BY <1>2, StartRun
  <2> QED BY <2>1 DEF Grows
<1> QED BY <1>1, <1>2, OnwardStep

LEMMA MetStep ==
  ASSUME Inv, Next
  PROVE  Met'
<1> USE DEF Inv, IInv
<1>1. CASE met' = met /\ \A r \in Runs : Onward(r)
  BY <1>1 DEF Met, Onward
<1>2. ASSUME NEW r \in Runs, NEW k \in RunKinds, Start(r, k)
      PROVE  Met'
  <2>1. /\ run[r].pc = "new" /\ run'[r].pc = "evaluate"
        /\ \A o \in Runs \ {r} : run'[o] = run[o]
        /\ met'[r] = {p \in Runs : Running(p)}
        /\ \A o \in Runs \ {r} : met'[o] = IF Running(o) THEN met[o] \cup {r} ELSE met[o]
    BY <1>2, StartRun
  <2>2. ~Running(r) /\ met[r] = {} /\ \A o \in Runs : r \notin met[o]
    BY <2>1 DEF Running, Met, TypeOK
  <2>3. \A o \in Runs \ {r} : Running(o)' = Running(o)
    BY <2>1 DEF Running
  <2>4. ASSUME NEW p \in Runs, NEW o \in Runs, o \in met'[p]
        PROVE  p \in met'[o] /\ run'[p].pc # "new"
    <3>1. CASE p = r
      BY <2>1, <2>2, <2>4, <3>1 DEF Running
    <3>2. CASE p # r /\ o = r
      <4>1. Running(p)
        BY <2>1, <2>2, <2>4, <3>2
      <4> QED BY <2>1, <3>2, <4>1 DEF Running
    <3>3. CASE p # r /\ o # r
      <4>1. o \in met[p]
        BY <2>1, <2>4, <3>3
      <4>2. p \in met[o] /\ run[p].pc # "new"
        BY <4>1 DEF Met
      <4> QED BY <2>1, <3>3, <4>2
    <3> QED BY <3>1, <3>2, <3>3
  <2>5. ASSUME NEW p \in Runs, NEW o \in Runs, Running(p)', Running(o)', p # o
        PROVE  o \in met'[p]
    <3>1. CASE p = r
      BY <2>1, <2>3, <2>5, <3>1
    <3>2. CASE p # r /\ o = r
      BY <2>1, <2>3, <2>5, <3>2
    <3>3. CASE p # r /\ o # r
      <4>1. o \in met[p]
        BY <2>3, <2>5, <3>3 DEF Met
      <4> QED BY <2>1, <3>3, <4>1
    <3> QED BY <3>1, <3>2, <3>3
  <2> QED BY <2>4, <2>5 DEF Met
<1> QED BY <1>1, <1>2, OnwardStep

LEMMA WrittenStep ==
  ASSUME Inv, Next, Groups
  PROVE  WrittenLate'
<1> USE DEF Inv, IInv
<1>1. ASSUME NEW r \in Runs, run[r].pc \notin {"new", "evaluate"}
      PROVE  run'[r].pc \notin {"new", "evaluate"}
  <2>1. CASE \A o \in Runs : Onward(o)
    BY <1>1, <2>1 DEF Onward
  <2>2. ASSUME NEW o \in Runs, NEW k \in RunKinds, Start(o, k)
        PROVE  run'[r].pc \notin {"new", "evaluate"}
    BY <1>1, <2>2, StartRun
  <2> QED BY <2>1, <2>2, OnwardStep
<1>2. ASSUME NEW i \in DOMAIN rows'
      PROVE  run'[rows'[i].run].pc \notin {"new", "evaluate"}
  <2>1. CASE i \in DOMAIN rows
    <3>1. rows[i] \in RowType /\ Later(rows[i], rows'[i])
      BY <2>1, RowsStep DEF TypeOK
    <3>2. rows'[i].run = rows[i].run /\ rows[i].run \in Runs
      BY <3>1, LaterFields DEF RowType
    <3> QED BY <1>1, <2>1, <3>2 DEF WrittenLate
  <2>2. ASSUME NEW r \in Runs, Publishing(r), i \notin DOMAIN rows
        PROVE  run'[rows'[i].run].pc \notin {"new", "evaluate"}
    <3>1. PICK new : /\ new \in RowTables /\ DOMAIN new \cap (DOMAIN View(r) \cup Dirty(r)) = {}
                     /\ \A j \in DOMAIN new : new[j] = SitOutRow(r)
                     /\ run[r].pc = "persist" \/ DOMAIN new = {}
                     /\ rows' = Over(new, View(r))
      BY <2>2 DEF Publishing
    <3>2. View(r) \in RowTables /\ Running(r)
      BY <2>2, ViewType DEF Publishing
    <3>3. CASE i \in DOMAIN new
      <4>1. rows'[i] = SitOutRow(r) /\ run[r].pc = "persist"
        BY <3>1, <3>2, <3>3, OverTable
      <4> QED BY <1>1, <4>1, SitOutType
    <3>4. CASE i \notin DOMAIN new
      <4>1. i \in DOMAIN View(r) /\ rows'[i] = View(r)[i]
        <5>1. /\ DOMAIN Over(new, View(r)) = DOMAIN new \cup DOMAIN View(r)
              /\ \A j \in DOMAIN View(r) : j \notin DOMAIN new => Over(new, View(r))[j] = View(r)[j]
          BY <3>1, <3>2, OverTable
        <5> QED BY <1>2, <3>1, <3>4, <5>1
      <4>2. i \in DOMAIN mine[r] /\ View(r)[i].run = r
        BY <2>2, <4>1, ViewRows
      <4>3. run[r].pc \notin {"new", "evaluate"}
        BY <2>2, <3>2, <4>2 DEF WrittenLate, Running
      <4> QED BY <1>1, <4>1, <4>2, <4>3
    <3> QED BY <3>3, <3>4
  <2>3. CASE DOMAIN rows' = DOMAIN rows
    BY <1>2, <2>1, <2>3
  <2> QED BY <2>1, <2>2, <2>3
        DEF Groups, Dropping, Rewriting, LaterTable, Ignoring, Inserting
<1>3. ASSUME NEW r \in Runs, run'[r].pc = "evaluate"
      PROVE  DOMAIN mine'[r] \subseteq DOMAIN rows'
  <2>1. run[r].pc \in {"new", "evaluate"}
    BY <1>1, <1>3
  <2>2. DOMAIN mine[r] \subseteq DOMAIN rows /\ DOMAIN rows \subseteq DOMAIN rows'
    BY <2>1, RowsStep DEF WrittenLate, TypeOK, Running
  <2>3. CASE Dropping \/ Rewriting
    BY <2>2, <2>3, EmptyTable DEF Dropping, Rewriting
  <2>4. ASSUME NEW o \in Runs, Publishing(o) \/ Ignoring(o) \/ Inserting(o)
        PROVE  DOMAIN mine'[r] \subseteq DOMAIN rows'
    <3>1. CASE r # o
      BY <2>2, <2>4, <3>1 DEF Publishing, Ignoring, Inserting, TypeOK
    <3>2. CASE r = o /\ Publishing(o)
      BY <3>2, EmptyTable DEF Publishing, TypeOK
    <3>3. CASE r = o /\ Ignoring(o)
      <4>1. PICK S \in SUBSET DOMAIN View(r) :
              mine' = [mine EXCEPT ![r] = Over(Ignored(View(r), S), @)]
        BY <3>3 DEF Ignoring
      <4>2. DOMAIN mine'[r] = S \cup DOMAIN mine[r]
        BY <4>1 DEF Over, Ignored, TypeOK
      <4> QED BY <2>2, <4>2, ViewType
    <3>4. CASE r = o /\ Inserting(o)
      BY <2>1, <3>4 DEF Inserting
    <3> QED BY <2>4, <3>1, <3>2, <3>3, <3>4
  <2> QED BY <2>3, <2>4 DEF Groups
<1> QED BY <1>2, <1>3 DEF WrittenLate

-----------------------------------------------------------------------------
(* What each run sees after a step. *)

LEMMA NextViewType ==
  ASSUME Inv, Groups, DOMAIN mine' = Runs, NEW r \in Runs
  PROVE  /\ View(r)' \in RowTables /\ DOMAIN View(r)' = DOMAIN mine'[r] \cup DOMAIN rows'
         /\ \A i \in DOMAIN mine'[r] : View(r)'[i] = mine'[r][i]
         /\ \A i \in DOMAIN rows' : i \notin DOMAIN mine'[r] => View(r)'[i] = rows'[i]
<1>1. rows' \in RowTables /\ mine'[r] \in RowTables
  BY RowsStep, LockedStep
<1> QED BY <1>1, OverTable DEF View

\* Nothing is taken back from the rows a run sees.
LEMMA ViewDropping ==
  ASSUME Inv, Dropping, DOMAIN mine' = Runs, NEW r \in Runs
  PROVE  IF mine'[r] = mine[r] THEN View(r)' = View(r) ELSE View(r)' = rows
<1> USE DEF Inv, IInv
<1>1. CASE mine'[r] = mine[r]
  BY <1>1 DEF Dropping, View
<1>2. CASE mine'[r] # mine[r]
  <2>1. mine'[r] = Empty /\ rows' = rows
    BY <1>2 DEF Dropping
  <2>2. rows \in RowTables
    BY ViewType
  <2>3. Over(Empty, rows) = rows
    BY <2>2, EmptyTable, OverEmpty
  <2> QED BY <1>2, <2>1, <2>3 DEF View
<1> QED BY <1>1, <1>2

LEMMA ViewRewriting ==
  ASSUME Inv, Rewriting, DOMAIN mine' = Runs, NEW r \in Runs
  PROVE  LaterTable(View(r), View(r)')
<1> USE DEF Inv, IInv
<1>1. /\ mine' = mine /\ DOMAIN rows' = DOMAIN rows
      /\ \A i \in DOMAIN rows : Later(rows[i], rows'[i])
  BY DEF Rewriting, LaterTable
<1>2. /\ DOMAIN View(r)' = DOMAIN mine[r] \cup DOMAIN rows
      /\ \A i \in DOMAIN mine[r] : View(r)'[i] = mine[r][i]
      /\ \A i \in DOMAIN rows : i \notin DOMAIN mine[r] => View(r)'[i] = rows'[i]
  BY <1>1, NextViewType DEF Groups
<1>3. /\ DOMAIN View(r) = DOMAIN mine[r] \cup DOMAIN rows
      /\ \A i \in DOMAIN mine[r] : View(r)[i] = mine[r][i]
      /\ \A i \in DOMAIN rows : i \notin DOMAIN mine[r] => View(r)[i] = rows[i]
  BY ViewType
<1>4. ASSUME NEW i \in DOMAIN View(r)
      PROVE  Later(View(r)[i], View(r)'[i])
  <2>1. CASE i \in DOMAIN mine[r]
    BY <1>2, <1>3, <2>1 DEF Later
  <2>2. CASE i \notin DOMAIN mine[r]
    BY <1>1, <1>2, <1>3, <1>4, <2>2
  <2> QED BY <2>1, <2>2
<1> QED BY <1>2, <1>3, <1>4 DEF LaterTable

LEMMA ViewOthers ==
  ASSUME Inv, NEW r \in Runs, NEW o \in Runs, r # o, Ignoring(o) \/ Inserting(o)
  PROVE  View(r)' = View(r)
<1> USE DEF Inv, IInv
<1>1. rows' = rows /\ mine'[r] = mine[r]
  BY DEF Ignoring, Inserting, TypeOK
<1> QED BY <1>1 DEF View

LEMMA ViewIgnoring ==
  ASSUME Inv, NEW r \in Runs, Ignoring(r)
  PROVE  LaterTable(View(r), View(r)')
<1> USE DEF Inv, IInv
<1>1. PICK S \in SUBSET DOMAIN View(r) :
        /\ \A i \in S : View(r)[i].status = "PENDING"
        /\ mine' = [mine EXCEPT ![r] = Over(Ignored(View(r), S), @)]
  BY DEF Ignoring
<1>2. rows' = rows /\ mine'[r] = Over(Ignored(View(r), S), mine[r])
  BY <1>1 DEF Ignoring, TypeOK
<1>3. View(r)' = Over(Ignored(View(r), S), View(r))
  BY <1>2 DEF View, Over
<1>4. View(r) \in RowTables
  BY ViewType
<1>5. \A i \in S : IsCard(View(r)[i])
  BY <1>1 DEF IsCard
<1> QED BY <1>3, <1>4, <1>5, IgnoredLater

LEMMA ViewInserting ==
  ASSUME Inv, NEW r \in Runs, Inserting(r)
  PROVE  /\ DOMAIN View(r)' = DOMAIN View(r) \cup {CardId(r)}
         /\ View(r)'[CardId(r)] = RowOf(Card(r), r)
         /\ \A i \in DOMAIN View(r) : i # CardId(r) => View(r)'[i] = View(r)[i]
<1> USE DEF Inv, IInv
<1> DEFINE new == [i \in {CardId(r)} |-> RowOf(Card(r), r)]
<1>1. rows' = rows /\ mine'[r] = Over(new, mine[r])
  BY DEF Inserting, TypeOK
<1>2. View(r)' = Over(new, View(r))
  BY <1>1 DEF View, Over
<1> HIDE DEF CardId, RowOf
<1>3. DOMAIN new = {CardId(r)} /\ new[CardId(r)] = RowOf(Card(r), r)
  OBVIOUS
<1> HIDE DEF new
<1> QED BY <1>2, <1>3 DEF Over

LEMMA PublishedRows ==
  ASSUME Inv, NEW o \in Runs, Publishing(o)
  PROVE  /\ DOMAIN View(o) \subseteq DOMAIN rows'
         /\ \A i \in DOMAIN View(o) : rows'[i] = View(o)[i]
         /\ \A i \in DOMAIN rows' : i \notin DOMAIN View(o) =>
              /\ rows'[i] = SitOutRow(o) /\ ~IsCard(rows'[i])
              /\ rows'[i].run = o /\ i \notin Dirty(o)
<1> USE DEF Inv, IInv
<1>1. PICK new : /\ new \in RowTables /\ DOMAIN new \cap (DOMAIN View(o) \cup Dirty(o)) = {}
                 /\ \A i \in DOMAIN new : new[i] = SitOutRow(o)
                 /\ rows' = Over(new, View(o))
  BY DEF Publishing
<1>2. View(o) \in RowTables
  BY ViewType
<1>3. /\ DOMAIN rows' = DOMAIN new \cup DOMAIN View(o)
      /\ \A i \in DOMAIN new : rows'[i] = new[i]
      /\ \A i \in DOMAIN View(o) : i \notin DOMAIN new => rows'[i] = View(o)[i]
  BY <1>1, <1>2, OverTable
<1>4. \A i \in DOMAIN new : /\ new[i] = SitOutRow(o) /\ ~IsCard(new[i]) /\ new[i].run = o
                            /\ i \notin Dirty(o)
  BY <1>1, SitOutType
<1> QED BY <1>1, <1>3, <1>4

\* A row seen by another run while one publishes: it was seen before, or is seen by
\* the run that publishes, and is compatible with what either saw.
LEMMA ViewPublishing ==
  ASSUME Inv, NEW o \in Runs, Publishing(o), DOMAIN mine' = Runs, NEW r \in Runs, r # o,
         NEW i \in DOMAIN View(r)'
  PROVE  \/ ~IsCard(View(r)'[i])
         \/ /\ i \in DOMAIN View(r) /\ Later(View(r)[i], View(r)'[i])
            /\ i \in DOMAIN View(o) /\ Later(View(o)[i], View(r)'[i])
         \/ /\ i \in DOMAIN View(r) /\ Later(View(r)[i], View(r)'[i])
            /\ View(r)'[i].run = r /\ Running(r)
         \/ /\ i \in DOMAIN View(o) /\ Later(View(o)[i], View(r)'[i])
            /\ View(r)'[i].run = o /\ Running(o)
<1> USE DEF Inv, IInv
<1>1. mine'[r] = mine[r] /\ Running(o)
  BY DEF Publishing, TypeOK
<1>2. /\ DOMAIN View(r)' = DOMAIN mine[r] \cup DOMAIN rows'
      /\ \A j \in DOMAIN mine[r] : View(r)'[j] = mine[r][j]
      /\ \A j \in DOMAIN rows' : j \notin DOMAIN mine[r] => View(r)'[j] = rows'[j]
  BY <1>1, NextViewType, ZenonT(90) DEF Groups
<1>3. /\ DOMAIN View(r) = DOMAIN mine[r] \cup DOMAIN rows
      /\ \A j \in DOMAIN mine[r] : View(r)[j] = mine[r][j]
      /\ \A j \in DOMAIN rows : j \notin DOMAIN mine[r] => View(r)[j] = rows[j]
  BY ViewType
<1>4. /\ DOMAIN View(o) = DOMAIN mine[o] \cup DOMAIN rows
      /\ \A j \in DOMAIN rows : j \notin DOMAIN mine[o] => View(o)[j] = rows[j]
  BY ViewType
<1>5. DOMAIN mine[r] \cap DOMAIN mine[o] = {}
  BY Disjoint
<1>6. CASE i \in DOMAIN mine[r] /\ i \in DOMAIN rows
  <2>1. View(r)'[i] = View(r)[i] /\ View(o)[i] = rows[i]
    BY <1>2, <1>3, <1>4, <1>5, <1>6
  <2>2. Later(rows[i], View(r)[i])
    BY <1>6, ViewRows
  <2> QED BY <1>3, <1>4, <1>6, <2>1, <2>2 DEF Later
<1>7. CASE i \in DOMAIN mine[r] /\ i \notin DOMAIN rows
  <2>1. View(r)'[i] = View(r)[i] /\ i \in DOMAIN View(r)
    BY <1>2, <1>3, <1>7
  <2>2. View(r)[i].run = r
    BY <1>7, <2>1, ViewRows
  <2>3. Running(r)
    BY <1>7 DEF TypeOK
  <2> QED BY <2>1, <2>2, <2>3 DEF Later
<1>8. CASE i \notin DOMAIN mine[r] /\ i \in DOMAIN rows
  <2>1. i \in DOMAIN View(o) /\ i \in DOMAIN View(r) /\ View(r)[i] = rows[i]
    BY <1>3, <1>4, <1>8
  <2>2. i \in DOMAIN rows' /\ rows'[i] = View(o)[i]
    BY <2>1, PublishedRows
  <2>3. View(r)'[i] = View(o)[i]
    BY <1>2, <1>8, <2>2
  <2>4. Later(rows[i], View(o)[i])
    BY <1>8, ViewRows
  <2> QED BY <2>1, <2>3, <2>4 DEF Later
<1>9. CASE i \notin DOMAIN mine[r] /\ i \notin DOMAIN rows /\ i \in DOMAIN View(o)
  <2>1. rows'[i] = View(o)[i] /\ i \in DOMAIN rows'
    BY <1>9, PublishedRows
  <2>2. View(r)'[i] = View(o)[i]
    BY <1>2, <1>9, <2>1
  <2>3. View(o)[i].run = o
    BY <1>9, ViewRows
  <2> QED BY <1>1, <1>9, <2>2, <2>3 DEF Later
<1>10. CASE i \notin DOMAIN mine[r] /\ i \notin DOMAIN View(o)
  <2>1. i \in DOMAIN rows' /\ View(r)'[i] = rows'[i]
    BY <1>2, <1>10
  <2> QED BY <1>10, <2>1, PublishedRows
<1> QED BY <1>6, <1>7, <1>8, <1>9, <1>10

-----------------------------------------------------------------------------
(* The rows stay compatible. *)

LEMMA GrowsSeen ==
  ASSUME Inv, Next, NEW r \in Runs
  PROVE  /\ \A i \in DOMAIN View(r) : Grows(View(r)[i].run, run, met, run', met')
         /\ \A i \in DOMAIN rows : Grows(rows[i].run, run, met, run', met')
<1> USE DEF Inv, IInv
<1>1. \A i \in DOMAIN View(r) : Grows(View(r)[i].run, run, met, run', met')
  BY ViewStarted, GrowsStep
<1>2. \A i \in DOMAIN rows : rows[i].run \in Runs /\ run[rows[i].run].pc # "new"
  BY DEF WrittenLate, TypeOK, RowType
<1> QED BY <1>1, <1>2, GrowsStep

\* Two rows one run sees are compatible after a step, whatever the step did to them.
LEMMA SeenCompatible ==
  ASSUME Inv, Next, NEW r \in Runs, NEW i \in DOMAIN View(r), NEW j \in DOMAIN View(r), i # j,
         NEW v, NEW w, Later(View(r)[i], v), Later(View(r)[j], w)
  PROVE  Compatible(v, w, run', met')
<1> USE DEF Inv, IInv
<1>1. View(r)[i] \in RowType /\ View(r)[j] \in RowType
  BY ViewType, RowTable
<1>2. Compatible(View(r)[i], View(r)[j], run, met)
  BY DEF Tables, AllCompatible
<1>3. /\ Grows(View(r)[i].run, run, met, run', met')
      /\ Grows(View(r)[j].run, run, met, run', met')
  BY GrowsSeen
<1> QED BY <1>1, <1>2, <1>3, CompatibleLater

LEMMA RowsCompatible ==
  ASSUME Inv, Next, Groups
  PROVE  AllCompatible(rows', run', met')
<1> USE DEF Inv, IInv
<1>1. rows \in RowTables /\ AllCompatible(rows, run, met)
  BY RowTable DEF TypeOK, Tables
<1>2. CASE LaterTable(rows, rows')
  <2>1. \A i \in DOMAIN rows : rows[i].run \in Runs /\ run[rows[i].run].pc # "new"
    BY DEF WrittenLate, TypeOK, RowType
  <2>2. \A i \in DOMAIN rows : Grows(rows[i].run, run, met, run', met')
    BY <2>1, GrowsStep
  <2> QED BY <1>1, <1>2, <2>2, AllCompatibleLater
<1>3. ASSUME NEW o \in Runs, Publishing(o)
      PROVE  AllCompatible(rows', run', met')
  <2> SUFFICES ASSUME NEW i \in DOMAIN rows', NEW j \in DOMAIN rows', i # j
               PROVE  Compatible(rows'[i], rows'[j], run', met')
    BY DEF AllCompatible
  <2>1. CASE i \in DOMAIN View(o) /\ j \in DOMAIN View(o)
    <3>1. Later(View(o)[i], rows'[i]) /\ Later(View(o)[j], rows'[j])
      BY <1>3, <2>1, PublishedRows DEF Later
    <3> QED BY <2>1, <3>1, SeenCompatible
  <2>2. CASE i \notin DOMAIN View(o) \/ j \notin DOMAIN View(o)
    <3>1. ~IsCard(rows'[i]) \/ ~IsCard(rows'[j])
      BY <1>3, <2>2, PublishedRows
    <3> QED BY <3>1 DEF Compatible
  <2> QED BY <2>1, <2>2
<1>4. CASE rows' = rows
  BY <1>2, <1>4, LaterTableSame
<1> QED BY <1>2, <1>3, <1>4 DEF Groups, Dropping, Rewriting, Ignoring, Inserting

LEMMA ViewsCompatible ==
  ASSUME Inv, Next, Groups, DOMAIN mine' = Runs, NEW r \in Runs
  PROVE  AllCompatible(View(r)', run', met')
<1> USE DEF Inv, IInv
<1>1. CASE LaterTable(View(r), View(r)')
  <2>1. View(r) \in RowTables /\ AllCompatible(View(r), run, met)
    BY ViewType DEF Tables
  <2>2. \A i \in DOMAIN View(r) : Grows(View(r)[i].run, run, met, run', met')
    BY GrowsSeen
  <2> QED BY <1>1, <2>1, <2>2, AllCompatibleLater
<1>2. CASE View(r)' = View(r)
  BY <1>1, <1>2, LaterTableSame
<1>3. CASE View(r)' = rows'
  BY <1>3, RowsCompatible
<1>4. CASE Dropping
  BY <1>2, <1>3, <1>4, ViewDropping DEF Dropping
<1>5. CASE Rewriting
  BY <1>1, <1>5, ViewRewriting
<1>6. ASSUME NEW o \in Runs, Ignoring(o)
      PROVE  AllCompatible(View(r)', run', met')
  BY <1>1, <1>2, <1>6, ViewOthers, ViewIgnoring
<1>7. CASE Inserting(r)
  <2> DEFINE c == RowOf(Card(r), r)
             k == CardId(r)
  <2>1. /\ DOMAIN View(r)' = DOMAIN View(r) \cup {k} /\ View(r)'[k] = c
        /\ \A i \in DOMAIN View(r) : i # k => View(r)'[i] = View(r)[i]
    BY <1>7, ViewInserting
  <2>2. k \notin DOMAIN View(r) /\ run[r].pc = "insert"
    BY <1>7 DEF Inserting
  <2>3. c \in RowType /\ c.run = r /\ run[r].queue # <<>>
    BY <2>2, CardType DEF Tables, Running
  <2>4. \A i \in DOMAIN View(r) : Compatible(View(r)[i], c, run, met)
    BY <2>2 DEF Tables
  <2> HIDE DEF c, k
  <2>5. Grows(c.run, run, met, run', met')
    BY <2>2, <2>3, GrowsStep
  <2>6. Later(c, c)
    BY DEF Later
  <2>7. ASSUME NEW i \in DOMAIN View(r)
        PROVE  /\ Compatible(View(r)'[i], c, run', met') /\ Compatible(c, View(r)'[i], run', met')
    <3>1. /\ View(r)[i] \in RowType /\ Later(View(r)[i], View(r)'[i])
          /\ Grows(View(r)[i].run, run, met, run', met') /\ View(r)'[i] \in RowType
      <4>1. View(r)[i] \in RowType /\ View(r)'[i] = View(r)[i]
        BY <2>1, <2>2, ViewType, RowTable, ZenonT(60)
      <4> QED BY <4>1, GrowsSeen DEF Later
    <3>2. Compatible(View(r)'[i], c, run', met')
      BY <2>3, <2>4, <2>5, <2>6, <3>1, CompatibleLater
    <3>3. \A p, o \in Runs : o \in met'[p] => p \in met'[o]
      BY MetStep DEF Met
    <3> QED BY <2>3, <3>1, <3>2, <3>3, CompatibleSymmetric
  <2> SUFFICES ASSUME NEW i \in DOMAIN View(r)', NEW j \in DOMAIN View(r)', i # j
               PROVE  Compatible(View(r)'[i], View(r)'[j], run', met')
    BY DEF AllCompatible
  <2>8. CASE i \in DOMAIN View(r) /\ j \in DOMAIN View(r)
    <3>1. Later(View(r)[i], View(r)'[i]) /\ Later(View(r)[j], View(r)'[j])
      BY <2>1, <2>2, <2>8 DEF Later
    <3> QED BY <2>8, <3>1, SeenCompatible
  <2>9. CASE i = k \/ j = k
    BY <2>1, <2>2, <2>7, <2>9
  <2> QED BY <2>1, <2>8, <2>9
<1>8. CASE Publishing(r)
  <2>1. mine'[r] = Empty /\ rows' \in RowTables
    BY <1>8, RowsStep DEF Publishing, TypeOK
  <2>2. View(r)' = Over(Empty, rows')
    BY <2>1 DEF View
  <2> QED BY <1>3, <2>1, <2>2, EmptyTable, OverEmpty
<1>9. ASSUME NEW o \in Runs, Publishing(o), r # o
      PROVE  AllCompatible(View(r)', run', met')
  <2> SUFFICES ASSUME NEW i \in DOMAIN View(r)', NEW j \in DOMAIN View(r)', i # j
               PROVE  Compatible(View(r)'[i], View(r)'[j], run', met')
    BY DEF AllCompatible
  <2> DEFINE Here(n) == n \in DOMAIN View(r) /\ Later(View(r)[n], View(r)'[n])
             There(n) == n \in DOMAIN View(o) /\ Later(View(o)[n], View(r)'[n])
             Both(n) == \/ ~IsCard(View(r)'[n])
                        \/ Here(n) /\ There(n)
                        \/ Here(n) /\ View(r)'[n].run = r /\ Running(r)
                        \/ There(n) /\ View(r)'[n].run = o /\ Running(o)
  <2>1. Both(i) /\ Both(j)
    <3>1. Both(i)
      BY <1>9, ViewPublishing
    <3>2. Both(j)
      BY <1>9, ViewPublishing
    <3> QED BY <3>1, <3>2
  <2>2. CASE Here(i) /\ Here(j)
    BY <2>2, SeenCompatible
  <2>3. CASE There(i) /\ There(j)
    BY <2>3, SeenCompatible
  <2>4. CASE ~IsCard(View(r)'[i]) \/ ~IsCard(View(r)'[j])
    BY <2>4 DEF Compatible
  <2>5. CASE {View(r)'[i].run, View(r)'[j].run} = {r, o} /\ Running(r) /\ Running(o)
    <3>1. o \in met[r] /\ r \in met[o]
      BY <1>9, <2>5 DEF Met
    <3>2. Grows(r, run, met, run', met') /\ Grows(o, run, met, run', met')
      BY <2>5, GrowsStep DEF Running
    <3>3. o \in met'[r] /\ r \in met'[o]
      BY <3>1, <3>2 DEF Grows
    <3> QED BY <1>9, <2>5, <3>3 DEF Compatible
  <2> HIDE DEF Here, There
  <2> QED BY <2>1, <2>2, <2>3, <2>4, <2>5
<1> QED BY <1>4, <1>5, <1>6, <1>7, <1>8, <1>9, ViewOthers, <1>2 DEF Groups

-----------------------------------------------------------------------------
(* What a step makes of one run and of what it sees. *)

\* The run is over; or it does nothing, though its connection may lose what it has
\* written, once it was timed out.
Halts(r) == run'[r].pc \in {"done", "failed"} /\ run'[r].queue = <<>>
Waits(r) ==
  /\ run'[r].pc = run[r].pc /\ run'[r].queue = run[r].queue
  /\ run'[r].entry = run[r].entry /\ run'[r].outlook = run[r].outlook
  /\ \/ mine'[r] = mine[r]
     \/ mine'[r] = Empty /\ run'[r].cut # 0

LEMMA RunDelta ==
  ASSUME Inv, Next, NEW r \in Runs
  PROVE  \/ Halts(r) \/ Waits(r) \/ \E k \in RunKinds : Start(r, k)
         \/ Evaluate(r) \/ Replace(r)
         \/ Insert(r) /\ Inserting(r)
<1> USE DEF Inv, IInv
<1> DEFINE Goal == \/ Halts(r) \/ Waits(r) \/ \E k \in RunKinds : Start(r, k)
                   \/ Evaluate(r) \/ Replace(r)
                   \/ Insert(r) /\ Inserting(r)
<1>1. CASE run'[r] = run[r] /\ mine'[r] = mine[r]
  BY <1>1 DEF Waits
<1>2. ASSUME NEW o \in Runs \ {r}, Engine(o) \/ Timeout(o) \/ \E k \in RunKinds : Start(o, k)
      PROVE  run'[r] = run[r] /\ mine'[r] = mine[r]
  BY <1>2 DEF Engine, Timeout, Start, Evaluate, Replace, Insert, Commit, LockTimeout, Cut,
              RollBackCut, ReportCut, CloseCut, Fails, TypeOK
<1>3. CASE Fails(r)
  BY <1>3 DEF Fails, Halts, TypeOK, Idle
<1>4. ASSUME NEW c \in 1 .. 4, run' = [run EXCEPT ![r].cut = c],
             mine' = [mine EXCEPT ![r] = [i \in {} |-> Idle]]
      PROVE  Waits(r)
  <2>1. run[r] \in RunType /\ run'[r] = [run[r] EXCEPT !.cut = c]
    BY <1>4, RunFields DEF TypeOK
  <2>2. /\ run'[r].pc = run[r].pc /\ run'[r].queue = run[r].queue
        /\ run'[r].entry = run[r].entry /\ run'[r].outlook = run[r].outlook /\ run'[r].cut = c
    BY <2>1 DEF RunType
  <2>3. mine'[r] = Empty
    BY <1>4 DEF TypeOK, Empty
  <2> QED BY <2>2, <2>3 DEF Waits
<1>5. CASE Timeout(r)
  BY <1>3, <1>4, <1>5 DEF Timeout, Cut, RollBackCut, ReportCut, CloseCut
<1>6. CASE LockTimeout(r)
  <2>1. CASE run[r].queue # <<>>
    BY <1>3, <1>6, <2>1 DEF LockTimeout
  <2>2. CASE run[r].queue = <<>>
    <3>1. run[r] \in RunType /\ run'[r] = [run[r] EXCEPT !.sits = 0] /\ mine' = mine
      BY <1>6, <2>2, RunFields DEF LockTimeout, TypeOK
    <3> QED BY <3>1 DEF Waits, RunType
  <2> QED BY <2>1, <2>2
<1>7. CASE Insert(r)
  <2>1. CASE CardId(r) \in DOMAIN View(r)
    BY <1>3, <1>7, <2>1 DEF Insert
  <2>2. CASE CardId(r) \notin DOMAIN View(r)
    BY <1>7, <2>2 DEF Insert, Inserting
  <2> QED BY <2>1, <2>2
<1>8. CASE Commit(r)
  BY <1>8 DEF Commit, Halts, TypeOK, Idle
<1>9. CASE Restart
  <2>1. CASE Running(r)
    <3>1. run'[r] = [Idle EXCEPT !.pc = "failed", !.kind = run[r].kind, !.cut = run[r].cut]
      BY <1>9, <2>1 DEF Restart
    <3> QED BY <3>1 DEF Halts, Idle
  <2>2. CASE ~Running(r)
    <3>1. run'[r] = run[r] /\ mine'[r] = Empty
      BY <1>9, <2>2 DEF Restart, Empty
    <3>2. mine[r] = Empty
      BY <2>2, EmptyMine
    <3> QED BY <1>1, <3>1, <3>2
  <2> QED BY <2>1, <2>2
<1>10. CASE \/ CheckReads \/ CheckWrites \/ Revalidate \/ NewDay
            \/ \E i \in DOMAIN rows, what \in {"EXECUTED", "IGNORED"} : Choose(i, what)
            \/ \E q \in Requests : Confirm(q) \/ Refused(q)
  BY <1>1, <1>10 DEF CheckReads, CheckWrites, Revalidate, Confirm, Refused, NewDay, Choose
<1>11. ASSUME NEW o \in Runs, Engine(o) \/ Timeout(o) \/ \E k \in RunKinds : Start(o, k)
       PROVE  Goal
  <2>1. CASE o # r
    BY <1>1, <1>2, <1>11, <2>1
  <2>2. CASE o = r
    BY <1>5, <1>6, <1>7, <1>8, <1>11, <2>2 DEF Engine
  <2> QED BY <2>1, <2>2
<1> QED BY <1>9, <1>10, <1>11 DEF Next

LEMMA ViewOwn ==
  ASSUME Inv, Groups, NEW r \in Runs, Publishing(r)
  PROVE  View(r)' = rows'
<1> USE DEF Inv, IInv
<1>1. mine'[r] = Empty /\ rows' \in RowTables
  BY RowsStep DEF Publishing, TypeOK
<1>2. View(r)' = Over(Empty, rows')
  BY <1>1 DEF View
<1> QED BY <1>1, <1>2, EmptyTable, OverEmpty

\* A row a run sees after a step in which it inserted none is one it saw, a sit-out,
\* one of a run it overlaps, or a committed row whose change it has lost.
LEMMA SeenNext ==
  ASSUME Inv, Groups, DOMAIN mine' = Runs, NEW r \in Runs, ~Inserting(r),
         NEW i \in DOMAIN View(r)'
  PROVE  \/ ~IsCard(View(r)'[i])
         \/ i \in DOMAIN View(r) /\ Later(View(r)[i], View(r)'[i])
         \/ View(r)'[i].run \in Runs \ {r} /\ Running(View(r)'[i].run)
         \/ i \in DOMAIN rows /\ View(r)'[i] = rows[i] /\ mine'[r] # mine[r]
<1> USE DEF Inv, IInv
<1>1. CASE View(r)' = View(r)
  BY <1>1 DEF Later
<1>2. CASE LaterTable(View(r), View(r)')
  BY <1>2 DEF LaterTable
<1>3. CASE Dropping
  BY <1>1, <1>3, ViewDropping
<1>4. CASE Rewriting
  BY <1>2, <1>4, ViewRewriting
<1>5. ASSUME NEW o \in Runs, Ignoring(o) \/ Inserting(o)
      PROVE  View(r)' = View(r) \/ LaterTable(View(r), View(r)')
  BY <1>5, ViewOthers, ViewIgnoring
<1>6. CASE Publishing(r)
  <2>1. View(r)' = rows'
    BY <1>6, ViewOwn
  <2> QED BY <1>6, <2>1, PublishedRows DEF Later
<1>7. ASSUME NEW o \in Runs, Publishing(o), r # o
      PROVE  \/ ~IsCard(View(r)'[i])
             \/ i \in DOMAIN View(r) /\ Later(View(r)[i], View(r)'[i])
             \/ View(r)'[i].run \in Runs \ {r} /\ Running(View(r)'[i].run)
  BY <1>7, ViewPublishing
<1> QED BY <1>1, <1>2, <1>3, <1>4, <1>5, <1>6, <1>7 DEF Groups

\* A slot that was searched has no other card for the day, on closing data, or none
\* that is pending.
LEMMA SearchedCompatible ==
  ASSUME Inv, NEW r \in Runs, Replace(r), run'[r].pc = "insert"
  PROVE  \A i \in DOMAIN View(r)' :
           Compatible(View(r)'[i], RowOf(Card(r), r), run', met')
<1> USE DEF Inv, IInv
<1> DEFINE c == RowOf(Card(r), r)
<1>1. run[r].queue # <<>> /\ run[r].pc = "persist" /\ Running(r)
  BY DEF Replace, Running
<1>2. /\ run' = [run EXCEPT ![r].pc = "insert"]
      /\ run[r].kind = "live" \/ ~Offered(View(r), Card(r), run[r].entry)
  <2>1. CASE run' = [run EXCEPT ![r].queue = Tail(@)]
    BY <1>1, <2>1 DEF TypeOK, RunType
  <2> QED BY <2>1 DEF Replace
<1>3. /\ run'[r].kind = run[r].kind /\ run[r].entry \in Nat
      /\ \A o \in Runs : run'[o].kind = run[o].kind /\ run'[o].cut = run[o].cut
  <2>1. run \in [Runs -> RunType]
    BY DEF TypeOK
  <2>2. \A o \in Runs : run'[o].kind = run[o].kind /\ run'[o].cut = run[o].cut
    BY <1>2, <2>1 DEF RunType
  <2> QED BY <1>1, <2>2, RunFields DEF Days
<1>4. /\ c.run = r /\ c.status = "PENDING" /\ IsCard(c) /\ c \in RowType
      /\ Slot(c) = Slot(Card(r)) /\ c.entry = run[r].entry /\ c.strategy = Card(r).strategy
  BY <1>1, CardType DEF RowOf, Slot
<1>5. Card(r).strategy = run[r].queue[1].offer.strategy /\ 1 \in DOMAIN run[r].queue
  BY <1>1, QueueType DEF Card
<1>6. /\ View(r) \in RowTables /\ View(r)' = Over(Ignored(View(r), Hits(r)), View(r))
      /\ Hits(r) \in SUBSET DOMAIN View(r) /\ \A i \in Hits(r) : IsCard(View(r)[i])
  <2>1. rows' = rows /\ mine'[r] = Over(Ignored(View(r), Hits(r)), mine[r])
    BY DEF Replace, TypeOK
  <2>2. View(r)' = Over(Ignored(View(r), Hits(r)), View(r))
    BY <2>1 DEF View, Over
  <2> QED BY <2>2, ViewType DEF Hits, Superseded, IsCard
<1>7. /\ LaterTable(View(r), View(r)') /\ Ignored(View(r), Hits(r)) \in RowTables
      /\ \A i \in Hits(r) : View(r)'[i].status = "IGNORED"
      /\ \A i \in DOMAIN View(r) : i \notin Hits(r) => View(r)'[i] = View(r)[i]
  <2>1. /\ Ignored(View(r), Hits(r)) \in RowTables /\ DOMAIN Ignored(View(r), Hits(r)) = Hits(r)
        /\ \A i \in Hits(r) :
             Ignored(View(r), Hits(r))[i] = [View(r)[i] EXCEPT !.status = "IGNORED"]
    BY <1>6, IgnoredTable
  <2>2. \A i \in Hits(r) : View(r)'[i] = [View(r)[i] EXCEPT !.status = "IGNORED"]
    BY <1>6, <2>1 DEF Over
  <2>3. \A i \in Hits(r) : View(r)[i] \in RowType
    BY <1>6, RowTable
  <2>4. \A i \in Hits(r) : View(r)'[i].status = "IGNORED"
    BY <2>2, <2>3 DEF RowType
  <2> QED BY <1>6, <2>1, <2>4, IgnoredLater
<1> HIDE DEF c
<1> SUFFICES ASSUME NEW i \in DOMAIN View(r)', IsCard(View(r)'[i])
             PROVE  Compatible(View(r)'[i], c, run', met')
  BY DEF Compatible, c
<1>8. /\ i \in DOMAIN View(r) /\ View(r)[i] \in RowType /\ IsCard(View(r)[i])
      /\ View(r)'[i].run = View(r)[i].run /\ View(r)'[i].strategy = View(r)[i].strategy
      /\ Slot(View(r)'[i]) = Slot(View(r)[i]) /\ View(r)'[i].entry = View(r)[i].entry
      /\ View(r)'[i].status = "PENDING" => i \notin Hits(r) /\ View(r)[i].status = "PENDING"
  <2>1. i \in DOMAIN View(r) /\ View(r)[i] \in RowType /\ Later(View(r)[i], View(r)'[i])
    BY <1>6, <1>7, RowTable DEF LaterTable
  <2>2. View(r)'[i].status = "PENDING" => i \notin Hits(r)
    BY <1>7
  <2> QED BY <2>1, <2>2, LaterFields
<1>9. PlansApart /\ View(r)'[i].run = r => Apart(View(r)'[i].strategy, c.strategy)
  BY <1>4, <1>5, <1>8 DEF Tables
<1>10. ASSUME Slot(View(r)'[i]) = Slot(c), View(r)'[i].entry = c.entry
       PROVE  run'[r].kind = "live" /\ View(r)'[i].status # "PENDING"
  <2>1. Offered(View(r), Card(r), run[r].entry)
    BY <1>4, <1>8, <1>10 DEF Offered, IsCard
  <2>2. run[r].kind = "live"
    BY <1>2, <2>1
  <2>3. ASSUME View(r)[i].status = "PENDING"
        PROVE  i \in Hits(r)
    <3>1. Limit(r) = run[r].entry + 1
      BY <2>2 DEF Limit
    <3>2. View(r)[i].entry < run[r].entry + 1
      BY <1>3, <1>4, <1>8, <1>10
    <3>3. Slot(View(r)[i]) = Slot(Card(r))
      BY <1>4, <1>8, <1>10
    <3> QED BY <1>8, <2>3, <3>1, <3>2, <3>3 DEF Hits, Superseded
  <2> QED BY <1>3, <1>8, <2>2, <2>3
<1> QED BY <1>4, <1>9, <1>10 DEF Compatible

LEMMA InsertStep ==
  ASSUME Inv, Next, Groups, DOMAIN mine' = Runs, NEW r \in Runs, run'[r].pc = "insert"
  PROVE  /\ run'[r].queue # <<>>
         /\ \A i \in DOMAIN View(r)' : Compatible(View(r)'[i], RowOf(Card(r), r)', run', met')
<1> USE DEF Inv, IInv
<1>1. CASE Replace(r)
  <2>1. /\ run[r].queue # <<>> /\ run' = [run EXCEPT ![r].pc = "insert"]
    <3>1. CASE run' = [run EXCEPT ![r].queue = Tail(@)]
      <4>1. run'[r].pc = "persist"
        BY <1>1, <3>1 DEF Replace, TypeOK, RunType
      <4> QED BY <4>1
    <3> QED BY <1>1, <3>1 DEF Replace
  <2>2. run'[r].queue = run[r].queue /\ run'[r].entry = run[r].entry
    <3>1. run \in [Runs -> RunType]
      BY DEF TypeOK
    <3> QED BY <2>1, <3>1 DEF RunType
  <2>3. RowOf(Card(r), r)' = RowOf(Card(r), r)
    BY <2>2 DEF RowOf, Card
  <2> QED BY <1>1, <2>1, <2>2, <2>3, SearchedCompatible
<1>2. CASE Waits(r)
  <2> DEFINE c == RowOf(Card(r), r)
  <2>1. /\ run[r].pc = "insert" /\ run[r].queue # <<>> /\ run'[r].queue = run[r].queue
        /\ Running(r) /\ \A i \in DOMAIN View(r) : Compatible(View(r)[i], c, run, met)
    BY <1>2 DEF Waits, Tables, Running
  <2>2. RowOf(Card(r), r)' = c
    BY <1>2 DEF Waits, RowOf, Card
  <2>3. c \in RowType /\ c.run = r /\ IsCard(c)
    BY <2>1, CardType
  <2> HIDE DEF c
  <2>4. Grows(r, run, met, run', met')
    BY <2>1, GrowsStep DEF Running
  <2>5. ~Inserting(r)
    <3>1. ASSUME Inserting(r)
          PROVE  FALSE
      <4>1. CardId(r) \in DOMAIN mine'[r] /\ CardId(r) \notin DOMAIN View(r)
        BY <3>1 DEF Inserting, Over, TypeOK
      <4>2. CardId(r) \notin DOMAIN mine[r] /\ CardId(r) \notin DOMAIN Empty
        BY <4>1, ViewType, EmptyTable
      <4> QED BY <1>2, <4>1, <4>2 DEF Waits
    <3> QED BY <3>1
  <2> SUFFICES ASSUME NEW i \in DOMAIN View(r)', IsCard(View(r)'[i])
               PROVE  Compatible(View(r)'[i], c, run', met')
    BY <2>1, <2>2 DEF Compatible
  <2>6. CASE i \in DOMAIN View(r) /\ Later(View(r)[i], View(r)'[i])
    <3>1. View(r)[i] \in RowType /\ Grows(View(r)[i].run, run, met, run', met')
      BY <2>6, GrowsSeen, ViewType, RowTable
    <3>2. Later(c, c) /\ Compatible(View(r)[i], c, run, met)
      BY <2>1, <2>6 DEF Later
    <3> QED BY <2>3, <2>4, <2>6, <3>1, <3>2, CompatibleLater
  <2>7. CASE View(r)'[i].run \in Runs \ {r} /\ Running(View(r)'[i].run)
    <3>1. View(r)'[i].run \in met[r]
      BY <2>1, <2>7 DEF Met
    <3>2. View(r)'[i].run \in met'[r]
      BY <2>4, <3>1 DEF Grows
    <3> QED BY <2>3, <2>7, <3>2 DEF Compatible
  <2>8. CASE i \in DOMAIN rows /\ View(r)'[i] = rows[i] /\ mine'[r] # mine[r]
    <3>1. run'[r].cut # 0
      BY <1>2, <2>8 DEF Waits
    <3>2. rows[i] \in RowType /\ i \in DOMAIN View(r) /\ Later(rows[i], View(r)[i])
      BY <2>8, ViewRows, ViewType, RowTable
    <3>3. /\ View(r)[i].run = rows[i].run /\ View(r)[i].strategy = rows[i].strategy
          /\ Slot(View(r)[i]) = Slot(rows[i]) /\ View(r)[i].entry = rows[i].entry
          /\ IsCard(View(r)[i]) <=> IsCard(rows[i])
      BY <3>2, LaterFields
    <3>4. Compatible(View(r)[i], c, run, met)
      BY <2>1, <3>2
    <3>5. Grows(rows[i].run, run, met, run', met')
      BY <2>8, GrowsSeen
    <3> QED BY <2>3, <2>4, <2>8, <3>1, <3>3, <3>4, <3>5 DEF Compatible, Grows
  <2> QED BY <2>5, <2>6, <2>7, <2>8, SeenNext
<1>3. CASE Halts(r)
  BY <1>3 DEF Halts
<1>4. ASSUME NEW k \in RunKinds, Start(r, k)
      PROVE  FALSE
  BY <1>4, StartRun
<1>5. CASE Evaluate(r) \/ (Insert(r) /\ Inserting(r))
  <2>1. run'[r].pc = "persist"
    <3>1. CASE Evaluate(r)
      <4>1. \E q, s, f, o : run' = [run EXCEPT ![r] = [@ EXCEPT !.pc = "persist", !.first = f,
                                      !.queue = q, !.sits = s, !.outlook = o]]
        BY <3>1 DEF Evaluate
      <4> QED BY <4>1 DEF TypeOK, RunType
    <3>2. CASE Insert(r) /\ Inserting(r)
      <4>1. run' = [run EXCEPT ![r].pc = "persist", ![r].queue = Tail(@)]
        BY <3>2 DEF Insert, Inserting
      <4> QED BY <4>1 DEF TypeOK, RunType
    <3> QED BY <1>5, <3>1, <3>2
  <2> QED BY <2>1
<1> QED BY <1>1, <1>2, <1>3, <1>4, <1>5, RunDelta

\* What is left of a queue is apart as the queue was.
LEMMA OneEachTail ==
  ASSUME TypeOK, NEW r \in Runs, run[r].queue # <<>>, OneEach(run[r].queue)
  PROVE  /\ OneEach(Tail(run[r].queue))
         /\ \A n \in DOMAIN Tail(run[r].queue) :
              Apart(Card(r).strategy, Tail(run[r].queue)[n].offer.strategy)
<1> DEFINE q == run[r].queue
<1>1. /\ Head(q) = q[1] /\ 1 \in DOMAIN q
      /\ \A n \in DOMAIN Tail(q) : n + 1 \in DOMAIN q /\ Tail(q)[n] = q[n + 1] /\ n \in Nat \ {0}
  <2>1. Tail(q) \in Seq([offer : Offers, nth : Nat \ {0}])
    BY QueueType
  <2>2. \A n \in DOMAIN Tail(q) : n \in Nat \ {0}
    BY <2>1
  <2> QED BY <2>2, QueueType
<1>2. OneEach(q)
  OBVIOUS
<1>3. Card(r) = q[1].offer
  BY <1>1 DEF Card
<1> HIDE DEF q
<1>4. ASSUME NEW n \in DOMAIN Tail(q)
      PROVE  Apart(q[1].offer.strategy, Tail(q)[n].offer.strategy)
  <2>1. n + 1 \in DOMAIN q /\ Tail(q)[n] = q[n + 1] /\ n + 1 # 1
    BY <1>1
  <2> QED BY <1>1, <1>2, <2>1 DEF OneEach
<1>5. ASSUME NEW m \in DOMAIN Tail(q), NEW n \in DOMAIN Tail(q), m # n
      PROVE  Apart(Tail(q)[m].offer.strategy, Tail(q)[n].offer.strategy)
  <2>1. /\ m + 1 \in DOMAIN q /\ Tail(q)[m] = q[m + 1] /\ n + 1 \in DOMAIN q
        /\ Tail(q)[n] = q[n + 1] /\ m + 1 # n + 1
    BY <1>1, <1>5
  <2> QED BY <1>2, <2>1 DEF OneEach
<1>6. OneEach(Tail(q))
  BY <1>5 DEF OneEach
<1> QED BY <1>3, <1>4, <1>6 DEF q

\* A run's own cards, unless it inserts one, are those it had.
LEMMA OwnCards ==
  ASSUME Inv, Groups, DOMAIN mine' = Runs, NEW r \in Runs, ~Inserting(r),
         NEW i \in DOMAIN View(r)', View(r)'[i].run = r, IsCard(View(r)'[i])
  PROVE  /\ i \in DOMAIN View(r) /\ View(r)[i].run = r /\ IsCard(View(r)[i])
         /\ View(r)'[i].strategy = View(r)[i].strategy
<1> USE DEF Inv, IInv
<1>1. CASE i \in DOMAIN View(r) /\ Later(View(r)[i], View(r)'[i])
  <2>1. View(r)[i] \in RowType
    BY <1>1, ViewType, RowTable
  <2> QED BY <1>1, <2>1, LaterFields
<1>2. CASE i \in DOMAIN rows /\ View(r)'[i] = rows[i]
  <2>1. rows[i] \in RowType /\ i \in DOMAIN View(r) /\ Later(rows[i], View(r)[i])
    BY <1>2, ViewRows, ViewType, RowTable, ZenonT(90)
  <2> QED BY <1>2, <2>1, LaterFields
<1> QED BY <1>1, <1>2, SeenNext

LEMMA QueueStep ==
  ASSUME Inv, Next, Groups, DOMAIN mine' = Runs, NEW r \in Runs, PlansApart
  PROVE  /\ OneEach(run'[r].queue)
         /\ \A i \in DOMAIN View(r)', n \in DOMAIN run'[r].queue :
              View(r)'[i].run = r /\ IsCard(View(r)'[i])
                => Apart(View(r)'[i].strategy, run'[r].queue[n].offer.strategy)
<1> USE DEF Inv, IInv
<1> DEFINE Goal == /\ OneEach(run'[r].queue)
                   /\ \A i \in DOMAIN View(r)', n \in DOMAIN run'[r].queue :
                        View(r)'[i].run = r /\ IsCard(View(r)'[i])
                          => Apart(View(r)'[i].strategy, run'[r].queue[n].offer.strategy)
<1>1. /\ OneEach(run[r].queue)
      /\ \A i \in DOMAIN View(r), n \in DOMAIN run[r].queue :
           View(r)[i].run = r /\ IsCard(View(r)[i])
             => Apart(View(r)[i].strategy, run[r].queue[n].offer.strategy)
  BY DEF Tables
<1>2. CASE run'[r].queue = run[r].queue /\ ~Inserting(r)
  BY <1>1, <1>2, OwnCards
<1>3. CASE run'[r].queue = <<>>
  BY <1>3 DEF OneEach
<1>4. CASE run'[r].queue = Tail(run[r].queue) /\ run[r].queue # <<>> /\ ~Inserting(r)
  <2>1. /\ OneEach(Tail(run[r].queue))
        /\ \A n \in DOMAIN Tail(run[r].queue) :
             n + 1 \in DOMAIN run[r].queue /\ Tail(run[r].queue)[n] = run[r].queue[n + 1]
    BY <1>1, <1>4, OneEachTail, QueueType
  <2>2. ASSUME NEW i \in DOMAIN View(r)', NEW n \in DOMAIN Tail(run[r].queue),
               View(r)'[i].run = r, IsCard(View(r)'[i])
        PROVE  Apart(View(r)'[i].strategy, Tail(run[r].queue)[n].offer.strategy)
    BY <1>1, <1>4, <2>1, <2>2, OwnCards
  <2> QED BY <1>4, <2>1, <2>2
<1>5. ASSUME Waits(r)
      PROVE  ~Inserting(r)
  <2>1. ASSUME Inserting(r)
        PROVE  FALSE
    <3>1. CardId(r) \in DOMAIN mine'[r] /\ CardId(r) \notin DOMAIN View(r)
      BY <2>1 DEF Inserting, Over, TypeOK
    <3>2. CardId(r) \notin DOMAIN mine[r] /\ CardId(r) \notin DOMAIN Empty
      BY <3>1, ViewType, EmptyTable
    <3> QED BY <1>5, <3>1, <3>2 DEF Waits
  <2> QED BY <2>1
<1>6. CASE Waits(r)
  BY <1>2, <1>5, <1>6 DEF Waits
<1>7. ASSUME NEW k \in RunKinds, Start(r, k)
      PROVE  Goal
  BY <1>2, <1>7, StartRun DEF Inserting
<1>8. CASE Replace(r)
  <2>1. ~Inserting(r) /\ run[r].queue # <<>>
    BY <1>8 DEF Replace, Inserting
  <2>2. run'[r].queue \in {run[r].queue, Tail(run[r].queue)}
    <3>1. run[r] \in RunType /\ run \in [Runs -> RunType]
      BY DEF TypeOK
    <3> QED BY <1>8, <3>1 DEF Replace, RunType
  <2> QED BY <1>2, <1>4, <2>1, <2>2
<1>9. CASE Insert(r) /\ Inserting(r)
  <2>1. run[r].queue # <<>> /\ run[r].pc = "insert" /\ Running(r)
    BY <1>9 DEF Inserting, Tables, Running
  <2>2. run'[r].queue = Tail(run[r].queue)
    <3>1. run' = [run EXCEPT ![r].pc = "persist", ![r].queue = Tail(@)]
      BY <1>9 DEF Insert, Inserting
    <3> QED BY <3>1 DEF TypeOK, RunType
  <2>3. /\ OneEach(Tail(run[r].queue))
        /\ \A n \in DOMAIN Tail(run[r].queue) :
             /\ n + 1 \in DOMAIN run[r].queue /\ Tail(run[r].queue)[n] = run[r].queue[n + 1]
             /\ Apart(Card(r).strategy, Tail(run[r].queue)[n].offer.strategy)
    BY <1>1, <2>1, OneEachTail, QueueType
  <2>4. /\ DOMAIN View(r)' = DOMAIN View(r) \cup {CardId(r)}
        /\ View(r)'[CardId(r)] = RowOf(Card(r), r) /\ CardId(r) \notin DOMAIN View(r)
        /\ \A i \in DOMAIN View(r) : i # CardId(r) => View(r)'[i] = View(r)[i]
    BY <1>9, ViewInserting DEF Inserting
  <2>5. RowOf(Card(r), r).strategy = Card(r).strategy
    BY DEF RowOf
  <2>6. ASSUME NEW i \in DOMAIN View(r)', NEW n \in DOMAIN Tail(run[r].queue),
               View(r)'[i].run = r, IsCard(View(r)'[i])
        PROVE  Apart(View(r)'[i].strategy, Tail(run[r].queue)[n].offer.strategy)
    <3>1. CASE i = CardId(r)
      BY <2>3, <2>4, <2>5, <3>1
    <3>2. CASE i # CardId(r)
      <4>1. i \in DOMAIN View(r) /\ View(r)'[i] = View(r)[i]
        BY <2>4, <3>2
      <4> QED BY <1>1, <2>3, <2>6, <4>1
    <3> QED BY <3>1, <3>2
  <2> QED BY <2>2, <2>3, <2>6
<1>10. CASE Evaluate(r)
  <2> DEFINE plan == run[r].outlook[IF run[r].kind = "live" THEN "live" ELSE "close"]
  <2>1. run[r].pc = "evaluate" /\ rows' = rows /\ mine' = mine
    BY <1>10 DEF Evaluate
  <2>2. run'[r].queue = plan.queue
    <3>1. run' = [run EXCEPT ![r] = [@ EXCEPT !.pc = "persist", !.first = NextSeq(r),
                    !.queue = plan.queue, !.sits = plan.sits, !.outlook = Idle.outlook]]
      BY <1>10 DEF Evaluate
    <3> HIDE DEF plan
    <3> QED BY <3>1 DEF TypeOK, RunType
  <2>3. run[r].outlook \in Outlooks
    BY <2>1 DEF AllSound
  <2>4. OneEach(plan.queue)
    <3>1. run[r].outlook \in [live : Plan, close : Plan]
      BY RunFields
    <3>2. OneEach(run[r].outlook.live.queue) /\ OneEach(run[r].outlook.close.queue)
      BY <2>3 DEF PlansApart
    <3> QED BY <3>1, <3>2
  <2>5. View(r)' = View(r)
    BY <2>1 DEF View
  <2>6. ASSUME NEW i \in DOMAIN View(r), View(r)[i].run = r
        PROVE  FALSE
    <3>1. i \in DOMAIN rows
      BY <2>1, ViewRows DEF WrittenLate
    <3>2. rows[i] \in RowType /\ Later(rows[i], View(r)[i])
      BY <3>1, ViewRows, ViewType, RowTable, ZenonT(90)
    <3>3. rows[i].run = r
      BY <2>6, <3>2, LaterFields
    <3> QED BY <2>1, <3>1, <3>3 DEF WrittenLate
  <2> QED BY <2>2, <2>4, <2>5, <2>6
<1> QED BY <1>3, <1>6, <1>7, <1>8, <1>9, <1>10, RunDelta DEF Halts

LEMMA TablesStep ==
  ASSUME Inv, Next, Groups, DOMAIN mine' = Runs
  PROVE  Tables'
<1>1. AllCompatible(rows, run, met)'
  BY RowsCompatible
<1>2. ASSUME NEW r \in Runs
      PROVE  AllCompatible(View(r), run, met)'
  BY ViewsCompatible
<1>3. ASSUME NEW r \in Runs, run'[r].pc = "insert"
      PROVE  /\ run'[r].queue # <<>>
             /\ (\A i \in DOMAIN View(r) : Compatible(View(r)[i], RowOf(Card(r), r), run, met))'
  BY <1>3, InsertStep
<1>4. ASSUME NEW r \in Runs, PlansApart
      PROVE  /\ OneEach(run[r].queue)'
             /\ (\A i \in DOMAIN View(r), n \in DOMAIN run[r].queue :
                  View(r)[i].run = r /\ IsCard(View(r)[i])
                    => Apart(View(r)[i].strategy, run[r].queue[n].offer.strategy))'
  BY <1>4, QueueStep
<1>5. PlansApart' <=> PlansApart
  BY DEF PlansApart
<1> QED BY <1>1, <1>2, <1>3, <1>4, <1>5 DEF Tables

-----------------------------------------------------------------------------
(* Cards are warned of today's session; readers have read cards. *)

LEMMA SoundLater ==
  ASSUME NEW v \in RowType, NEW w, Later(v, w), Sound(v)
  PROVE  Sound(w)
  BY LaterFields DEF Sound, Warns

LEMMA SitOutSound ==
  ASSUME NEW r \in Runs
  PROVE  Sound(SitOutRow(r))
  BY DEF Sound, Warns, SitOutRow, IsCard

LEMMA CardSound ==
  ASSUME TypeOK, NEW r \in Runs, Running(r), run[r].queue # <<>>,
         PlansWarned => \A n \in DOMAIN run[r].queue : Warns(run[r].queue[n].offer)
  PROVE  Sound(RowOf(Card(r), r))
<1>1. Card(r) \in Offers /\ Card(r) = run[r].queue[1].offer /\ 1 \in DOMAIN run[r].queue
  BY CardType, QueueType DEF Card
<1>2. Card(r).strategy # "NONE"
  BY <1>1 DEF Offers, Strategies, Bullish, Bearish, LongVol
<1>3. IsCard(RowOf(Card(r), r))
  BY CardType
<1>4. PlansWarned => Warns(RowOf(Card(r), r))
  BY <1>1 DEF Warns, RowOf
<1> QED BY <1>2, <1>3, <1>4 DEF Sound, RowOf

LEMMA ViewSound ==
  ASSUME TypeOK, AllSound, NEW r \in Runs
  PROVE  \A i \in DOMAIN View(r) : Sound(View(r)[i])
  BY ViewType DEF AllSound

LEMMA RowsSound ==
  ASSUME Inv, Groups, NEW i \in DOMAIN rows'
  PROVE  Sound(rows'[i])
<1> USE DEF Inv, IInv
<1>1. CASE i \in DOMAIN rows
  <2>1. rows[i] \in RowType /\ Sound(rows[i]) /\ Later(rows[i], rows'[i])
    BY <1>1, RowsStep DEF TypeOK, AllSound
  <2> QED BY <2>1, SoundLater
<1>2. ASSUME NEW o \in Runs, Publishing(o)
      PROVE  Sound(rows'[i])
  <2>1. CASE i \in DOMAIN View(o)
    BY <1>2, <2>1, PublishedRows, ViewSound
  <2>2. CASE i \notin DOMAIN View(o)
    BY <1>2, <2>2, PublishedRows, SitOutSound
  <2> QED BY <2>1, <2>2
<1>3. CASE DOMAIN rows' = DOMAIN rows
  BY <1>1, <1>3
<1> QED BY <1>2, <1>3 DEF Groups, Dropping, Rewriting, LaterTable, Ignoring, Inserting

LEMMA MineSound ==
  ASSUME Inv, Groups, DOMAIN mine' = Runs, NEW r \in Runs, NEW i \in DOMAIN mine'[r]
  PROVE  Sound(mine'[r][i])
<1> USE DEF Inv, IInv
<1>1. CASE mine'[r] \in {mine[r], Empty}
  BY <1>1, EmptyTable DEF AllSound
<1>2. CASE Ignoring(r)
  <2>1. PICK S \in SUBSET DOMAIN View(r) :
          /\ \A j \in S : View(r)[j].status = "PENDING"
          /\ mine' = [mine EXCEPT ![r] = Over(Ignored(View(r), S), @)]
    BY <1>2 DEF Ignoring
  <2>2. mine'[r] = Over(Ignored(View(r), S), mine[r])
    BY <2>1 DEF TypeOK
  <2>3. /\ View(r) \in RowTables /\ DOMAIN Ignored(View(r), S) = S
        /\ \A j \in S : Ignored(View(r), S)[j] = [View(r)[j] EXCEPT !.status = "IGNORED"]
    BY ViewType, IgnoredTable
  <2>4. CASE i \in S
    <3>1. mine'[r][i] = [View(r)[i] EXCEPT !.status = "IGNORED"]
      BY <2>2, <2>3, <2>4 DEF Over
    <3>2. Later(View(r)[i], mine'[r][i])
      BY <2>1, <2>4, <3>1 DEF Later, IsCard
    <3>3. View(r)[i] \in RowType /\ Sound(View(r)[i])
      BY <2>3, <2>4, ViewSound, RowTable
    <3> QED BY <3>2, <3>3, SoundLater
  <2>5. CASE i \notin S
    <3>1. i \in DOMAIN mine[r] /\ mine'[r][i] = mine[r][i]
      BY <2>2, <2>3, <2>5 DEF Over
    <3> QED BY <3>1 DEF AllSound
  <2> QED BY <2>4, <2>5
<1>3. CASE Inserting(r)
  <2>1. run[r].queue # <<>> /\ Running(r)
    BY <1>3 DEF Inserting, Tables, Running
  <2>2. Sound(RowOf(Card(r), r))
    BY <2>1, CardSound DEF AllSound
  <2>3. mine'[r] = Over([j \in {CardId(r)} |-> RowOf(Card(r), r)], mine[r])
    BY <1>3 DEF Inserting, TypeOK
  <2> HIDE DEF CardId, RowOf
  <2>4. mine'[r][i] = RowOf(Card(r), r) \/ (i \in DOMAIN mine[r] /\ mine'[r][i] = mine[r][i])
    BY <2>3 DEF Over
  <2> QED BY <2>2, <2>4 DEF AllSound
<1>4. ASSUME NEW o \in Runs, Publishing(o) \/ (r # o /\ (Ignoring(o) \/ Inserting(o)))
      PROVE  mine'[r] \in {mine[r], Empty}
  BY <1>4 DEF Publishing, Ignoring, Inserting, TypeOK
<1> QED BY <1>1, <1>2, <1>3, <1>4 DEF Groups, Dropping, Rewriting

LEMMA QueueSound ==
  ASSUME Inv, Next, NEW r \in Runs
  PROVE  /\ PlansWarned => \A n \in DOMAIN run'[r].queue : Warns(run'[r].queue[n].offer)
         /\ run'[r].pc \in {"new", "evaluate"} => run'[r].outlook \in Outlooks
<1> USE DEF Inv, IInv
<1> DEFINE Goal == /\ PlansWarned => \A n \in DOMAIN run'[r].queue : Warns(run'[r].queue[n].offer)
                   /\ run'[r].pc \in {"new", "evaluate"} => run'[r].outlook \in Outlooks
<1>1. /\ PlansWarned => \A n \in DOMAIN run[r].queue : Warns(run[r].queue[n].offer)
      /\ run[r].pc \in {"new", "evaluate"} => run[r].outlook \in Outlooks
      /\ run \in [Runs -> RunType]
  BY DEF AllSound, TypeOK
<1>2. ASSUME run[r].queue # <<>>, run'[r].pc \in {"persist", "insert"},
             run'[r].queue \in {run[r].queue, Tail(run[r].queue)}
      PROVE  Goal
  <2>1. CASE run'[r].queue = run[r].queue
    BY <1>1, <1>2, <2>1
  <2>2. CASE run'[r].queue = Tail(run[r].queue)
    <3>1. \A n \in DOMAIN Tail(run[r].queue) :
            n + 1 \in DOMAIN run[r].queue /\ Tail(run[r].queue)[n] = run[r].queue[n + 1]
      BY <1>2, QueueType
    <3> QED BY <1>1, <1>2, <2>2, <3>1
  <2> QED BY <1>2, <2>1, <2>2
<1>3. CASE Halts(r)
  BY <1>3 DEF Halts
<1>4. CASE Waits(r)
  BY <1>1, <1>4 DEF Waits
<1>5. ASSUME NEW k \in RunKinds, Start(r, k)
      PROVE  Goal
  BY <1>1, <1>5, StartRun
<1>6. CASE Replace(r)
  <2>1. run[r] \in RunType /\ run[r].queue # <<>> /\ run[r].pc = "persist"
    BY <1>1, <1>6 DEF Replace
  <2>2. run'[r].pc \in {"persist", "insert"} /\ run'[r].queue \in {run[r].queue, Tail(run[r].queue)}
    BY <1>1, <1>6, <2>1 DEF Replace, RunType
  <2> QED BY <1>2, <2>1, <2>2
<1>7. CASE Insert(r) /\ Inserting(r)
  <2>1. run[r] \in RunType /\ run[r].queue # <<>>
    BY <1>1, <1>7 DEF Inserting, Tables
  <2>2. run' = [run EXCEPT ![r].pc = "persist", ![r].queue = Tail(@)]
    BY <1>7 DEF Insert, Inserting
  <2>3. run'[r].pc = "persist" /\ run'[r].queue = Tail(run[r].queue)
    BY <1>1, <2>1, <2>2 DEF RunType
  <2> QED BY <1>2, <2>1, <2>3
<1>8. CASE Evaluate(r)
  <2> DEFINE plan == run[r].outlook[IF run[r].kind = "live" THEN "live" ELSE "close"]
  <2>1. run'[r].queue = plan.queue /\ run'[r].pc = "persist"
    <3>1. run' = [run EXCEPT ![r] = [@ EXCEPT !.pc = "persist", !.first = NextSeq(r),
                    !.queue = plan.queue, !.sits = plan.sits, !.outlook = Idle.outlook]]
      BY <1>8 DEF Evaluate
    <3> HIDE DEF plan
    <3> QED BY <1>1, <3>1 DEF RunType
  <2>2. run[r].outlook \in Outlooks /\ run[r].outlook \in [live : Plan, close : Plan]
    BY <1>1, <1>8, RunFields DEF Evaluate
  <2>3. PlansWarned => \A n \in DOMAIN plan.queue : Warns(plan.queue[n].offer)
    BY <2>2 DEF PlansWarned
  <2> QED BY <2>1, <2>3
<1> QED BY <1>3, <1>4, <1>5, <1>6, <1>7, <1>8, RunDelta

LEMMA SoundStep ==
  ASSUME Inv, Next, Groups, DOMAIN mine' = Runs
  PROVE  AllSound'
<1>1. \A i \in DOMAIN rows' : Sound(rows'[i])
  BY RowsSound
<1>2. \A r \in Runs : \A i \in DOMAIN mine'[r] : Sound(mine'[r][i])
  BY MineSound
<1>3. \A r \in Runs :
        /\ PlansWarned => \A n \in DOMAIN run'[r].queue : Warns(run'[r].queue[n].offer)
        /\ run'[r].pc \in {"new", "evaluate"} => run'[r].outlook \in Outlooks
  BY QueueSound
<1>4. PlansWarned' <=> PlansWarned
  BY DEF PlansWarned, Warns
<1> QED BY <1>1, <1>2, <1>3, <1>4 DEF AllSound, Sound, Warns

LEMMA ReadersStep ==
  ASSUME Inv, Next, Groups
  PROVE  Readers'
<1> USE DEF Inv, IInv
<1>1. /\ DOMAIN rows \subseteq DOMAIN rows'
      /\ \A i \in DOMAIN rows : /\ IsCard(rows[i]) <=> IsCard(rows'[i])
                                /\ rows'[i].status = "PENDING" => rows[i].status = "PENDING"
  <2>1. \A i \in DOMAIN rows : rows[i] \in RowType /\ Later(rows[i], rows'[i])
    BY RowsStep DEF TypeOK
  <2> QED BY <2>1, RowsStep, LaterFields
<1>2. CASE checker' \subseteq checker /\ UNCHANGED <<booked, desk>>
  BY <1>1, <1>2 DEF Readers, TypeOK, NoDesk
<1>3. CASE CheckReads
  BY <1>3 DEF CheckReads, Readers, IsCard
<1>4. ASSUME NEW q \in Requests, Confirm(q)
      PROVE  Readers'
  <2>1. /\ desk[q].id \in DOMAIN rows /\ rows' = [rows EXCEPT ![desk[q].id].status = desk[q].what]
        /\ desk' = [desk EXCEPT ![q] = NoDesk] /\ checker' = checker
        /\ booked' = IF desk[q].what = "EXECUTED" THEN booked \cup {desk[q].id} ELSE booked
        /\ desk[q].what # "PENDING"
    BY <1>4 DEF Confirm, Closed, TypeOK
  <2>2. rows[desk[q].id] \in RowType
    BY <2>1 DEF TypeOK
  <2>3. rows'[desk[q].id].status = desk[q].what
    BY <2>1, <2>2 DEF TypeOK, RowType
  <2>4. \A p \in Requests : desk'[p] # NoDesk => desk'[p] = desk[p]
    BY <2>1 DEF TypeOK
  <2> QED BY <1>1, <2>1, <2>3, <2>4 DEF Readers, TypeOK
<1>5. ASSUME NEW i \in DOMAIN rows, NEW what \in {"EXECUTED", "IGNORED"}, Choose(i, what)
      PROVE  Readers'
  <2>1. \A p \in Requests : desk'[p] = desk[p] \/ desk'[p].id = i
    BY <1>5 DEF Choose, TypeOK
  <2>2. IsCard(rows[i])
    BY <1>5 DEF Choose, IsCard
  <2>3. rows' = rows /\ booked' = booked /\ checker' = checker
    BY <1>5 DEF Choose
  <2> QED BY <2>1, <2>2, <2>3 DEF Readers, IsCard
<1>6. ASSUME NEW q \in Requests, Refused(q)
      PROVE  Readers'
  <2>1. \A p \in Requests : desk'[p] # NoDesk => desk'[p] = desk[p]
    BY <1>6 DEF Refused, Closed, TypeOK
  <2> QED BY <1>6, <2>1 DEF Refused, Readers, IsCard
<1> QED BY <1>2, <1>3, <1>4, <1>5, <1>6
      DEF Next, Engine, Timeout, Start, Evaluate, Replace, Insert, Commit, LockTimeout, Cut,
          RollBackCut, ReportCut, CloseCut, Restart, CheckWrites, Revalidate, NewDay

-----------------------------------------------------------------------------
(* The invariant. *)

LEMMA InitInv == Init => Inv
<1> SUFFICES ASSUME Init
             PROVE  Inv
  OBVIOUS
<1>1. /\ rows = Empty /\ mine = [r \in Runs |-> Empty] /\ day = 1 /\ checker = {} /\ booked = {}
      /\ desk = [q \in Requests |-> NoDesk] /\ cache = [c \in Runs \X Days |-> 0] /\ met = [r \in Runs |-> {}]
      /\ fails = 0 /\ touches = 0
      /\ run \in [Runs -> {[Idle EXCEPT !.outlook = o] : o \in Outlooks}]
  BY DEF Init, Empty
<1>2. DOMAIN rows = {} /\ \A r \in Runs : DOMAIN mine[r] = {} /\ DOMAIN View(r) = {}
  BY <1>1, EmptyTable DEF View, Over
<1>3. \A o \in Outlooks :
        LET x == [Idle EXCEPT !.outlook = o]
        IN /\ x \in RunType /\ x.pc = "new" /\ x.queue = <<>> /\ x.outlook = o
  <2>1. ASSUME NEW x \in RunType, NEW o \in [live : Plan, close : Plan]
        PROVE  /\ [x EXCEPT !.outlook = o] \in RunType /\ [x EXCEPT !.outlook = o].pc = x.pc
               /\ [x EXCEPT !.outlook = o].queue = x.queue /\ [x EXCEPT !.outlook = o].outlook = o
    BY <2>1 DEF RunType
  <2>2. Idle.pc = "new" /\ Idle.queue = <<>>
    BY DEF Idle
  <2> QED BY <2>1, <2>2, IdleType, OutlookAssumption
<1>4. \A r \in Runs : /\ run[r] \in RunType /\ run[r].pc = "new" /\ run[r].queue = <<>>
                      /\ run[r].outlook \in Outlooks /\ ~Running(r)
  <2> SUFFICES ASSUME NEW r \in Runs
               PROVE  /\ run[r] \in RunType /\ run[r].pc = "new" /\ run[r].queue = <<>>
                      /\ run[r].outlook \in Outlooks /\ ~Running(r)
    OBVIOUS
  <2>1. PICK o \in Outlooks : run[r] = [Idle EXCEPT !.outlook = o]
    BY <1>1
  <2> QED BY <1>3, <2>1 DEF Running
<1>5. TypeOK
  <2>1. run \in [Runs -> RunType]
    BY <1>1, <1>4
  <2>2. Empty \in RowTables /\ DOMAIN Empty \subseteq Ids /\ Empty \in [DOMAIN Empty -> RowType]
    BY EmptyTable, RowTable
  <2>3. day \in Days /\ fails \in 0 .. MaxFails /\ touches \in 0 .. MaxTouches
    BY <1>1, SuggestionAssumption DEF Days
  <2> QED BY <1>1, <1>2, <1>4, <2>1, <2>2, <2>3 DEF TypeOK
<1>6. Locked /\ WrittenLate /\ Readers
  BY <1>1, <1>2, <1>4 DEF Locked, WrittenLate, Readers
<1>7. Met
  BY <1>1, <1>4 DEF Met
<1>8. Tables
  <2>1. AllCompatible(rows, run, met) /\ \A r \in Runs : AllCompatible(View(r), run, met)
    BY <1>2 DEF AllCompatible
  <2>2. \A r \in Runs : run[r].pc # "insert" /\ OneEach(run[r].queue)
    BY <1>4 DEF OneEach
  <2> QED BY <1>2, <2>1, <2>2 DEF Tables
<1>9. AllSound
  BY <1>2, <1>4 DEF AllSound
<1>10. Bounded
  <2>1. DOMAIN rows \cup AllDirty = {}
    BY <1>2 DEF AllDirty
  <2> QED BY <2>1 DEF Bounded
<1> QED BY <1>5, <1>6, <1>7, <1>8, <1>9, <1>10 DEF Inv, IInv

LEMMA InvStep == Inv /\ [Next]_vars => Inv'
<1> SUFFICES ASSUME Inv, [Next]_vars
             PROVE  Inv'
  OBVIOUS
<1>1. CASE Next
  <2>1. Groups /\ DOMAIN mine' = Runs
    BY <1>1, StepGroups, RunsStep
  <2>2. TypeOK' /\ Met'
    BY <1>1, TypeStep, MetStep
  <2>3. Locked' /\ WrittenLate' /\ Bounded'
    BY <1>1, <2>1, LockedStep, WrittenStep, BoundedStep
  <2>4. Tables' /\ AllSound' /\ Readers'
    BY <1>1, <2>1, TablesStep, SoundStep, ReadersStep
  <2> QED BY <2>2, <2>3, <2>4 DEF Inv, IInv
<1>2. CASE UNCHANGED vars
  <2>1. \A r \in Runs : /\ View(r)' = View(r) /\ Running(r)' = Running(r) /\ Dirty(r)' = Dirty(r)
                        /\ RowOf(Card(r), r)' = RowOf(Card(r), r)
    BY <1>2 DEF vars, View, Running, Dirty, RowOf, Card
  <2>2. TypeOK' /\ Met' /\ WrittenLate'
    BY <1>2, <2>1 DEF Inv, IInv, vars, TypeOK, Met, WrittenLate
  <2>3. Locked' /\ Readers' /\ Bounded'
    BY <1>2, <2>1 DEF Inv, IInv, vars, Locked, Readers, Bounded, AllDirty
  <2>4. Tables'
    <3>1. PlansApart' <=> PlansApart
      BY DEF PlansApart
    <3>2. Tables
      BY DEF Inv, IInv
    <3>3. run' = run /\ rows' = rows /\ met' = met
      BY <1>2 DEF vars
    <3> QED BY <2>1, <3>1, <3>2, <3>3 DEF Tables
  <2>5. AllSound'
    <3>1. AllSound /\ (PlansWarned' <=> PlansWarned)
      BY DEF Inv, IInv, PlansWarned, Warns
    <3>2. run' = run /\ rows' = rows /\ mine' = mine
      BY <1>2 DEF vars
    <3> QED BY <3>1, <3>2 DEF AllSound, Sound, Warns
  <2> QED BY <2>2, <2>3, <2>4, <2>5 DEF Inv, IInv
<1> QED BY <1>1, <1>2

\* The invariant of every run of the program, for any plans the data may give.
THEOREM Inductive == Spec => []Inv
<1> QED BY InitInv, InvStep, PTL DEF Spec

\* The variables hold what their comments say.
THEOREM TypeCorrect == Spec => []TypeOK
<1>1. Inv => TypeOK
  BY DEF Inv, IInv
<1> QED BY <1>1, Inductive, PTL

\* Two cards of one slot and day can both be placed only when their runs overlapped,
\* or one of them was timed out (suggestion_engine.py:1375-1402).
THEOREM SlotHasOneCard == Spec => []OneCardPerSlot
<1>1. ASSUME Inv
      PROVE  OneCardPerSlot
  <2> SUFFICES ASSUME NEW i \in DOMAIN rows, NEW j \in DOMAIN rows, Twins(i, j),
                      rows[i].status = "PENDING", rows[j].status = "PENDING"
               PROVE  MetRuns(i, j) \/ WasCut(i) \/ WasCut(j)
    BY DEF OneCardPerSlot
  <2>1. Compatible(rows[i], rows[j], run, met)
    BY <1>1 DEF Inv, IInv, Tables, AllCompatible, Twins
  <2> QED BY <2>1 DEF Compatible, Twins, IsCard, MetRuns, WasCut
<1> QED BY <1>1, Inductive, PTL

\* A card that was booked or ignored is not offered again on closing data
\* (models.py:712), unless the runs overlapped.
THEOREM OfferedOnce == Spec => []NotOfferedTwice
<1>1. ASSUME Inv
      PROVE  NotOfferedTwice
  <2> SUFFICES ASSUME NEW i \in DOMAIN rows, NEW j \in DOMAIN rows, Twins(i, j),
                      run[rows[i].run].kind # "live", run[rows[j].run].kind # "live"
               PROVE  MetRuns(i, j)
    BY DEF NotOfferedTwice
  <2>1. Compatible(rows[i], rows[j], run, met) /\ Sound(rows[i]) /\ Sound(rows[j])
    BY <1>1 DEF Inv, IInv, Tables, AllCompatible, AllSound, Twins
  <2>2. IsCard(rows[i]) /\ IsCard(rows[j])
    BY <2>1 DEF Twins, Slot, Sound, IsCard
  <2> QED BY <2>1, <2>2 DEF Compatible, Twins, MetRuns
<1> QED BY <1>1, Inductive, PTL

\* When the chosen cards of each plan are one per direction, so is every part of a
\* run's cards that is committed (suggestion_engine.py:1313).
THEOREM RunKeepsDirections ==
  ASSUME PlansApart
  PROVE  Spec => []OneDirectionPerRun
<1>1. ASSUME Inv
      PROVE  OneDirectionPerRun
  <2> SUFFICES ASSUME NEW i \in DOMAIN rows, NEW j \in DOMAIN rows, i # j,
                      rows[i].run = rows[j].run,
                      rows[i].status # "NO_SUGGESTION", rows[j].status # "NO_SUGGESTION"
               PROVE  \/ Direction(rows[i].strategy) = "NEUTRAL"
                      \/ Direction(rows[i].strategy) # Direction(rows[j].strategy)
    BY DEF OneDirectionPerRun
  <2>1. Compatible(rows[i], rows[j], run, met)
    BY <1>1 DEF Inv, IInv, Tables, AllCompatible
  <2> QED BY <2>1, PlansApart DEF Compatible, IsCard, Apart
<1> QED BY <1>1, Inductive, PTL

\* When the plans warn of each card that today's session opposes, so does every row
\* that comes of them (suggestion_engine.py:265, :1066).
THEOREM RowsAreWarned ==
  ASSUME PlansWarned
  PROVE  Spec => []FoughtCardIsWarned
<1>1. ASSUME Inv
      PROVE  FoughtCardIsWarned
  BY <1>1, PlansWarned DEF Inv, IInv, AllSound, Sound, FoughtCardIsWarned
<1> QED BY <1>1, Inductive, PTL

\* A booked card is EXECUTED for good, and nobody takes it up, as soon as those who
\* had read it before it was booked are done (trade_executor.py:321, :516,
\* intraday_validator.py:264).
THEOREM BookingStays == Spec => BookedStaysExecuted
<1> DEFINE Stays == \A i \in booked : rows[i].status = "EXECUTED" /\ ~Held(i)
                                        => rows'[i].status = "EXECUTED" /\ ~Held(i)'
<1>1. ASSUME Inv, [Next]_vars
      PROVE  [Stays]_vars
  <2> USE <1>1 DEF Inv, IInv
  <2> SUFFICES ASSUME Next, NEW i \in booked, rows[i].status = "EXECUTED",
                      i \notin checker, \A q \in Requests : desk[q].id # i
               PROVE  rows'[i].status = "EXECUTED" /\ i \notin checker'
                      /\ \A q \in Requests : desk'[q].id # i
    BY <1>1 DEF Held
  <2>1. i \in DOMAIN rows /\ i # NoDesk.id
    BY DEF TypeOK, Ids, Days, NoDesk
  <2>2. rows'[i].status = "EXECUTED"
    <3>1. CASE rows' = rows
      BY <3>1
    <3>2. ASSUME NEW r \in Runs, NEW new, rows' = Over(new, View(r)),
                 DOMAIN new \cap DOMAIN View(r) = {}
          PROVE  rows'[i].status = "EXECUTED"
      <4>1. i \notin DOMAIN mine[r]
        BY <2>1 DEF Locked
      <4>2. i \in DOMAIN View(r) /\ View(r)[i] = rows[i]
        BY <2>1, <4>1, ViewType
      <4> QED BY <3>2, <4>2 DEF Over
    <3>3. ASSUME NEW r \in Runs, Commit(r)
          PROVE  rows'[i].status = "EXECUTED"
      BY <3>2, <3>3 DEF Commit
    <3>4. ASSUME NEW r \in Runs, ReportCut(r)
          PROVE  rows'[i].status = "EXECUTED"
      <4>1. rows' = Over(Empty, View(r)) /\ DOMAIN Empty \cap DOMAIN View(r) = {}
        BY <3>4, ViewType, OverEmpty, EmptyTable DEF ReportCut
      <4> QED BY <3>2, <4>1
    <3>5. ASSUME NEW S, rows' = Over(Ignored(rows, S), rows), i \notin S
          PROVE  rows'[i].status = "EXECUTED"
      BY <2>1, <3>5 DEF Over, Ignored
    <3>6. CASE CheckWrites
      <4>1. PICK S \in SUBSET checker : rows' = Over(Ignored(rows, S), rows)
        BY <3>6 DEF CheckWrites
      <4>2. i \notin S
        OBVIOUS
      <4> QED BY <3>5, <4>1, <4>2
    <3>7. CASE Revalidate
      <4>1. i \notin Past(rows)
        BY DEF Past
      <4> QED BY <3>5, <3>7, <4>1 DEF Revalidate
    <3>8. ASSUME NEW q \in Requests, Confirm(q)
          PROVE  rows'[i].status = "EXECUTED"
      BY <2>1, <3>8 DEF Confirm, TypeOK
    <3> QED BY <3>1, <3>3, <3>4, <3>6, <3>7, <3>8
          DEF Next, Engine, Timeout, Start, Evaluate, Replace, Insert, LockTimeout, Cut,
              RollBackCut, CloseCut, Restart, CheckReads, Choose, Refused, NewDay
  <2>3. i \notin checker'
    <3>1. CASE CheckReads
      BY <3>1 DEF CheckReads
    <3> QED BY <3>1
          DEF Next, Engine, Timeout, Start, Evaluate, Replace, Insert, Commit, LockTimeout, Cut,
              RollBackCut, ReportCut, CloseCut, Restart, CheckWrites, Revalidate, Confirm, Refused,
              Choose, NewDay
  <2>4. \A q \in Requests : desk'[q].id # i
    <3>1. ASSUME NEW j \in DOMAIN rows, NEW what, Choose(j, what)
          PROVE  \A q \in Requests : desk'[q].id # i
      <4>1. i # j
        BY <3>1 DEF Choose
      <4>2. \A q \in Requests : desk'[q] = desk[q] \/ desk'[q].id = j
        BY <3>1 DEF Choose, TypeOK
      <4> QED BY <4>1, <4>2
    <3>2. ASSUME NEW p \in Requests, Confirm(p) \/ Refused(p)
          PROVE  \A q \in Requests : desk'[q].id # i
      <4>1. \A q \in Requests : desk'[q] = desk[q] \/ desk'[q] = NoDesk
        BY <3>2 DEF Confirm, Refused, Closed, TypeOK
      <4> QED BY <2>1, <4>1
    <3>3. CASE desk' = desk
      BY <3>3
    <3> QED BY <3>1, <3>2, <3>3
          DEF Next, Engine, Timeout, Start, Evaluate, Replace, Insert, Commit, LockTimeout, Cut,
              RollBackCut, ReportCut, CloseCut, Restart, CheckReads, CheckWrites, Revalidate, NewDay
  <2> QED BY <2>2, <2>3, <2>4
<1> QED BY <1>1, Inductive, PTL DEF Spec, BookedStaysExecuted

-----------------------------------------------------------------------------
(* What the hypotheses on the plans rest on: CardChoice, up to its sequences. *)

LEMMA NaturalMinimum ==
  ASSUME NEW S \in SUBSET Nat, S # {}
  PROVE  \E k \in S : \A m \in S : k <= m
<1>1. PICK k \in S : \A m \in S : <<m, k>> \notin OpToRel(<, Nat)
  BY WFMin, NatLessThanWellFounded
<1>2. \A m \in S : ~(m < k)
  BY <1>1 DEF OpToRel
<1> QED BY <1>2

LEMMA PlaceBucket ==
  ASSUME NEW cards, DOMAIN cards \subseteq Nat, NEW n \in DOMAIN cards
  PROVE  /\ Place(cards, n) \in DOMAIN cards
         /\ Bucket(cards[Place(cards, n)]) = Bucket(cards[n])
<1> DEFINE S == {k \in DOMAIN cards : Bucket(cards[k]) = Bucket(cards[n])}
<1>1. PICK k \in S : \A m \in S : k <= m
  <2>1. S \in SUBSET Nat /\ n \in S
    OBVIOUS
  <2> HIDE DEF S
  <2> QED BY <2>1, NaturalMinimum
<1>2. \E p \in DOMAIN cards :
        /\ Bucket(cards[p]) = Bucket(cards[n])
        /\ \A j \in DOMAIN cards : Bucket(cards[j]) = Bucket(cards[n]) => p <= j
  BY <1>1
<1> QED BY <1>2 DEF Place

\* Whatever cards a run has made, those it chooses are one per direction: of any two
\* of a direction one is better or comes earlier (suggestion_engine.py:1284-1345).
THEOREM ChosenApart ==
  ASSUME NEW cards \in Seq([offer : Offers, nth : Nat \ {0}]),
         NEW m \in Capped(cards, Best(cards)), NEW n \in Capped(cards, Best(cards)), m # n
  PROVE  Apart(cards[m].offer.strategy, cards[n].offer.strategy)
<1>1. /\ m \in Best(cards) /\ n \in Best(cards) /\ m \in DOMAIN cards /\ n \in DOMAIN cards
      /\ DOMAIN cards \subseteq Nat
  BY DEF Capped, Best
<1>2. cards[m].offer.score \in Int /\ cards[n].offer.score \in Int
  <2> DEFINE E == [offer : Offers, nth : Nat \ {0}]
  <2>1. cards[m] \in E /\ cards[n] \in E
    <3>1. cards \in Seq(E)
      OBVIOUS
    <3> HIDE DEF E
    <3> QED BY <1>1, <3>1
  <2>2. cards[m].offer \in Offers /\ cards[n].offer \in Offers
    BY <2>1
  <2> QED BY <2>2 DEF Offers
<1>3. Place(cards, m) # Place(cards, n) /\ Place(cards, m) \in Nat /\ Place(cards, n) \in Nat
  <2>1. Bucket(cards[m]) # Bucket(cards[n])
    <3>1. Bucket(cards[m]) = Bucket(cards[n])
            => /\ ~(m < n /\ ~Better(cards[n], cards[m]))
               /\ ~(n < m /\ ~Better(cards[m], cards[n]))
               /\ ~Better(cards[m], cards[n]) /\ ~Better(cards[n], cards[m])
      BY <1>1 DEF Best
    <3> QED BY <1>1, <3>1
  <2> QED BY <1>1, <2>1, PlaceBucket
<1>4. ASSUME Direction(cards[m].offer.strategy) \in Directions,
             Direction(cards[m].offer.strategy) = Direction(cards[n].offer.strategy)
      PROVE  FALSE
  <2>1. /\ ~Better(cards[n], cards[m])
        /\ ~(Place(cards, n) < Place(cards, m) /\ ~Better(cards[m], cards[n]))
        /\ ~Better(cards[m], cards[n])
        /\ ~(Place(cards, m) < Place(cards, n) /\ ~Better(cards[n], cards[m]))
    BY <1>1, <1>4 DEF Capped
  <2> QED BY <1>3, <2>1
<1>5. \A s : Direction(s) = "NEUTRAL" \/ Direction(s) \in Directions
  BY DEF Direction, Directions
<1> QED BY <1>4, <1>5 DEF Apart

\* Whatever the data say, an attempt whose direction today's session opposes offers
\* its card with the warning, the halves of a condor included
\* (suggestion_engine.py:265, :1066).
THEOREM AttemptsWarn ==
  ASSUME NEW known, NEW n \in DOMAIN known, NEW m \in DOMAIN Attempts(known[n])
  PROVE  Warns(Offer(known, n, Attempts(known[n])[m]))
<1>1. \E s : Attempts(known[n])[m] = Attempt(s, known[n])
  <2> DEFINE f == known[n]
             P == Attempt(Pick(f), f)
             B == Attempt("BULL_PUT_SPREAD", f)
             C == Attempt("BEAR_CALL_SPREAD", f)
  <2>1. Attempts(f) \in {<<>>, <<P>>, <<P, B, C>>}
    <3> HIDE DEF P, B, C
    <3> QED BY DEF Attempts, P, B, C
  <2>2. Attempts(f)[m] \in {P, B, C}
    <3> HIDE DEF P, B, C
    <3> QED BY <2>1
  <2> QED BY <2>2
<1>2. PICK s : Attempts(known[n])[m] = Attempt(s, known[n])
  BY <1>1
<1> DEFINE o == Offer(known, n, Attempt(s, known[n]))
<1>3. o.strategy = s /\ o.warned = Fought(s, known[n]) /\ o.today = known[n].today
  BY DEF Offer, Attempt
<1>4. Direction(s) = "NEUTRAL" \/ Direction(s) \in Directions
  BY DEF Direction, Directions
<1> HIDE DEF o
<1>5. Warns(o)
  BY <1>3, <1>4 DEF Warns, Fought
<1> QED BY <1>2, <1>5 DEF o
=============================================================================
