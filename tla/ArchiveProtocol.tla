-------------------------- MODULE ArchiveProtocol ---------------------------
(***************************************************************************)
(* How old rows leave the live database: the Friday jobs of the VM         *)
(* (weekly_archive, archive_export, db_backup), the laptop's script that   *)
(* pulls the export, merges it and acknowledges it, and the acknowledgement*)
(* that runs on the VM.  They share tables and files and take no lock, and *)
(* their hours overlap: the laptop tries every 15 minutes from 09:15 to    *)
(* 15:45, Monday to Friday, beside weekly_archive (Fri 09:30),             *)
(* archive_export (15:36) and db_backup (15:38).  Any step may come between*)
(* any two, and the VM and the laptop may die there.  A row that is old    *)
(* enough to be archived no longer changes.                                *)
(*                                                                         *)
(* Weeks are not counted: a Friday is whenever its jobs run.               *)
(***************************************************************************)
EXTENDS Naturals, Sequences, FiniteSets

CONSTANTS
  Rows,
  TableOf,     \* the table of each row
  ParentOf,    \* the row whose age a leg shares; a row without one is its own
  DeleteOrder, \* the tables, in the order of the acknowledgement: legs first
  Ackers,      \* acknowledgements that may run at once: a lost ssh connection
               \* leaves one running while the laptop tries again
  MaxExports,  \* bound on exports
  MaxFaults    \* bound on faults of the VM, stops of the laptop and queries
               \* of the merge that fail

Tables == {DeleteOrder[i] : i \in DOMAIN DeleteOrder}

ASSUME ArchiveAssumption ==
  /\ IsFiniteSet(Rows)
  /\ TableOf \in [Rows -> Tables] /\ ParentOf \in [Rows -> Rows]
  /\ MaxExports \in Nat /\ MaxFaults \in Nat

\* A parent has no parent of its own, and roots_first_for_export puts the legs
\* before it: ordered_specs names every root first, and is reversed.
ASSUME OrderAssumption ==
  /\ Len(DeleteOrder) \in Nat /\ DOMAIN DeleteOrder = 1 .. Len(DeleteOrder)
  /\ \A r \in Rows : ParentOf[ParentOf[r]] = ParentOf[r]
  /\ \A r \in Rows, i, j \in DOMAIN DeleteOrder :
       ParentOf[r] # r /\ DeleteOrder[i] = TableOf[r] /\ DeleteOrder[j] = TableOf[ParentOf[r]]
         => i < j

VARIABLES
  hot,      \* rows of the live tables
  old,      \* rows past the retention cutoff
  arch,     \* rows of the *_Archive tables
  baks,     \* the export's .bak files on the VM: [name |-> rows]
  pending,  \* PENDING.json
  hotbak,   \* LAST_HOT_BACKUP.json: "none", "older" or "newer" than the export
  export,   \* the running archive_export
  ack,      \* the acknowledgements, running or idle
  lap,      \* the laptop's script
  state,    \* merge-state.json
  kept,     \* rows of the laptop's archive
  exports, faults,
  \* History, for the properties:
  stray,    \* rows archived while an acknowledgement was deleting
  skipped,  \* rows of a chunk that a successful merge passed over
  crossed,  \* exports that ran while the laptop or an acknowledgement was at work
  emptied   \* exports whose rows were truncated after they had been counted

history == <<stray, skipped, crossed, emptied>>
vars == <<hot, old, arch, baks, pending, hotbak, export, ack, lap, state, kept,
          exports, faults, history>>
vm     == <<hot, old, arch, baks, pending, hotbak, export, ack>>
laptop == <<lap, state, kept>>

None == 0                                       \* the name of no export
CountsOf(S) == [t \in Tables |-> Cardinality({r \in S : TableOf[r] = t})]
Counts      == CountsOf(arch)
NoCounts  == [t \in Tables |-> 0]
NoPending == [bak |-> None, counts |-> NoCounts]
NoExport  == [pc |-> "idle", counts |-> NoCounts]
\* bak: the export that was pending when it began; ssh: the laptop still waits.
NoAck     == [pc |-> "idle", table |-> 1, bak |-> None, ssh |-> FALSE]
Off       == [pc |-> "off", bak |-> None]

Init ==
  /\ hot = Rows /\ old = {} /\ arch = {} /\ baks = [n \in {} |-> {}]
  /\ pending = NoPending /\ hotbak = "none" /\ export = NoExport
  /\ ack = [a \in Ackers |-> NoAck]
  /\ lap = Off /\ state = [merged |-> None, acked |-> None] /\ kept = {}
  /\ exports = 0 /\ faults = 0
  /\ stray = {} /\ skipped = {} /\ crossed = {} /\ emptied = {}

Acking   == \E a \in Ackers : ack[a] # NoAck
Deleting == \E a \in Ackers : ack[a].pc = "deleting"

-----------------------------------------------------------------------------
(* The weekly jobs. *)

\* Time passes for a row that no parent dates.
Age(r) ==
  /\ r \notin old /\ ParentOf[r] = r
  /\ old' = old \cup {r}
  /\ UNCHANGED <<hot, arch, baks, pending, hotbak, export, ack, laptop, exports, faults, history>>

\* A row is due when it, or the parent it still has in the live table, is old.
Due == {r \in hot : ParentOf[r] \in hot \cap old}

\* weekly_archive: one transaction, rows already in the archive are left out.
WeeklyArchive ==
  /\ exports < MaxExports
  /\ ~(Due \subseteq arch)
  /\ arch' = arch \cup Due
  /\ stray' = IF Deleting THEN stray \cup (Due \ arch) ELSE stray
  /\ UNCHANGED <<hot, old, baks, pending, hotbak, export, ack, laptop, exports, faults,
                 skipped, crossed, emptied>>

\* archive_export counts the rows ...
ExportCounts ==
  /\ export = NoExport /\ exports < MaxExports
  /\ arch # {}
  /\ export' = [pc |-> "counted", counts |-> Counts]
  /\ exports' = exports + 1
  /\ crossed' = IF lap # Off \/ Acking THEN crossed \cup {exports + 1} ELSE crossed
  /\ UNCHANGED <<hot, old, arch, baks, pending, hotbak, ack, laptop, faults,
                 stray, skipped, emptied>>

\* ... or, when there are none and no manifest, removes old files.
ExportNothing ==
  /\ export = NoExport /\ arch = {} /\ pending = NoPending
  /\ baks' = [n \in {} |-> {}]
  /\ UNCHANGED <<hot, old, arch, pending, hotbak, export, ack, laptop, exports, faults, history>>

\* Mutant of ExportBuilds: earlier files are pruned.
ExportBuildsPruning ==
  /\ export.pc = "counted"
  /\ export' = [export EXCEPT !.pc = "built"]
  /\ baks' = [n \in {exports} |-> {r \in arch : export.counts[TableOf[r]] > 0}]
  /\ UNCHANGED <<hot, old, arch, pending, hotbak, ack, laptop, exports, faults, history>>

\* It copies the counted tables and backs the copy up ...
ExportBuilds ==
  /\ export.pc = "counted"
  /\ export' = [export EXCEPT !.pc = "built"]
  /\ baks' = [n \in DOMAIN baks \cup {exports} |->
                IF n = exports THEN {r \in arch : export.counts[TableOf[r]] > 0} ELSE baks[n]]
  /\ UNCHANGED <<hot, old, arch, pending, hotbak, ack, laptop, exports, faults, history>>

\* Mutant of ExportEnds: only the tables that have rows are counted.
ExportEndsSparse ==
  /\ export.pc = "built"
  /\ export' = NoExport
  /\ pending' = [bak |-> exports, counts |-> [t \in {u \in Tables : export.counts[u] > 0}
                                               |-> export.counts[t]]]
  /\ hotbak' = IF hotbak = "none" THEN "none" ELSE "older"
  /\ UNCHANGED <<hot, old, arch, baks, ack, laptop, exports, faults, history>>

\* ... and names the file and the counts in PENDING.json.
ExportEnds ==
  /\ export.pc = "built"
  /\ export' = NoExport
  /\ pending' = [bak |-> exports, counts |-> export.counts]
  /\ hotbak' = IF hotbak = "none" THEN "none" ELSE "older"
  /\ UNCHANGED <<hot, old, arch, baks, ack, laptop, exports, faults, history>>

\* db_backup: the live database, then the marker.
HotBackup ==
  /\ hotbak # "newer"
  /\ hotbak' = "newer"
  /\ UNCHANGED <<hot, old, arch, baks, pending, export, ack, laptop, exports, faults, history>>

-----------------------------------------------------------------------------
(* The laptop (deploy/azure/pull-archive-and-merge.ps1), which retries.      *)

\* The running export, if any, is crossed by the laptop.
Crossing == crossed' = IF export # NoExport THEN crossed \cup {exports} ELSE crossed

\* Mutant of Pull: a chunk that was merged is done with.
PullOnce ==
  /\ lap.pc = "off"
  /\ pending.bak \notin {None, state.merged}
  /\ lap' = [pc |-> "pulling", bak |-> pending.bak]
  /\ Crossing
  /\ UNCHANGED <<vm, state, kept, exports, faults, stray, skipped, emptied>>

\* It reads PENDING.json; nothing to do when there is none, or it is done.
Pull ==
  /\ lap.pc = "off"
  /\ pending.bak \notin {None, state.acked}
  /\ lap' = [pc |-> "pulling", bak |-> pending.bak]
  /\ Crossing
  /\ UNCHANGED <<vm, state, kept, exports, faults, stray, skipped, emptied>>

\* A hot backup must be there to be copied, and the chunk unless it was merged.
MayMerge == hotbak # "none" /\ lap.bak \in {state.merged} \cup DOMAIN baks

\* The rows of the chunk in the tables T; a chunk is merged once.
ChunkOf(T) == IF state.merged = lap.bak THEN {}
              ELSE {r \in baks[lap.bak] : TableOf[r] \in T}

\* The merge inserts what is missing and records the chunk.  It passes over the
\* tables U whose rows it could not count, and succeeds all the same.
Merge ==
  /\ lap.pc = "pulling" /\ MayMerge
  /\ lap' = [lap EXCEPT !.pc = "merged"]
  /\ state' = [state EXCEPT !.merged = lap.bak]
  /\ \E U \in SUBSET Tables :
       /\ kept' = kept \cup ChunkOf(Tables \ U)
       /\ skipped' = skipped \cup (ChunkOf(U) \ kept)
       /\ IF ChunkOf(U) = {} THEN UNCHANGED faults
          ELSE faults < MaxFaults /\ faults' = faults + 1
  /\ UNCHANGED <<vm, exports, stray, crossed, emptied>>

\* It may also fail after some of the tables.
MergeFails ==
  /\ lap.pc = "pulling"
  /\ lap' = Off
  /\ \/ ~MayMerge /\ UNCHANGED <<kept, faults>>
     \/ /\ MayMerge /\ lap.bak # state.merged
        /\ faults < MaxFaults /\ faults' = faults + 1
        /\ \E T \in SUBSET Tables : kept' = kept \cup ChunkOf(T)
  /\ UNCHANGED <<vm, state, exports, history>>

\* The acknowledgement over ssh has returned, and the laptop writes it down.
RecordAck ==
  /\ lap.pc = "acked"
  /\ lap' = Off
  /\ state' = [merged |-> lap.bak, acked |-> lap.bak]
  /\ UNCHANGED <<vm, kept, exports, faults, history>>

Unheard == [a \in Ackers |-> [ack[a] EXCEPT !.ssh = FALSE]]

\* The laptop or its connection is lost; the acknowledgement goes on.
LaptopStops ==
  /\ lap # Off /\ faults < MaxFaults
  /\ lap' = Off /\ faults' = faults + 1
  /\ ack' = Unheard
  /\ UNCHANGED <<hot, old, arch, baks, pending, hotbak, export, state, kept, exports, history>>

-----------------------------------------------------------------------------
(* The acknowledgement (acknowledge_export), a process on the VM.            *)

\* Mutant of AckAllowed: the counts are not compared.
AckAllowedUncounted == pending # NoPending /\ hotbak = "newer"

\* It goes by the PENDING.json of now, the marker, and the counts of now.
AckAllowed == pending # NoPending /\ hotbak = "newer" /\ pending.counts = Counts

\* The laptop starts it without saying which export it merged.
AckBegins(a, pc) ==
  /\ lap.pc = "merged" /\ ack[a] = NoAck
  /\ lap' = [lap EXCEPT !.pc = "acking"]
  /\ ack' = [ack EXCEPT ![a] = [pc |-> pc, table |-> 1, bak |-> pending.bak, ssh |-> TRUE]]
  /\ UNCHANGED <<hot, old, arch, baks, pending, hotbak, export, state, kept, exports, faults, history>>

AckStarts(a) == AckAllowed /\ AckBegins(a, "deleting")

\* Nothing pending, nothing archived: it removes the files and succeeds.
AckNothing(a) == pending = NoPending /\ arch = {} /\ AckBegins(a, "pruning")

AckRefuses ==
  /\ lap.pc = "merged"
  /\ ~AckAllowed /\ ~(pending = NoPending /\ arch = {})
  /\ lap' = Off
  /\ UNCHANGED <<vm, state, kept, exports, faults, history>>

\* Mutant of AckDeletes: the tables in the order they were archived.
AckDeletesParentsFirst(a) ==
  /\ ack[a].pc = "deleting" /\ ack[a].table <= Len(DeleteOrder)
  /\ LET due == {r \in hot \cap arch :
                   TableOf[r] = DeleteOrder[Len(DeleteOrder) + 1 - ack[a].table]}
     IN IF due = {} THEN ack' = [ack EXCEPT ![a].table = @ + 1] /\ UNCHANGED hot
        ELSE \E r \in due : hot' = hot \ {r} /\ UNCHANGED ack
  /\ UNCHANGED <<old, arch, baks, pending, hotbak, export, laptop, exports, faults, history>>

\* Each batch of hot rows that are in the archive now is deleted and committed,
\* table after table.  A batch is one row.
AckDeletes(a) ==
  /\ ack[a].pc = "deleting" /\ ack[a].table <= Len(DeleteOrder)
  /\ LET due == {r \in hot \cap arch : TableOf[r] = DeleteOrder[ack[a].table]}
     IN IF due = {} THEN ack' = [ack EXCEPT ![a].table = @ + 1] /\ UNCHANGED hot
        ELSE \E r \in due : hot' = hot \ {r} /\ UNCHANGED ack
  /\ UNCHANGED <<old, arch, baks, pending, hotbak, export, laptop, exports, faults, history>>

\* All archive tables are emptied in one transaction.
AckTruncates(a) ==
  /\ ack[a].pc = "deleting" /\ ack[a].table > Len(DeleteOrder)
  /\ arch' = {} /\ ack' = [ack EXCEPT ![a].pc = "pruning"]
  /\ emptied' = emptied \cup ({pending.bak} \ {None})
                        \cup (IF export # NoExport THEN {exports} ELSE {})
  /\ UNCHANGED <<hot, old, baks, pending, hotbak, export, laptop, exports, faults,
                 stray, skipped, crossed>>

\* _remove_pending_export_files: every .bak, then PENDING.json.
AckPrunes(a) ==
  /\ ack[a].pc = "pruning"
  /\ baks' = [n \in {} |-> {}] /\ ack' = [ack EXCEPT ![a].pc = "clearing"]
  /\ UNCHANGED <<hot, old, arch, pending, hotbak, export, laptop, exports, faults, history>>

AckEnds(a) ==
  /\ ack[a].pc = "clearing"
  /\ pending' = NoPending /\ ack' = [ack EXCEPT ![a] = NoAck]
  /\ lap' = IF ack[a].ssh THEN [lap EXCEPT !.pc = "acked"] ELSE lap
  /\ UNCHANGED <<hot, old, arch, baks, hotbak, export, state, kept, exports, faults, history>>

\* The VM stops (at 15:45, or at any time) under a job or an acknowledgement.
\* MaxExports leaves an export after the one that is cut.
VmDies ==
  /\ faults < MaxFaults
  /\ export # NoExport \/ Acking
  /\ export # NoExport => exports < MaxExports
  /\ export' = NoExport /\ ack' = [a \in Ackers |-> NoAck] /\ faults' = faults + 1
  /\ lap' = IF lap.pc = "acking" THEN Off ELSE lap
  /\ UNCHANGED <<hot, old, arch, baks, pending, hotbak, state, kept, exports, history>>

-----------------------------------------------------------------------------
Job     == ExportCounts \/ ExportBuilds \/ ExportEnds
Begin   == \E a \in Ackers : AckStarts(a) \/ AckNothing(a)
Laptop  == Pull \/ Merge \/ MergeFails \/ RecordAck \/ Begin \/ AckRefuses
Ack(a)  == AckDeletes(a) \/ AckTruncates(a) \/ AckPrunes(a) \/ AckEnds(a)

Next ==
  \/ \E r \in Rows : Age(r)
  \/ WeeklyArchive \/ ExportNothing \/ HotBackup
  \/ Job \/ Laptop \/ \E a \in Ackers : Ack(a)
  \/ LaptopStops \/ VmDies

\* Every Friday has its export and its backup, the laptop's task is started
\* again every weekday, and an acknowledgement that runs goes on.
Fairness ==
  /\ WF_vars(Job) /\ WF_vars(HotBackup) /\ WF_vars(Laptop)
  /\ \A a \in Ackers : WF_vars(Ack(a))

Spec == Init /\ [][Next]_vars /\ Fairness

-----------------------------------------------------------------------------
(* Properties. *)

Names     == 0 .. MaxExports
AllCounts == [Tables -> 0 .. Cardinality(Rows)]
AckType   == [pc : {"idle", "deleting", "pruning", "clearing"},
              table : 1 .. Len(DeleteOrder) + 1, bak : Names, ssh : BOOLEAN]
LapType   == [pc : {"off", "pulling", "merged", "acking", "acked"}, bak : Names]

\* The variables hold what their comments say (archive_export.py:34-102).
TypeOK ==
  /\ hot \subseteq Rows /\ old \subseteq Rows /\ arch \subseteq Rows /\ kept \subseteq Rows
  /\ DOMAIN baks \subseteq 1 .. MaxExports /\ baks \in [DOMAIN baks -> SUBSET Rows]
  /\ pending \in [bak : Names, counts : AllCounts]
  /\ hotbak \in {"none", "older", "newer"}
  /\ export \in [pc : {"idle", "counted", "built"}, counts : AllCounts]
  /\ ack \in [Ackers -> AckType] /\ lap \in LapType
  /\ state \in [merged : Names, acked : Names]
  /\ exports \in 0 .. MaxExports /\ faults \in 0 .. MaxFaults
  /\ stray \subseteq Rows /\ skipped \subseteq Rows
  /\ crossed \subseteq Names /\ emptied \subseteq Names

\* What may leave the live tables without a copy on the laptop: a row archived
\* while an acknowledgement was deleting, a row that a merge passed over, and
\* the rows acknowledged in the name of an export that crossed the laptop's run
\* or that had been truncated before.
Exposed ==
  stray \cup skipped \cup
  {r \in arch : \E a \in Ackers : ack[a].pc = "deleting" /\ ack[a].bak \in crossed \cup emptied}

\* With that exception the protocol does nothing to a row but what RowTransfer
\* allows (archive_export.py:249: the counts stand for the rows).
Transfer == INSTANCE RowTransfer WITH Rows <- Rows, hot <- hot, kept <- kept, exposed <- Exposed
ImplementsTransfer == Transfer!Spec

\* A leg never outlives its parent in the live tables, at whatever row the
\* acknowledgement is interrupted (the weekly job would never find it again),
\* unless it was archived under a running acknowledgement that had passed its
\* table (archive_registry.py:145, archive_repo.py:381).
LegHasParent == \A r \in hot : ParentOf[r] \in hot \/ r \in stray

\* An export that the laptop has not merged can still be pulled: its .bak is on
\* the VM as long as PENDING.json names it, unless the laptop or an
\* acknowledgement was at work while it was made (archive_export.py:82).
ChunkKept ==
  pending # NoPending /\ state.merged # pending.bak
    => pending.bak \in DOMAIN baks \cup crossed

\* An export does not stay pending for ever: refusals and interruptions are
\* followed by an acknowledgement, unless the rows it counted were truncated
\* before PENDING.json was removed, or its chunk is gone (archive_export.py:215).
PendingClears ==
  []<>(pending = NoPending \/ pending.bak \in emptied \/ pending.bak \notin DOMAIN baks)

-----------------------------------------------------------------------------
(* The inductive invariant behind the safety properties. *)

\* A leg that is still live is archived with its parent.
FamilyArchived == \A r \in hot : ParentOf[r] \in arch => r \in arch

\* An acknowledgement is done with the tables it has passed.
PassedEmpty ==
  \A a \in Ackers : ack[a].pc = "deleting" =>
    \A r \in (hot \cap arch) \ stray, i \in DOMAIN DeleteOrder :
      i < ack[a].table => TableOf[r] # DeleteOrder[i]

\* Around an export that nothing crossed: no laptop and no acknowledgement while
\* it runs; afterwards the laptop works on it, and acknowledges it once merged.
OneAtATime ==
  /\ export # NoExport /\ exports \notin crossed => lap = Off /\ ~Acking
  /\ pending # NoPending /\ pending.bak \notin crossed =>
       /\ lap # Off => lap.bak = pending.bak
       /\ Acking => state.merged = pending.bak
  /\ lap.pc \in {"merged", "acking", "acked"} => state.merged = lap.bak

\* An export that is running has a name that nobody has seen.
NameFresh ==
  /\ DOMAIN baks \subseteq 1 .. exports
  /\ {pending.bak, lap.bak, state.merged} \subseteq 0 .. exports
  /\ export # NoExport => {pending.bak, lap.bak, state.merged} \subseteq 0 .. exports - 1
  /\ export.pc = "built" => exports \in DOMAIN baks \cup crossed
  /\ pending # NoPending => pending.bak # None
  /\ crossed \cup emptied \subseteq 0 .. exports

\* The laptop waits for one acknowledgement at a time.
OneHeard ==
  \A a \in Ackers : ack[a].ssh =>
    lap.pc = "acking" /\ \A b \in Ackers : ack[b].ssh => b = a

\* The rows that were counted are still archived, they are in the .bak of that
\* name, and on the laptop once it has merged that name.
Counted(counts, name) ==
  \E S \in SUBSET arch :
    /\ counts = CountsOf(S)
    /\ name \in DOMAIN baks => S \subseteq baks[name]
    /\ state.merged = name => S \subseteq kept \cup skipped

CountsKept ==
  /\ export.pc = "counted" /\ exports \notin emptied
       => \E S \in SUBSET arch : export.counts = CountsOf(S)
  /\ export.pc = "built" /\ exports \notin emptied => Counted(export.counts, exports)
  /\ pending # NoPending /\ pending.bak \notin emptied => Counted(pending.counts, pending.bak)

\* What is being deleted is on the laptop.
DeletedIsKept ==
  \A a \in Ackers : ack[a].pc = "deleting" /\ ack[a].bak \notin crossed \cup emptied
    => arch \subseteq kept \cup stray \cup skipped

IInv ==
  /\ TypeOK /\ LegHasParent /\ ChunkKept /\ FamilyArchived /\ PassedEmpty
  /\ OneAtATime /\ OneHeard /\ NameFresh /\ CountsKept /\ DeletedIsKept
=============================================================================
