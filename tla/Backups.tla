------------------------------- MODULE Backups -------------------------------
(***************************************************************************)
(* Workspace archives: src/src/localplaud/backups.py makes, lists, deletes *)
(* and restores them, storage_usage.py keeps the newest few, backup_sync   *)
(* .py sends them to another host.                                         *)
(*                                                                         *)
(* A full archive holds a snapshot of the database and the media files it  *)
(* names, taken while downloads, conversions and evictions go on: these    *)
(* move files while they hold the database's write lock, and the archive   *)
(* takes that lock for as long as it takes the snapshot and opens the      *)
(* files.  Playback caches are written in place, without a lock.           *)
(*                                                                         *)
(* One recording stands for the library, one destination for all; archives *)
(* are numbered in the order of their names, which begin with the time.    *)
(***************************************************************************)
EXTENDS Naturals, FiniteSets, FiniteSetsExt

CONSTANTS
    Media,          \* the files of the recording
    Cached,         \* those no column names: playback caches
    Original,       \* the downloaded audio
    MaxArchives,    \* bound: archives asked for, 1 .. MaxArchives
    KeepLatest,     \* the saved limit of retention
    Courier,        \* requests that send an archive
    MaxWrites,      \* bound: changes to the files
    MaxSends        \* bound: sends, destinations made and archives removed

ASSUME BackupConstants ==
    /\ Cached \subseteq Media /\ Original \in Media \ Cached
    /\ MaxArchives \in Nat \ {0} /\ KeepLatest \in Nat \ {0}
    /\ MaxWrites \in Nat /\ MaxSends \in Nat

VARIABLES
    library,        \* the files and the columns that name them
    moving,         \* the transaction that has moved files and not committed
    making,         \* the archive being made, under _BACKUP_LOCK
    store,          \* the directory of archives
    keeping,        \* the retention passes that follow a new archive
    outgoing,       \* the destination, the delivery rows and their senders
    drill,          \* the isolated restore of a downloaded archive
    counts          \* writes and sends so far; what an operator has removed

backupVars == <<library, moving, making, store, keeping, outgoing, drill, counts>>

Archive == 1 .. MaxArchives
Bytes == 0 .. MaxWrites + 1                 \* 0: no such file
Held == [Media -> Bytes]
NoBytes == [m \in Media |-> 0]
Unmoved == [kind |-> "none", named |-> {}, before |-> NoBytes]
Unmade == [step |-> "none", of |-> 0, full |-> FALSE, snap |-> {}, meant |-> NoBytes,
           opened |-> NoBytes, pinned |-> NoBytes, linked |-> {}, copied |-> NoBytes]
Bare == [made |-> FALSE, zip |-> FALSE, sidecar |-> FALSE, leaving |-> FALSE, full |-> FALSE,
         snap |-> {}, meant |-> NoBytes, holds |-> NoBytes]
Resting == [step |-> "idle", of |-> 0, life |-> 0, new |-> FALSE]
NoDrill == [step |-> "none", of |-> 0, sound |-> TRUE, media |-> NoBytes]

BackupTypeOK ==
    /\ library \in [disk : Held, named : SUBSET (Media \ Cached)]
    /\ moving \in [kind : {"none", "publish", "evict"}, named : SUBSET (Media \ Cached), before : Held]
    /\ making \in [step : {"none", "files", "snapped", "copying", "summed", "sided"},
                   of : 0 .. MaxArchives, full : BOOLEAN, snap : SUBSET (Media \ Cached), meant : Held,
                   opened : Held, pinned : Held, linked : SUBSET Media, copied : Held]
    /\ store \in [Archive -> [made : BOOLEAN, zip : BOOLEAN, sidecar : BOOLEAN, leaving : BOOLEAN,
                              full : BOOLEAN, snap : SUBSET (Media \ Cached), meant : Held, holds : Held]]
    /\ keeping \in [Archive -> [step : {"none", "due", "planned", "deleting", "over"},
                                doomed : SUBSET Archive]]
    /\ outgoing \in [life : 0 .. MaxSends + 1, open : BOOLEAN,
                     row : [Archive -> {"none", "running", "completed", "failed"}],
                     got : [Archive -> SUBSET (1 .. MaxSends + 1)],
                     by : [Courier -> [step : {"idle", "read", "sending", "accepted", "refused"},
                                       of : 0 .. MaxArchives, life : 0 .. MaxSends + 1, new : BOOLEAN]]]
    /\ drill \in [step : {"none", "hashed", "extracted", "relinked", "ready"},
                  of : 0 .. MaxArchives, sound : BOOLEAN, media : Held]
    /\ counts \in [writes : 0 .. MaxWrites, sends : 0 .. MaxSends, byHand : SUBSET Archive, crashed : BOOLEAN]

(* A library with its media downloaded, and one destination.               *)
BackupInit ==
    /\ library = [disk |-> [m \in Media |-> IF m \in Cached THEN 0 ELSE 1], named |-> Media \ Cached]
    /\ moving = Unmoved /\ making = Unmade
    /\ store = [a \in Archive |-> Bare]
    /\ keeping = [a \in Archive |-> [step |-> "none", doomed |-> {}]]
    /\ outgoing = [life |-> 1, open |-> TRUE, row |-> [a \in Archive |-> "none"],
                   got |-> [a \in Archive |-> {}], by |-> [c \in Courier |-> Resting]]
    /\ drill = NoDrill
    /\ counts = [writes |-> 0, sends |-> 0, byHand |-> {}, crashed |-> FALSE]

----------------------------------------------------------------------------
(* The files.  A publication replaces a file, an eviction renames the files*)
(* away (_quarantine), both under the write lock and before their commit.  *)
LockFreeForFiles == moving.kind = "none" /\ ~(making.step = "snapped" /\ making.full)
Touches(d) ==
    /\ counts.writes < MaxWrites
    /\ counts' = [counts EXCEPT !.writes = @ + 1]
    /\ library' = [library EXCEPT !.disk = d]
NewBytes == counts.writes + 2

(* A path that is replaced or renamed no longer leads to the pinned file.  *)
Detaches(ms) == making' = [making EXCEPT !.linked = @ \ ms]

Replaces(m) ==
    /\ LockFreeForFiles
    /\ Touches([library.disk EXCEPT ![m] = NewBytes])
    /\ moving' = [kind |-> "publish", named |-> library.named \cup {m}, before |-> library.disk]
    /\ Detaches({m})
    /\ UNCHANGED <<store, keeping, outgoing, drill>>

Evicts(ms) ==
    /\ LockFreeForFiles
    /\ Touches([m \in Media |-> IF m \in ms THEN 0 ELSE library.disk[m]])
    /\ moving' = [kind |-> "evict", named |-> library.named \ ms, before |-> library.disk]
    /\ Detaches(ms)
    /\ UNCHANGED <<store, keeping, outgoing, drill>>

Commits ==
    /\ moving.kind # "none"
    /\ library' = [library EXCEPT !.named = moving.named]
    /\ moving' = Unmoved
    /\ UNCHANGED <<making, store, keeping, outgoing, drill, counts>>

(* A rolled back eviction puts its files back (_restore_quarantine).       *)
RollsBack ==
    /\ moving.kind # "none"
    /\ library' = [library EXCEPT !.disk = IF moving.kind = "evict" THEN moving.before ELSE @]
    /\ moving' = Unmoved
    /\ UNCHANGED <<making, store, keeping, outgoing, drill, counts>>

(* The peaks of a waveform, written over the cache file or to a new one.   *)
Caches(m) ==
    /\ Touches([library.disk EXCEPT ![m] = NewBytes])
    /\ making' = [making EXCEPT !.pinned[m] = IF m \in making.linked THEN NewBytes ELSE @]
    /\ UNCHANGED <<moving, store, keeping, outgoing, drill>>

----------------------------------------------------------------------------
(* create_workspace_backup, one at a time.                                 *)
StartsArchive(full) ==
    /\ making.step = "none"
    /\ \E a \in Archive :
         /\ \A b \in Archive : keeping[b].step = "none" <=> b >= a
         /\ making' = [Unmade EXCEPT !.step = "files", !.of = a, !.full = full]
    /\ UNCHANGED <<library, moving, store, keeping, outgoing, drill, counts>>

Only(ms) == [m \in Media |-> IF m \in ms THEN library.disk[m] ELSE 0]

(* BEGIN IMMEDIATE and the online copy of the database.  meant: the bytes  *)
(* the columns name at that moment.                                        *)
Barrier == making.full => moving.kind = "none"
TakesSnapshot ==
    /\ making.step = "files" /\ Barrier
    /\ making' = [making EXCEPT !.step = "snapped", !.snap = library.named,
                                !.meant = Only(library.named)]
    /\ UNCHANGED <<library, moving, store, keeping, outgoing, drill, counts>>

(* The inventory, opened before the lock is let go: the files the snapshot *)
(* names, and those that stand in the recording's directory, each with its *)
(* size and time (fstat), which a write changes.                           *)
Pins ==
    /\ making.step = "snapped" /\ making.full
    /\ \A m \in making.snap : library.disk[m] # 0
    /\ making' = [making EXCEPT !.step = "copying", !.opened = library.disk, !.pinned = library.disk,
                                !.meant = [m \in Media |-> IF m \in making.snap THEN @[m]
                                                            ELSE library.disk[m]],
                                !.linked = {m \in Media : library.disk[m] # 0}]
    /\ UNCHANGED <<library, moving, store, keeping, outgoing, drill, counts>>

(* A file that was written to since it was opened fails the copy.          *)
Unchanged(m) == making.pinned[m] = making.opened[m]
Copies(m) ==
    /\ making.step = "copying"
    /\ making.opened[m] # 0 /\ making.copied[m] = 0
    /\ Unchanged(m)
    /\ making' = [making EXCEPT !.copied[m] = making.pinned[m]]
    /\ UNCHANGED <<library, moving, store, keeping, outgoing, drill, counts>>

Packs ==
    /\ \/ making.step = "snapped" /\ ~making.full
       \/ making.step = "copying" /\ \A m \in Media : making.opened[m] # 0 => making.copied[m] # 0
    /\ making' = [making EXCEPT !.step = "summed", !.opened = NoBytes, !.pinned = NoBytes, !.linked = {}]
    /\ UNCHANGED <<library, moving, store, keeping, outgoing, drill, counts>>

(* The sidecar first, so that an archive one can see has its digest.       *)
PutsSidecar ==
    /\ making.step = "summed"
    /\ making' = [making EXCEPT !.step = "sided"]
    /\ store' = [store EXCEPT ![making.of].sidecar = TRUE]
    /\ UNCHANGED <<library, moving, keeping, outgoing, drill, counts>>
PutsArchive ==
    /\ making.step = "sided"
    /\ store' = [store EXCEPT ![making.of] =
                   [@ EXCEPT !.made = TRUE, !.zip = TRUE, !.full = making.full, !.snap = making.snap,
                             !.meant = making.meant, !.holds = making.copied]]
    /\ keeping' = [keeping EXCEPT ![making.of].step = "due"]
    /\ making' = Unmade
    /\ UNCHANGED <<library, moving, outgoing, drill, counts>>

(* A lock not got, a file that is missing or torn, a full disk: what was   *)
(* begun is unlinked, and the name is not used again.                      *)
ArchiveFails ==
    /\ making.step # "none"
    /\ making' = Unmade
    /\ store' = [store EXCEPT ![making.of].sidecar = FALSE]
    /\ keeping' = [keeping EXCEPT ![making.of].step = "over"]
    /\ UNCHANGED <<library, moving, outgoing, drill, counts>>

----------------------------------------------------------------------------
(* enforce_retention_after_backup: a plan, checked against a second one,   *)
(* and the archives in both deleted, the archive before its sidecar.       *)
Visible == {a \in Archive : store[a].zip}
NewestFull == LET full == {a \in Visible : store[a].full} IN IF full = {} THEN {} ELSE {Max(full)}
Beyond == {a \in Visible : Cardinality({b \in Visible : b > a}) >= KeepLatest}
Plan == Beyond \ NewestFull

PlansDeletion(a) ==
    /\ keeping[a].step \in {"due", "planned"}
    /\ keeping' = [keeping EXCEPT ![a] =
         IF @.step = "due" THEN [step |-> "planned", doomed |-> Plan]
                           ELSE [step |-> "deleting", doomed |-> @.doomed \cap Plan]]
    /\ UNCHANGED <<library, moving, making, store, outgoing, drill, counts>>

(* An archive somebody else has deleted meanwhile is passed over.          *)
Unlinked(a) == [store EXCEPT ![a].zip = FALSE, ![a].leaving = @ \/ store[a].zip]
DeletesArchive(a, b) ==
    /\ keeping[a].step = "deleting" /\ b \in keeping[a].doomed
    /\ store' = Unlinked(b)
    /\ keeping' = [keeping EXCEPT ![a].doomed = @ \ {b}]
    /\ UNCHANGED <<library, moving, making, outgoing, drill, counts>>

(* A pass ends: nothing is left to delete, a listing met an archive that   *)
(* was deleted under it, or the request has gone.                          *)
KeepingEnds(a) ==
    /\ keeping[a].step \in {"due", "planned", "deleting"}
    /\ keeping' = [keeping EXCEPT ![a] = [step |-> "over", doomed |-> {}]]
    /\ UNCHANGED <<library, moving, making, store, outgoing, drill, counts>>

(* An operator deletes one (DELETE /api/backups/{name}).                   *)
Removes(a) ==
    /\ store[a].zip /\ counts.sends < MaxSends
    /\ store' = Unlinked(a)
    /\ counts' = [counts EXCEPT !.sends = @ + 1, !.byHand = @ \cup {a}]
    /\ UNCHANGED <<library, moving, making, keeping, outgoing, drill>>

(* The second half of a deletion.                                          *)
DropsSidecar(a) ==
    /\ store[a].leaving
    /\ store' = [store EXCEPT ![a].sidecar = FALSE, ![a].leaving = FALSE]
    /\ UNCHANGED <<library, moving, making, keeping, outgoing, drill, counts>>

----------------------------------------------------------------------------
(* deliver_backup.  The key of a delivery is the digest of the archive and *)
(* the id of the destination, and a new destination gets the id of a       *)
(* deleted one: SQLite hands the largest id out again.                     *)
Courses(c, r) == outgoing' = [outgoing EXCEPT !.by[c] = r]

(* The delivery row is read before the write that marks it running; of two *)
(* that find none the second fails on the key.                             *)
LooksAt(c, a) ==
    /\ outgoing.by[c] = Resting /\ store[a].zip
    /\ outgoing.life # 0 /\ outgoing.open /\ outgoing.row[a] # "completed"
    /\ counts.sends < MaxSends
    /\ counts' = [counts EXCEPT !.sends = @ + 1]
    /\ Courses(c, [step |-> "read", of |-> a, life |-> outgoing.life,
                   new |-> outgoing.row[a] = "none"])
    /\ UNCHANGED <<library, moving, making, store, keeping, drill>>

MarksRunning(c) ==
    LET r == outgoing.by[c] IN
    /\ r.step = "read"
    /\ IF r.new /\ outgoing.row[r.of] # "none" THEN Courses(c, Resting)
       ELSE outgoing' = [outgoing EXCEPT !.by[c].step = "sending", !.row[r.of] = "running"]
    /\ UNCHANGED <<library, moving, making, store, keeping, drill, counts>>

(* The PUT: accepted, refused, or accepted and the answer lost.            *)
Sends(c) ==
    LET r == outgoing.by[c] IN
    /\ r.step = "sending"
    /\ \/ /\ store[r.of].zip
          /\ \E answer \in {"accepted", "refused"} :
               outgoing' = [outgoing EXCEPT !.got[r.of] = @ \cup {r.life}, !.by[c].step = answer]
       \/ Courses(c, [r EXCEPT !.step = "refused"])
    /\ UNCHANGED <<library, moving, making, store, keeping, drill, counts>>

(* The answer is written over what stands in the row by then.              *)
SettledAs(r) == IF r.step = "accepted" THEN {"completed", "failed"} ELSE {"failed"}
Settles(c) ==
    LET r == outgoing.by[c] IN
    /\ r.step \in {"accepted", "refused"}
    /\ \E answer \in SettledAs(r) :
         outgoing' = [outgoing EXCEPT !.by[c] = Resting, !.row[r.of] = answer]
    /\ UNCHANGED <<library, moving, making, store, keeping, drill, counts>>

(* save_destination and delete_destination.                                *)
Revokes ==
    /\ outgoing.life # 0
    /\ outgoing' = [outgoing EXCEPT !.open = FALSE]
    /\ UNCHANGED <<library, moving, making, store, keeping, drill, counts>>
Authorises ==
    /\ ~outgoing.open /\ counts.sends < MaxSends
    /\ counts' = [counts EXCEPT !.sends = @ + 1]
    /\ outgoing' = [outgoing EXCEPT !.open = TRUE, !.life = @ + 1]
    /\ UNCHANGED <<library, moving, making, store, keeping, drill>>

----------------------------------------------------------------------------
(* restore_workspace_backup, of a downloaded copy into a new directory.    *)
(* The copy is hashed, its members are extracted and checked, the columns  *)
(* are rewritten, and the copy is hashed again.                            *)
Drills(a) ==
    /\ drill.step = "none" /\ store[a].zip /\ store[a].full
    /\ drill' = [NoDrill EXCEPT !.step = "hashed", !.of = a]
    /\ UNCHANGED <<library, moving, making, store, keeping, outgoing, counts>>
Unpacks ==
    /\ drill.step = "hashed"
    /\ drill' = [drill EXCEPT !.step = "extracted", !.media = store[drill.of].holds]
    /\ UNCHANGED <<library, moving, making, store, keeping, outgoing, counts>>
Relinks ==
    /\ drill.step = "extracted"
    /\ \A m \in store[drill.of].snap : drill.media[m] # 0
    /\ drill' = [drill EXCEPT !.step = "relinked"]
    /\ UNCHANGED <<library, moving, making, store, keeping, outgoing, counts>>
Approves ==
    /\ drill.step = "relinked" /\ drill.sound
    /\ drill' = [drill EXCEPT !.step = "ready"]
    /\ UNCHANGED <<library, moving, making, store, keeping, outgoing, counts>>
(* The copy is written to while it is read.                                *)
Spoils ==
    /\ drill.step \in {"hashed", "extracted", "relinked"} /\ drill.sound
    /\ drill' = [drill EXCEPT !.sound = FALSE]
    /\ UNCHANGED <<library, moving, making, store, keeping, outgoing, counts>>
Discards ==
    /\ drill.step \in {"hashed", "extracted", "relinked"}
    /\ drill' = NoDrill
    /\ UNCHANGED <<library, moving, making, store, keeping, outgoing, counts>>

----------------------------------------------------------------------------
(* The process dies: the files it moved stay where they are, the database  *)
(* rolls back, a sidecar without its archive and a row that says running   *)
(* stay behind.                                                            *)
Dies ==
    /\ ~counts.crashed
    /\ counts' = [counts EXCEPT !.crashed = TRUE]
    /\ moving' = Unmoved /\ making' = Unmade /\ drill' = NoDrill
    /\ store' = [a \in Archive |-> [store[a] EXCEPT !.leaving = FALSE]]
    /\ keeping' = [a \in Archive |-> IF keeping[a].step = "none" /\ a # making.of THEN keeping[a]
                                     ELSE [step |-> "over", doomed |-> {}]]
    /\ outgoing' = [outgoing EXCEPT !.by = [c \in Courier |-> Resting]]
    /\ UNCHANGED library

Referenced == Media \ Cached
FilesMove ==
    \/ \E m \in Referenced : Replaces(m)
    \/ \E ms \in {Media, Referenced \ {Original}} : Evicts(ms)
    \/ \E m \in Cached : Caches(m)
    \/ Commits \/ RollsBack
Makes ==
    \/ \E full \in BOOLEAN : StartsArchive(full)
    \/ \E m \in Media : Copies(m)
    \/ TakesSnapshot \/ Pins \/ Packs \/ PutsSidecar \/ PutsArchive \/ ArchiveFails
Keeps ==
    \E a \in Archive :
        \/ PlansDeletion(a) \/ KeepingEnds(a) \/ Removes(a) \/ DropsSidecar(a)
        \/ \E b \in Archive : DeletesArchive(a, b)
Delivers ==
    \/ \E c \in Courier : MarksRunning(c) \/ Sends(c) \/ Settles(c) \/ \E a \in Archive : LooksAt(c, a)
    \/ Revokes \/ Authorises
DrillStep ==
    \/ \E a \in Archive : Drills(a)
    \/ Unpacks \/ Relinks \/ Approves \/ Spoils \/ Discards
BackupNext == FilesMove \/ Makes \/ Keeps \/ Delivers \/ DrillStep \/ Dies

BackupSpec == BackupInit /\ [][BackupNext]_backupVars

----------------------------------------------------------------------------
(* A full archive holds, for every column of its snapshot, the bytes that  *)
(* the column named when the snapshot was taken, whatever was downloaded,  *)
(* evicted or rewritten while it was made; of a cache, the bytes it had    *)
(* when it was opened.                                                     *)
ArchiveIsWhole ==
    \A a \in Visible : store[a].full =>
        \A m \in Media : /\ store[a].holds[m] = store[a].meant[m]
                         /\ m \in store[a].snap => store[a].holds[m] # 0

(* "a visible archive always has its sidecar ready" (backups.py:277).      *)
VisibleHasSidecar == \A a \in Visible : store[a].sidecar

(* Retention deletes neither one of the newest archives nor the only full  *)
(* copy: "database-only backups can never push out the only full copy"     *)
(* (storage_usage.py:130), short of a deletion by hand.                    *)
RetentionKeepsEnough ==
    counts.byHand = {} =>
        /\ \A a \in Archive \ Visible : store[a].made =>
             Cardinality({b \in Visible : b > a}) >= KeepLatest
        /\ (\E a \in Archive : store[a].full) => NewestFull # {}

(* A delivery is completed only when a destination accepted the archive,   *)
(* and running only while somebody sends it, short of a crash.             *)
DeliveriesAreHonest ==
    \A a \in Archive :
        /\ outgoing.row[a] = "completed" => outgoing.got[a] # {}
        /\ outgoing.row[a] = "running" /\ ~counts.crashed =>
             \E c \in Courier : outgoing.by[c].of = a /\ outgoing.by[c].step # "read"

(* A drill that reports success has a file for every column of the         *)
(* restored database, with the bytes the library had for it.               *)
RestoredIsWhole ==
    drill.step = "ready" =>
        \A m \in store[drill.of].snap : drill.media[m] = store[drill.of].meant[m] /\ drill.media[m] # 0

BackupSafety ==
    ArchiveIsWhole /\ VisibleHasSidecar /\ RetentionKeepsEnough /\ DeliveriesAreHonest /\ RestoredIsWhole
=============================================================================
