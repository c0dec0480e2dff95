------------------------------ MODULE Bitcask ------------------------------
(***************************************************************************)
(* The Bitcask storage engine of src/src/storage/bitcask.rs: one writer    *)
(* (Handle.writer, a mutex around Writer) appending to the active data     *)
(* file, a pool of Reader contexts doing point reads through their own     *)
(* cache of mapped files, the background merge task, and a crash followed *)
(* by Bitcask::open, which rebuilds the KeyDir from the files on disk.     *)
(*                                                                         *)
(* Data is abstracted to what the properties tell apart: a key and a value *)
(* are model values, a record is [key, val] with val = Nil for a          *)
(* tombstone, its length on disk is ValueLen or TombLen, and a position in *)
(* a file is the index of the record in the file's sequence of records.   *)
(* Timestamps are left out: nothing in the code orders by them.           *)
(***************************************************************************)
EXTENDS Integers, Sequences, SequencesExt, FiniteSets, TLC

CONSTANTS
    Keys,           \* keys written by clients (model values)
    Values,         \* values written by clients (model values)
    Nil,            \* Option::None: a tombstone's value, an absent KeyDir entry
    Readers,        \* the Reader contexts in Handle.readers (conf.concurrency)
    ValueLen,       \* bytes on disk of a record holding a value
    TombLen,        \* bytes on disk of a tombstone record
    MaxFileSize,    \* conf.max_file_size
    BufCapacity,    \* capacity of the std BufWriter around a merge data file
    MergeEnable,    \* conf.merge.enable
    TrigDeadBytes,  \* conf.merge.triggers.dead_bytes
    TrigFrag,       \* conf.merge.triggers.fragmentation, as <<num, den>>
    ThrDeadBytes,   \* conf.merge.thresholds.dead_bytes
    ThrFrag,        \* conf.merge.thresholds.fragmentation, as <<num, den>>
    ThrSmallFile,   \* conf.merge.thresholds.small_file
    MaxOps,         \* bound: put/delete calls in a behaviour
    MaxMerges,      \* bound: merges in a behaviour
    MaxCrashes,     \* bound: crash-and-reopen cycles in a behaviour
    UnlinkMayFail,  \* fs::remove_file may fail with an error other than NotFound
    CreateMayFail   \* log::create of a new active data file may fail

ASSUME Nil \notin Values
ASSUME Readers # {}
ASSUME \A n \in {ValueLen, TombLen} : n \in Nat \ {0}
ASSUME \A n \in {MaxFileSize, BufCapacity, TrigDeadBytes, ThrDeadBytes,
                 ThrSmallFile, MaxOps, MaxMerges, MaxCrashes} : n \in Nat
ASSUME UnlinkMayFail \in BOOLEAN /\ CreateMayFail \in BOOLEAN
\* A fraction <<num, den>> the Config setters accept: they assert
\* (0.0..=1.0).contains(&fragmentation).
IsFraction(f) == f \in Nat \X (Nat \ {0}) /\ f[1] <= f[2]

ASSUME IsFraction(TrigFrag) /\ IsFraction(ThrFrag)

VARIABLES
    data,     \* data files on disk: file id -> sequence of records written to the file
    hint,     \* hint files on disk: file id -> sequence of [key, pos, len]
    buf,      \* records held in the merge data file's BufWriter, not yet written
    keydir,   \* Context.keydir: key -> [fileid, pos, len], or Nil
    stats,    \* Context.stats: file id -> LogStatistics
    merged,   \* Context.merged: ids of files merged during this process' lifetime
    active,   \* Writer.active_fileid
    wpc,      \* what the thread holding the writer mutex is doing
    mtask,    \* the merge_on_interval task: "sleep", or "lock" once can_merge held
    rpc,      \* per Reader: "idle" or holding a KeyDir entry; last result
    pool,     \* Handle.readers: the ArrayQueue of Readers no get holds, head first
    cache,    \* per Reader: ids of the files mapped in its LogDir
    wfid,     \* id of the file Writer.writer appends to (active, unless a create failed)
    orphan,   \* the writer's file after it was unlinked: the inode it still appends to
    nOps, nMerges, nCrashes   \* counters behind the bounds

vars == <<data, hint, buf, keydir, stats, merged, active, wpc, mtask, rpc, pool, wfid, orphan,
          cache, nOps, nMerges, nCrashes>>

-----------------------------------------------------------------------------
(* Records, sizes and statistics *)

Record == [key : Keys, val : Values \cup {Nil}]
Entry == [fileid : Nat, pos : Nat \ {0}, len : Nat]
Stat == [live : Int, dead : Nat, deadBytes : Nat]

\* Serialised length of a DataFileEntry.
RecLen(rec) == IF rec.val = Nil THEN TombLen ELSE ValueLen

\* Number of bytes in a sequence of records.
SegSize(s) == FoldLeft(LAMBDA acc, rec : acc + RecLen(rec), 0, s)

Zero == [live |-> 0, dead |-> 0, deadBytes |-> 0]

\* stats.entry(f).or_default()
StatOf(st, f) == IF f \in DOMAIN st THEN st[f] ELSE Zero

\* LogStatistics::add_live
AddLive(st, f) == (f :> [StatOf(st, f) EXCEPT !.live = @ + 1]) @@ st

\* Mutant: the tombstone's bytes are not added to dead_bytes.
AddDead_noBytes(st, f, n) == (f :> [StatOf(st, f) EXCEPT !.dead = @ + 1]) @@ st

\* LogStatistics::add_dead
AddDead(st, f, n) ==
    (f :> [StatOf(st, f) EXCEPT !.dead = @ + 1, !.deadBytes = @ + n]) @@ st

\* Mutant: overwrite moves a key the wrong way, from dead to live.
Overwrite_swapped(st, f, n) ==
    (f :> [StatOf(st, f) EXCEPT !.live = @ + 1, !.dead = @ - 1]) @@ st

\* LogStatistics::overwrite: a live key of file f becomes dead.
Overwrite(st, f, n) ==
    (f :> [StatOf(st, f) EXCEPT !.live = @ - 1, !.dead = @ + 1,
                                !.deadBytes = @ + n]) @@ st

\* fragmentation() > frac, with frac = <<num, den>>; 0.0 when dead_keys = 0.
FragAbove(s, frac) ==
    /\ s.dead # 0
    /\ s.dead * frac[2] > frac[1] * (s.dead + s.live)

\* The record an entry points at is in its file: LogDir maps the file and
\* decodes at (pos, len) inside the mapping.
Readable(e) == e.fileid \in DOMAIN data /\ e.pos <= Len(data[e.fileid])

\* Function f without the points of S.
Without(f, S) == [x \in DOMAIN f \ S |-> f[x]]

-----------------------------------------------------------------------------
(* Recovery: rebuild_storage and the two populate_keydir_with_* functions. *)

\* Mutant: recovery inserts the entry without add_live.
RecoverPut_noLive(acc, k, e) ==
    LET prev == acc.kd[k] IN
    [kd |-> [acc.kd EXCEPT ![k] = e],
     st |-> IF prev = Nil THEN acc.st ELSE Overwrite(acc.st, prev.fileid, prev.len)]

\* Mutant: recovery charges the overwrite to the new entry's file.
RecoverPut_wrongFile(acc, k, e) ==
    LET prev == acc.kd[k]
        st   == AddLive(acc.st, e.fileid)
    IN  [kd |-> [acc.kd EXCEPT ![k] = e],
         st |-> IF prev = Nil THEN st ELSE Overwrite(st, e.fileid, prev.len)]

\* Insert k -> e into the KeyDir being rebuilt; the file of the entry it
\* replaces loses a live key.
RecoverPut(acc, k, e) ==
    LET prev == acc.kd[k]
        st   == AddLive(acc.st, e.fileid)
    IN  [kd |-> [acc.kd EXCEPT ![k] = e],
         st |-> IF prev = Nil THEN st ELSE Overwrite(st, prev.fileid, prev.len)]

populate_keydir_with_hintfile(acc, f, hs) ==
    FoldLeft(LAMBDA a, h : RecoverPut(a, h.key,
                               [fileid |-> f, pos |-> h.pos, len |-> h.len]),
             acc, hs)

\* Mutant: tombstones are skipped without add_dead.
populate_keydir_with_datafile_noTomb(acc, f, recs) ==
    FoldLeftDomain(
        LAMBDA a, i :
            IF recs[i].val = Nil THEN a
            ELSE RecoverPut(a, recs[i].key,
                            [fileid |-> f, pos |-> i, len |-> RecLen(recs[i])]),
        acc, recs)

\* A tombstone only adds a dead key to its file's statistics.
populate_keydir_with_datafile(acc, f, recs) ==
    FoldLeftDomain(
        LAMBDA a, i :
            IF recs[i].val = Nil
            THEN [a EXCEPT !.st = AddDead(@, f, RecLen(recs[i]))]
            ELSE RecoverPut(a, recs[i].key,
                            [fileid |-> f, pos |-> i, len |-> RecLen(recs[i])]),
        acc, recs)

\* utils::sorted_fileids: the ids of the data files, smallest first.
RECURSIVE sorted_fileids(_)
sorted_fileids(S) ==
    IF S = {} THEN <<>> ELSE <<Min(S)>> \o sorted_fileids(S \ {Min(S)})

\* Files in ascending id order; the hint file is read when it exists.
rebuild_storage(d, h) ==
    FoldLeft(LAMBDA a, f :
                 IF f \in DOMAIN h
                 THEN populate_keydir_with_hintfile(a, f, h[f])
                 ELSE populate_keydir_with_datafile(a, f, d[f]),
             [kd |-> [k \in Keys |-> Nil], st |-> <<>>],
             sorted_fileids(DOMAIN d))

\* Mutant: the active id after recovery is the largest id itself.
RecoveredActive_noIncr(d) ==
    IF DOMAIN d = {} THEN 0 ELSE CHOOSE m \in DOMAIN d : \A f \in DOMAIN d : f <= m

\* Active id after recovery: the largest file id plus one, 0 when none.
RecoveredActive(d) ==
    IF DOMAIN d = {} THEN 0
    ELSE 1 + CHOOSE m \in DOMAIN d : \A f \in DOMAIN d : f <= m

-----------------------------------------------------------------------------
(* The file contents a reader of an entry sees. *)

\* What the writer has produced for file f: the file plus, for the merge
\* file being written, the bytes still in its BufWriter.
Logical(f) ==
    data[f] \o (IF wpc.st = "merge" /\ wpc.fid = f THEN buf ELSE <<>>)

\* The value the record at entry e of key k holds, "lost" when no record of
\* k is there.
ValueAt(k, e) ==
    IF /\ e.fileid \in DOMAIN data
       /\ e.pos <= Len(Logical(e.fileid))
       /\ Logical(e.fileid)[e.pos].key = k
    THEN Logical(e.fileid)[e.pos].val
    ELSE "lost"

\* The map the handle currently presents to its callers.
KVView == [k \in Keys |-> IF keydir[k] = Nil THEN Nil ELSE ValueAt(k, keydir[k])]

\* No Reader holds a reference into the KeyDir entry of k (a DashMap Ref
\* holds its shard's read lock, which insert, remove and iter_mut wait for).
Unreferenced(k) == \A r \in Readers : rpc[r].st = "idle" \/ rpc[r].key # k

\* The keys whose KeyDir entry points into one of the files S.
EntriesIn(S) == {k \in Keys : keydir[k] # Nil /\ keydir[k].fileid \in S}

-----------------------------------------------------------------------------
(* Initial state: Bitcask::open on an empty directory. *)

\* Bitcask::open pushes readers.capacity() fresh Readers: conf.concurrency
\* of them, or one when it is 0 (Readers is never empty).  The Readers are
\* alike, so the queue may hold them in any order.
OpenedPool == SetToSeqs(Readers)

IdleReader == [st |-> "idle", key |-> Nil, entry |-> Nil, expect |-> Nil,
               res |-> Nil]

Init ==
    /\ data = 0 :> <<>>
    /\ hint = <<>>
    /\ buf = <<>>
    /\ keydir = [k \in Keys |-> Nil]
    /\ stats = <<>>
    /\ merged = {}
    /\ active = 0
    /\ wpc = [st |-> "idle"]
    /\ mtask = "sleep"
    /\ wfid = 0
    /\ orphan = <<>>
    /\ rpc = [r \in Readers |-> IdleReader]
    /\ pool \in OpenedPool
    /\ cache = [r \in Readers |-> {}]
    /\ nOps = 0 /\ nMerges = 0 /\ nCrashes = 0

-----------------------------------------------------------------------------
(* Writer: put and delete.                                                 *)
(* Writer::write appends the record, counts it in the active file's        *)
(* statistics and rolls the active file over when it grew past            *)
(* max_file_size; only then do put/delete update the KeyDir (WriterIndex). *)

\* What the writer's LogWriter has written since it created the active
\* file (so its size is written_bytes): the data file, or, once a merge
\* unlinked it, the inode the LogWriter still holds open.
ActiveFile == IF wfid \in DOMAIN data THEN data[wfid] ELSE orphan

\* The LogWriter's file now holds f1.  Past max_file_size,
\* new_active_datafile(active_fileid + 1) first sets active_fileid, then
\* log::create makes the next file (truncating one that exists) and the
\* writer moves to it; when the create fails the writer stays on its file.
AppendActive(f1, roll, created) ==
    LET d1  == IF wfid \in DOMAIN data THEN [data EXCEPT ![wfid] = f1] ELSE data
        new == roll /\ created
    IN
    /\ data' = IF new THEN (active + 1 :> <<>>) @@ d1 ELSE d1
    /\ orphan' = IF wfid \notin DOMAIN data /\ ~new THEN f1 ELSE <<>>
    /\ active' = IF roll THEN active + 1 ELSE active
    /\ wfid' = IF new THEN active + 1 ELSE wfid

\* Mutant: the KeyDir entry is built after the rollover, naming the new file.
Write_entryAfterRoll(k, v) ==
    LET rec  == [key |-> k, val |-> v]
        f1   == Append(ActiveFile, rec)
        roll == SegSize(f1) > MaxFileSize
    IN
    /\ wpc.st = "idle"
    /\ nOps < MaxOps
    /\ stats' = IF v # Nil THEN AddLive(stats, active)
                           ELSE AddDead(stats, active, RecLen(rec))
    /\ AppendActive(f1, roll, TRUE)
    /\ wpc' = [st |-> "index", key |-> k, val |-> v,
               entry |-> [fileid |-> active', pos |-> Len(f1), len |-> RecLen(rec)]]
    /\ nOps' = nOps + 1
    /\ UNCHANGED <<hint, buf, keydir, merged, mtask, rpc, pool, cache, nMerges, nCrashes>>

Write(k, v) ==
    LET rec == [key |-> k, val |-> v]
        f1  == Append(ActiveFile, rec)
        e   == [fileid |-> active, pos |-> Len(f1), len |-> RecLen(rec)]
        roll == SegSize(f1) > MaxFileSize
    IN
    /\ wpc.st = "idle"
    /\ nOps < MaxOps
    /\ stats' = IF v # Nil THEN AddLive(stats, active)
                           ELSE AddDead(stats, active, RecLen(rec))
    /\ AppendActive(f1, roll, TRUE)
    /\ wpc' = [st |-> "index", key |-> k, val |-> v, entry |-> e]
    /\ nOps' = nOps + 1
    /\ UNCHANGED <<hint, buf, keydir, merged, mtask, rpc, pool, cache, nMerges, nCrashes>>

\* The same write when the rollover's log::create fails: active_fileid has
\* already advanced, the writer stays on its file with written_bytes not
\* reset, and write() returns the error before put or delete touch the
\* KeyDir.  The record and its statistics stay, with no entry for them.
WriteRollFail(k, v) ==
    LET rec == [key |-> k, val |-> v]
        f1  == Append(ActiveFile, rec)
    IN
    /\ CreateMayFail
    /\ wpc.st = "idle"
    /\ nOps < MaxOps
    /\ SegSize(f1) > MaxFileSize
    /\ stats' = IF v # Nil THEN AddLive(stats, active)
                           ELSE AddDead(stats, active, RecLen(rec))
    /\ AppendActive(f1, TRUE, FALSE)
    /\ nOps' = nOps + 1
    /\ UNCHANGED <<wpc, hint, buf, keydir, merged, mtask, rpc, pool, cache, nMerges,
                   nCrashes>>

\* Mutant: the replaced entry's file is not charged with the overwrite.
WriterIndex_noOverwrite ==
    /\ wpc.st = "index"
    /\ Unreferenced(wpc.key)
    /\ keydir' = [keydir EXCEPT ![wpc.key] = IF wpc.val = Nil THEN Nil ELSE wpc.entry]
    /\ wpc' = [st |-> "idle"]
    /\ UNCHANGED <<orphan, wfid, data, hint, buf, stats, merged, active, mtask, rpc, pool, cache, nOps,
                   nMerges, nCrashes>>

\* Mutant: delete writes its tombstone but leaves the KeyDir entry.
WriterIndex_delKeeps ==
    LET prev == keydir[wpc.key] IN
    /\ wpc.st = "index"
    /\ Unreferenced(wpc.key)
    /\ keydir' = IF wpc.val = Nil THEN keydir ELSE [keydir EXCEPT ![wpc.key] = wpc.entry]
    /\ stats' = IF prev = Nil THEN stats ELSE Overwrite(stats, prev.fileid, prev.len)
    /\ wpc' = [st |-> "idle"]
    /\ UNCHANGED <<orphan, wfid, data, hint, buf, merged, active, mtask, rpc, pool, cache, nOps,
                   nMerges, nCrashes>>

\* Writer::put and Writer::delete after write() returned: insert or remove
\* the KeyDir entry; the file of the replaced entry loses a live key.
WriterIndex ==
    LET k    == wpc.key
        prev == keydir[k]
    IN
    /\ wpc.st = "index"
    /\ Unreferenced(k)
    /\ keydir' = [keydir EXCEPT ![k] = IF wpc.val = Nil THEN Nil ELSE wpc.entry]
    /\ stats' = IF prev = Nil THEN stats ELSE Overwrite(stats, prev.fileid, prev.len)
    /\ wpc' = [st |-> "idle"]
    /\ UNCHANGED <<orphan, wfid, data, hint, buf, merged, active, mtask, rpc, pool, cache, nOps,
                   nMerges, nCrashes>>

-----------------------------------------------------------------------------
(* Readers: Handle::get pops a Reader and runs Reader::get.                *)

\* readers.pop() hands the get the Reader at the head of the queue (while
\* the queue is empty the get spins: no step), and keydir.get(&key)
\* returns a Ref to a present entry.  (An absent key returns None, and the
\* Reader is pushed back, without touching any other state.)
GetLookup(r, k) ==
    /\ pool # <<>>
    /\ r = Head(pool)
    /\ pool' = Tail(pool)
    /\ keydir[k] # Nil
    /\ rpc' = [rpc EXCEPT ![r] = [st |-> "holding", key |-> k,
                                  entry |-> keydir[k],
                                  expect |-> KVView[k], res |-> Nil]]
    /\ UNCHANGED <<orphan, wfid, data, hint, buf, keydir, stats, merged, active, wpc, mtask,
                   cache, nOps, nMerges, nCrashes>>

\* Mutant: the record is decoded one position past the entry's.
GetRead_offByOne(r) ==
    LET e    == rpc[r].entry
        f    == e.fileid
        kept == cache[r] \ merged
        res  == IF f \notin DOMAIN data
                THEN IF f \in kept THEN "unlinked" ELSE "notfound"
                ELSE IF e.pos < Len(data[f]) THEN data[f][e.pos + 1].val
                ELSE "short"
    IN
    /\ rpc[r].st = "holding"
    /\ cache' = [cache EXCEPT ![r] = IF f \in kept \/ f \in DOMAIN data
                                     THEN kept \cup {f} ELSE kept]
    /\ rpc' = [rpc EXCEPT ![r] = [@ EXCEPT !.st = "idle", !.res = res]]
    /\ pool' = Append(pool, r)
    /\ UNCHANGED <<orphan, wfid, data, hint, buf, keydir, stats, merged, active, wpc, mtask,
                   nOps, nMerges, nCrashes>>

\* Still holding the Ref: drop the merged ids from the LogDir, map the
\* entry's file (opening it when it is not cached) and decode the record
\* at (pos, len); then readers.push(reader) returns it to the queue.
GetRead(r) ==
    LET e      == rpc[r].entry
        f      == e.fileid
        kept   == cache[r] \ merged
        opened == f \in kept \/ f \in DOMAIN data
        res    == IF f \notin DOMAIN data
                  THEN IF f \in kept THEN "unlinked" ELSE "notfound"
                  ELSE IF Readable(e) THEN data[f][e.pos].val
                  ELSE "short"
    IN
    /\ rpc[r].st = "holding"
    /\ cache' = [cache EXCEPT ![r] = IF opened THEN kept \cup {f} ELSE kept]
    /\ rpc' = [rpc EXCEPT ![r] = [@ EXCEPT !.st = "idle", !.res = res]]
    /\ pool' = Append(pool, r)
    /\ UNCHANGED <<orphan, wfid, data, hint, buf, keydir, stats, merged, active, wpc, mtask,
                   nOps, nMerges, nCrashes>>

-----------------------------------------------------------------------------
(* Merge: merge_on_interval, Context::can_merge, fileids_to_merge and      *)
(* Writer::merge.                                                          *)

\* Context::can_merge, evaluated by the task after its sleep, outside the
\* writer mutex (the time window is a nondeterministic yes).
CanMerge ==
    \E f \in DOMAIN stats : stats[f].deadBytes > TrigDeadBytes
                            \/ FragAbove(stats[f], TrigFrag)

MergeCheck ==
    /\ MergeEnable
    /\ mtask = "sleep"
    /\ nMerges < MaxMerges
    /\ CanMerge
    /\ mtask' = "lock"
    /\ UNCHANGED <<orphan, wfid, data, hint, buf, keydir, stats, merged, active, wpc, rpc, pool,
                   cache, nOps, nMerges, nCrashes>>

\* Context::fileids_to_merge: every file with statistics that meets one of
\* the thresholds; nothing excludes the active file.
fileids_to_merge ==
    {f \in DOMAIN stats : \/ stats[f].deadBytes > ThrDeadBytes
                          \/ FragAbove(stats[f], ThrFrag)
                          \/ SegSize(data[f]) < ThrSmallFile}

\* The task holds the writer mutex: merge files start at active + 1.  The
\* iter_mut loop visits each entry once, and the entries it visits are the
\* ones pointing into S when it starts: no put or delete runs while the
\* mutex is held, and the loop repoints only entries it has visited.
MergeStart ==
    LET m == active + 1 IN
    /\ mtask = "lock"
    /\ wpc.st = "idle"
    /\ DOMAIN stats \subseteq DOMAIN data
    /\ wpc' = [st |-> "merge", S |-> fileids_to_merge, keys |-> EntriesIn(fileids_to_merge),
               fid |-> m, pos |-> 0]
    /\ data' = (m :> <<>>) @@ data
    /\ hint' = (m :> <<>>) @@ hint
    /\ buf' = <<>>
    /\ UNCHANGED <<orphan, wfid, keydir, stats, merged, active, mtask, rpc, pool, cache, nOps,
                   nMerges, nCrashes>>

\* fs::metadata fails in fileids_to_merge for a file with statistics that
\* is not on disk (the unlinked active file): merge() returns the error
\* before it creates anything, and the task goes back to sleep.
MergeStartFail ==
    /\ mtask = "lock"
    /\ wpc.st = "idle"
    /\ ~(DOMAIN stats \subseteq DOMAIN data)
    /\ mtask' = "sleep"
    /\ nMerges' = nMerges + 1
    /\ UNCHANGED <<data, hint, buf, keydir, stats, merged, active, wpc, rpc, pool, cache,
                   orphan, wfid, nOps, nCrashes>>

\* log::create of data file merge_fileid fails, or it succeeds (truncating
\* a file left with that id) and the create of its hint file fails: merge()
\* returns the error and the task goes back to sleep.
MergeStartCreateFail ==
    /\ CreateMayFail
    /\ mtask = "lock"
    /\ wpc.st = "idle"
    /\ DOMAIN stats \subseteq DOMAIN data
    /\ \/ data' = data
       \/ data' = (active + 1 :> <<>>) @@ data
    /\ mtask' = "sleep"
    /\ nMerges' = nMerges + 1
    /\ UNCHANGED <<hint, buf, keydir, stats, merged, active, wpc, rpc, pool, cache,
                   orphan, wfid, nOps, nCrashes>>

\* Writing n bytes to a std BufWriter: flush the buffer first when the
\* bytes do not fit, write directly when they are at least its capacity.
BufWrite(file, pending, rec) ==
    LET full == SegSize(pending) + RecLen(rec) > BufCapacity
        f1   == IF full THEN file \o pending ELSE file
        p1   == IF full THEN <<>> ELSE pending
    IN  IF RecLen(rec) >= BufCapacity THEN [file |-> Append(f1, rec), buf |-> p1]
                                      ELSE [file |-> f1, buf |-> Append(p1, rec)]

\* One copy of the loop over the KeyDir entries that point into S, up to
\* the size check: copy_raw into the BufWriter of merge file m, the
\* repointed entry, and merge_pos advanced by the copied bytes.
CopyOf(k) ==
    LET e == keydir[k]
        m == wpc.fid
        w == BufWrite(data[m], buf, data[e.fileid][e.pos])
    IN  [entry |-> [fileid |-> m, pos |-> Len(data[m]) + Len(buf) + 1, len |-> e.len],
         file |-> w.file, buf |-> w.buf, pos |-> wpc.pos + e.len]

\* The entry of k can be copied: the loop has not yet visited it (iter_mut
\* waits for the Readers holding a Ref to it) and copy_raw finds its record.
CopyEnabled(k) ==
    /\ wpc.st = "merge"
    /\ k \in wpc.keys
    /\ Readable(keydir[k])
    /\ Unreferenced(k)

\* The entry repointed and add_live in the merge file.
Repoint(k, c) ==
    /\ keydir' = [keydir EXCEPT ![k] = c.entry]
    /\ stats' = AddLive(stats, wpc.fid)

\* The hint files once the entry is appended to hint file m by its LogWriter.
HintAppended(k, c) ==
    [hint EXCEPT ![wpc.fid] = Append(@, [key |-> k, pos |-> c.entry.pos,
                                         len |-> c.entry.len])]

\* One iteration of the loop: copy, repoint, count and hint the entry, and
\* switch to a new merge file (dropping, hence flushing, the old BufWriter)
\* past max_file_size.
MergeCopy(k) ==
    LET c    == CopyOf(k)
        m    == wpc.fid
        next == c.pos > MaxFileSize
    IN
    /\ CopyEnabled(k)
    /\ Repoint(k, c)
    /\ IF next
       THEN /\ hint' = (m + 1 :> <<>>) @@ HintAppended(k, c)
            /\ data' = (m + 1 :> <<>>) @@ [data EXCEPT ![m] = c.file \o c.buf]
            /\ buf' = <<>>
            /\ wpc' = [wpc EXCEPT !.keys = @ \ {k}, !.fid = m + 1, !.pos = 0]
       ELSE /\ hint' = HintAppended(k, c)
            /\ data' = [data EXCEPT ![m] = c.file]
            /\ buf' = c.buf
            /\ wpc' = [wpc EXCEPT !.keys = @ \ {k}, !.pos = c.pos]
    /\ UNCHANGED <<orphan, wfid, merged, active, mtask, rpc, pool, cache, nOps, nMerges, nCrashes>>

\* The copy that passes max_file_size, when log::create of the next merge
\* data file fails, or of its hint file after the data file was made:
\* merge() returns the error.  The entry is already repointed and counted,
\* the old BufWriter is dropped (flushed); nothing is unlinked and the
\* active file is not rolled over.
MergeCopyRollFail(k) ==
    LET c == CopyOf(k)
        m == wpc.fid
    IN
    /\ CreateMayFail
    /\ CopyEnabled(k)
    /\ c.pos > MaxFileSize
    /\ Repoint(k, c)
    /\ hint' = HintAppended(k, c)
    /\ \/ data' = [data EXCEPT ![m] = c.file \o c.buf]
       \/ data' = (m + 1 :> <<>>) @@ [data EXCEPT ![m] = c.file \o c.buf]
    /\ buf' = <<>>
    /\ wpc' = [st |-> "idle"]
    /\ mtask' = "sleep"
    /\ nMerges' = nMerges + 1
    /\ UNCHANGED <<orphan, wfid, merged, active, rpc, pool, cache, nOps, nCrashes>>

\* copy_raw finds no record at the entry's position (its file is shorter):
\* merge() returns the error; the BufWriter is dropped (flushed) on the way
\* out, the merge files stay, nothing is unlinked, the active file is not
\* rolled over, and the task logs the error and goes back to sleep.
MergeCopyFail(k) ==
    /\ wpc.st = "merge"
    /\ k \in wpc.keys
    /\ ~Readable(keydir[k])
    /\ Unreferenced(k)
    /\ data' = [data EXCEPT ![wpc.fid] = @ \o buf]
    /\ buf' = <<>>
    /\ wpc' = [st |-> "idle"]
    /\ mtask' = "sleep"
    /\ nMerges' = nMerges + 1
    /\ UNCHANGED <<orphan, wfid, hint, keydir, stats, merged, active, rpc, pool, cache, nOps, nCrashes>>

\* Mutant: the merge data file's BufWriter is not flushed when dropped.
MergeFinish_noFlush ==
    /\ wpc.st = "merge"
    /\ wpc.keys = {}
    /\ buf' = <<>>
    /\ merged' = merged \cup wpc.S
    /\ wpc' = [st |-> "unlink", S |-> wpc.S, todo |-> wpc.S, fid |-> wpc.fid]
    /\ UNCHANGED <<orphan, wfid, data, hint, keydir, stats, active, mtask, rpc, pool, cache, nOps,
                   nMerges, nCrashes>>

\* Mutant: the copy loop may stop before every entry in S is copied.
MergeFinish_early ==
    /\ wpc.st = "merge"
    /\ data' = [data EXCEPT ![wpc.fid] = @ \o buf]
    /\ buf' = <<>>
    /\ merged' = merged \cup wpc.S
    /\ wpc' = [st |-> "unlink", S |-> wpc.S, todo |-> wpc.S, fid |-> wpc.fid]
    /\ UNCHANGED <<orphan, wfid, hint, keydir, stats, active, mtask, rpc, pool, cache, nOps,
                   nMerges, nCrashes>>

\* The loop is over: the writers are dropped (flushed) and every id of S is
\* added to the merged set.
MergeFinish ==
    /\ wpc.st = "merge"
    /\ wpc.keys = {}
    /\ data' = [data EXCEPT ![wpc.fid] = @ \o buf]
    /\ buf' = <<>>
    /\ merged' = merged \cup wpc.S
    /\ wpc' = [st |-> "unlink", S |-> wpc.S, todo |-> wpc.S, fid |-> wpc.fid]
    /\ UNCHANGED <<orphan, wfid, hint, keydir, stats, active, mtask, rpc, pool, cache, nOps,
                   nMerges, nCrashes>>

\* Mutant: a merged file's statistics are not removed.
MergeUnlink_keepStats ==
    LET f == CHOOSE x \in wpc.todo : \A y \in wpc.todo : x <= y IN
    /\ wpc.st = "unlink"
    /\ wpc.todo # {}
    /\ hint' = Without(hint, {f})
    /\ data' = Without(data, {f})
    /\ orphan' = IF f = wfid THEN data[f] ELSE orphan
    /\ wpc' = [wpc EXCEPT !.todo = @ \ {f}]
    /\ UNCHANGED <<wfid, buf, keydir, stats, merged, active, mtask, rpc, pool, cache, nOps,
                   nMerges, nCrashes>>

\* One iteration of the loop over S in ascending order: remove the file's
\* statistics, its hint file and its data file.
MergeUnlink ==
    LET f == CHOOSE x \in wpc.todo : \A y \in wpc.todo : x <= y IN
    /\ wpc.st = "unlink"
    /\ wpc.todo # {}
    /\ stats' = Without(stats, {f})
    /\ hint' = Without(hint, {f})
    /\ data' = Without(data, {f})
    /\ orphan' = IF f = wfid THEN data[f] ELSE orphan
    /\ wpc' = [wpc EXCEPT !.todo = @ \ {f}]
    /\ UNCHANGED <<wfid, buf, keydir, merged, active, mtask, rpc, pool, cache, nOps,
                   nMerges, nCrashes>>

\* The same iteration when fs::remove_file fails (with an error other than
\* NotFound) on the hint file, or on the data file after the hint file was
\* removed: the statistics are already gone, merge() returns the error
\* without rolling the active file over, and the task goes back to sleep.
MergeUnlinkFail ==
    LET f == CHOOSE x \in wpc.todo : \A y \in wpc.todo : x <= y IN
    /\ UnlinkMayFail
    /\ wpc.st = "unlink"
    /\ wpc.todo # {}
    /\ stats' = Without(stats, {f})
    /\ \/ hint' = hint
       \/ hint' = Without(hint, {f})
    /\ wpc' = [st |-> "idle"]
    /\ mtask' = "sleep"
    /\ nMerges' = nMerges + 1
    /\ UNCHANGED <<orphan, wfid, data, buf, keydir, merged, active, rpc, pool, cache, nOps, nCrashes>>

\* new_active_datafile(merge_fileid + 1) when log::create fails: the id
\* advances, the writer stays on its file, and merge() returns the error.
MergeRollFail ==
    /\ CreateMayFail
    /\ wpc.st = "unlink"
    /\ wpc.todo = {}
    /\ active' = wpc.fid + 1
    /\ wpc' = [st |-> "idle"]
    /\ mtask' = "sleep"
    /\ nMerges' = nMerges + 1
    /\ UNCHANGED <<orphan, wfid, data, hint, buf, keydir, stats, merged, rpc, pool, cache,
                   nOps, nCrashes>>

\* Mutant: the writer rolls over to merge_fileid, the last merge file.
MergeRoll_noIncr ==
    /\ wpc.st = "unlink"
    /\ wpc.todo = {}
    /\ active' = wpc.fid
    /\ wfid' = wpc.fid
    /\ orphan' = <<>>
    /\ data' = (wpc.fid :> <<>>) @@ data
    /\ wpc' = [st |-> "idle"]
    /\ mtask' = "sleep"
    /\ nMerges' = nMerges + 1
    /\ UNCHANGED <<hint, buf, keydir, stats, merged, rpc, pool, cache, nOps, nCrashes>>

\* new_active_datafile(merge_fileid + 1); the mutex is released and the
\* task goes back to sleep.
MergeRoll ==
    /\ wpc.st = "unlink"
    /\ wpc.todo = {}
    /\ active' = wpc.fid + 1
    /\ wfid' = wpc.fid + 1
    /\ orphan' = <<>>
    /\ data' = (wpc.fid + 1 :> <<>>) @@ data
    /\ wpc' = [st |-> "idle"]
    /\ mtask' = "sleep"
    /\ nMerges' = nMerges + 1
    /\ UNCHANGED <<hint, buf, keydir, stats, merged, rpc, pool, cache, nOps, nCrashes>>

-----------------------------------------------------------------------------
(* The process dies at any point and Bitcask::open runs on the directory:  *)
(* what was in memory (KeyDir, statistics, merged set, Reader caches, the  *)
(* BufWriter) is gone, rebuild_storage reads the files, and a new empty    *)
(* active file is created.                                                 *)

Restart ==
    LET rebuilt == rebuild_storage(data, hint)
        a       == RecoveredActive(data)
    IN
    /\ nCrashes < MaxCrashes
    /\ keydir' = rebuilt.kd
    /\ stats' = rebuilt.st
    /\ active' = a
    /\ wfid' = a
    /\ data' = (a :> <<>>) @@ data
    /\ buf' = <<>>
    /\ orphan' = <<>>
    /\ merged' = {}
    /\ wpc' = [st |-> "idle"]
    /\ mtask' = "sleep"
    /\ rpc' = [r \in Readers |-> IdleReader]
    /\ pool' \in OpenedPool
    /\ cache' = [r \in Readers |-> {}]
    /\ nCrashes' = nCrashes + 1
    /\ UNCHANGED <<hint, nOps, nMerges>>

-----------------------------------------------------------------------------

\* Every bound is used up and no call is in flight: the behaviour ends.
Done ==
    /\ nOps = MaxOps
    /\ wpc.st = "idle"
    /\ \A r \in Readers : rpc[r].st = "idle"
    /\ UNCHANGED vars

Next ==
    \/ \E k \in Keys, v \in Values \cup {Nil} : Write(k, v)
    \/ \E k \in Keys, v \in Values \cup {Nil} : WriteRollFail(k, v)
    \/ WriterIndex
    \/ \E r \in Readers, k \in Keys : GetLookup(r, k)
    \/ \E r \in Readers : GetRead(r)
    \/ MergeCheck
    \/ MergeStart
    \/ MergeStartFail
    \/ MergeStartCreateFail
    \/ \E k \in Keys : MergeCopy(k)
    \/ \E k \in Keys : MergeCopyRollFail(k)
    \/ \E k \in Keys : MergeCopyFail(k)
    \/ MergeFinish
    \/ MergeUnlink
    \/ MergeUnlinkFail
    \/ MergeRoll
    \/ MergeRollFail
    \/ Restart
    \/ Done

Spec == Init /\ [][Next]_vars

-----------------------------------------------------------------------------
(* Properties *)

TypeOK ==
    /\ DOMAIN data \subseteq Nat /\ \A f \in DOMAIN data : data[f] \in Seq(Record)
    /\ DOMAIN hint \subseteq Nat
    /\ buf \in Seq(Record)
    /\ keydir \in [Keys -> Entry \cup {Nil}]
    /\ DOMAIN stats \subseteq Nat /\ \A f \in DOMAIN stats : stats[f] \in Stat
    /\ merged \subseteq Nat
    /\ active \in Nat
    /\ wpc.st \in {"idle", "index", "merge", "unlink"}
    /\ mtask \in {"sleep", "lock"}
    /\ \A r \in Readers : rpc[r].st \in {"idle", "holding"} /\ cache[r] \subseteq Nat
    /\ wfid \in Nat
    /\ orphan \in Seq(Record)
    /\ pool \in Seq(Readers)

\* The writer is between calls (it holds no half-done put, delete or merge).
WriterIdle == wpc.st = "idle"

\* The records recovery would read for file f: its hint entries when a hint
\* file exists, else the records of the data file; as [key, pos, len, val].
View(f) ==
    IF f \in DOMAIN hint
    THEN [i \in DOMAIN hint[f] |-> [key |-> hint[f][i].key, pos |-> hint[f][i].pos,
                                    len |-> hint[f][i].len, val |-> "hinted"]]
    ELSE [i \in DOMAIN data[f] |-> [key |-> data[f][i].key, pos |-> i,
                                    len |-> RecLen(data[f][i]), val |-> data[f][i].val]]

PointsInto(f) == EntriesIn({f})

\* Whenever the writer is between calls, the live_keys of every file's
\* statistics equal the number of KeyDir entries pointing into it, and every
\* entry's file has statistics: put/delete (overwrite of the replaced
\* entry's file), merge (add_live in the merge file, removal of the merged
\* files' statistics) and rebuild_storage must keep the two in step.
StatsMatchKeyDir ==
    WriterIdle =>
        /\ \A f \in DOMAIN stats : stats[f].live = Cardinality(PointsInto(f))
        /\ \A k \in Keys : keydir[k] # Nil => keydir[k].fileid \in DOMAIN stats

\* Whenever the writer is between calls, the statistics of a file account
\* for every record recovery would read from it: live_keys + dead_keys is
\* the number of records, and dead_bytes is the size of the records that no
\* KeyDir entry points at; a file holding records has statistics.
RecordsAccounted ==
    WriterIdle =>
        /\ \A f \in DOMAIN data : Len(View(f)) > 0 => f \in DOMAIN stats
        /\ \A f \in DOMAIN stats :
            /\ f \in DOMAIN data
            /\ stats[f].live + stats[f].dead = Len(View(f))
            /\ stats[f].deadBytes + FoldSet(LAMBDA k, n : n + keydir[k].len, 0,
                                            PointsInto(f))
                  = FoldLeft(LAMBDA n, x : n + x.len, 0, View(f))

\* No live_keys counter is ever decremented below zero: LogStatistics::
\* overwrite runs `live_keys -= 1` on a u64 (a panic in a debug build, a
\* wrap to 2^64 - 1 in a release build) for the file of every replaced
\* entry, also after crashes, reopens and merges that stopped half-way.
StatsNoUnderflow == \A f \in DOMAIN stats : stats[f].live >= 0

\* Whenever the writer is between calls, every KeyDir entry points at a
\* record written to its file (not held in a buffer) that holds a value of
\* that key: a get through any Reader can decode it.
KeyDirDurable ==
    WriterIdle =>
        \A k \in Keys : keydir[k] # Nil =>
            LET e == keydir[k] IN
            /\ e.fileid \in DOMAIN data
            /\ e.pos <= Len(data[e.fileid])
            /\ data[e.fileid][e.pos].key = k
            /\ data[e.fileid][e.pos].val # Nil

\* Whenever the writer is between calls, a record holding a value that no
\* KeyDir entry points at is superseded by a later record of the same key
\* in the files recovery reads (a later file, or later in the same file):
\* a record that is dead must stay dead on disk.
DeadRecordsSuperseded ==
    WriterIdle =>
        \A f \in DOMAIN data : \A i \in DOMAIN View(f) :
            LET x == View(f)[i] IN
            (x.val # Nil /\ ~(keydir[x.key] # Nil /\ keydir[x.key].fileid = f
                                                  /\ keydir[x.key].pos = x.pos))
            => \E g \in DOMAIN data : \E j \in DOMAIN View(g) :
                   /\ View(g)[j].key = x.key
                   /\ \/ g > f
                      \/ g = f /\ View(g)[j].pos > x.pos

\* A get returns the value its key had when the get read the KeyDir entry:
\* never an error, never another value, also while a merge repoints the
\* entry and removes the file it pointed into.
GetLinearizable ==
    \A r \in Readers :
        rpc[r].st = "idle" /\ rpc[r].res # Nil => rpc[r].res = rpc[r].expect

\* The put/delete call in flight, as the abstract store sees it.
PendingCall ==
    IF wpc.st = "index"
    THEN [op |-> IF wpc.val = Nil THEN "del" ELSE "put", key |-> wpc.key,
          val |-> wpc.val]
    ELSE Nil

KV == INSTANCE KVStore WITH store <- KVView, pending <- PendingCall,
                            restarts <- nCrashes

\* The handle implements the abstract key-value store: the value the KeyDir
\* and the files give a key changes only when a put or delete on it takes
\* effect; merges never change it, and a restart only completes or drops
\* the call in flight.
Refinement == KV!Spec


\* The files a step may write: the active file, and the merge data file
\* while the copy loop runs.
Writable == {active} \cup (IF wpc.st = "merge" THEN {wpc.fid} ELSE {})

\* Data and hint files are append-only, and a data file other than the
\* active one and the merge output being written never changes: no
\* log::create (rollover, merge start, merge roll, reopen) reuses the id of
\* a file on disk, truncating records the KeyDir or recovery rely on.
SegmentsImmutable ==
    [][/\ \A f \in DOMAIN data \cap DOMAIN data' :
            data'[f] # data[f] => f \in Writable /\ IsPrefix(data[f], data'[f])
       /\ \A f \in DOMAIN hint \cap DOMAIN hint' : IsPrefix(hint[f], hint'[f])]_vars

======================================================================================================================================================
