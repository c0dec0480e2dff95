# TLA+ models of the opal Bitcask storage engine and its server

These modules model two parts of opal and check them with TLC: the storage
engine in `src/src/storage/bitcask.rs`, a Bitcask key-value store, and the
RESP server in `src/src/net/server.rs`. The engine has three parts.
Writes are appended to data files. An in-memory KeyDir maps each key to the
position of its newest record. A background merge rewrites the live records
into new files with hint files. Every module here is translated from the
Rust source. The log, bufio and utils modules are not under `src/`; they are
modelled from `spec.md` and marked `spec_modelled` in `PROJECT.json`.

## 1. The system

### Parts and how they interact

| Part | Code | Shared state it touches |
|---|---|---|
| Handle | `Handle` (bitcask.rs:79-91, 238-262) | `writer: Mutex<Writer>` and `readers: ArrayQueue<Reader>` |
| Writer | `Writer::put/delete/write`, `new_active_datafile` (310-395, 495-503) | active data file, `keydir`, `stats` |
| Reader | `Reader::get` (513-533) | `keydir` (read), `merged` (read), its own `LogDir` cache |
| Merge task | `merge_on_interval`, `can_merge`, `fileids_to_merge`, `Writer::merge` (538-569, 264-301, 399-491) | everything. It holds the writer mutex |
| Statistics | `LogStatistics` (595-632) | one entry per file id in `stats` |
| Recovery | `Bitcask::open`, `rebuild_storage`, `populate_keydir_with_*` (145-215, 638-754) | the files on disk |
| Config | `bitcask/config.rs` | the constants of the model. `IsFraction` is the fraction setters' assert |
| Server | `net/server.rs` | the connection semaphore, the shutdown broadcast and the `shutdown_complete` channel |

All writers are serialised by the writer mutex: put, delete and merge. Gets
run concurrently with them, one per Reader. The KeyDir and the statistics
are DashMaps. A `keydir.get` returns a `Ref`, which holds the shard's read
lock until the get has decoded the record. A writer's `insert` or `remove`,
and merge's `iter_mut`, on the same key wait for that lock. The merge task
sleeps, evaluates `can_merge` *without* the mutex, and then takes the mutex
to merge.

### State (variables of `Bitcask.tla`)

| Variable | Code |
|---|---|
| `data` | the data files on disk: file id -> sequence of `DataFileEntry` (`[key, val]`, `val = Nil` for a tombstone) |
| `hint` | the hint files: file id -> sequence of `[key, pos, len]` |
| `buf` | the bytes held in merge's `BufWriter` around the current merge data file |
| `keydir` | `Context.keydir`: key -> `[fileid, pos, len]` |
| `stats` | `Context.stats`: file id -> `[live, dead, deadBytes]` |
| `merged` | `Context.merged` |
| `active` | `Writer.active_fileid` |
| `wpc` | where the holder of the writer mutex is: idle, between `write()` and the KeyDir update, in the merge copy loop, or in the merge unlink loop |
| `mtask` | the merge task: sleeping, or going for the mutex after `can_merge` held |
| `rpc`, `cache` | per Reader: idle or holding a KeyDir Ref; the ids mapped in its `LogDir` |
| `pool` | `Handle.readers`: the `ArrayQueue` of Readers no get holds, head first |
| `wfid` | the id of the file `Writer.writer` appends to. It equals `active` unless a `log::create` in `new_active_datafile` failed |
| `orphan` | the active file after a merge unlinked it. The writer still holds the open file and appends to the deleted inode |

A position is the index of the record in its file. A length is `ValueLen`
or `TombLen` bytes, and `MaxFileSize` and the thresholds are counted in
those bytes. Timestamps are left out, because nothing in the code orders by
them.

### Hard behaviours

- A get holds a KeyDir entry while merge repoints it and unlinks its file.
- A put or delete appends, counts and rolls over, and only then updates the
  KeyDir. A get or a merge can run in between.
- A merge writes data through a `BufWriter` and hint entries through a
  `LogWriter`. The two reach the disk at different times.
- A crash can happen at any step, followed by `Bitcask::open`.
- `copy_raw` can fail half-way through a merge. `fs::remove_file` can fail
  half-way through the unlink loop, and `fs::metadata` can fail in
  `fileids_to_merge`.
- `log::create` can fail when a rollover creates the next active file,
  after `active_fileid` has already changed. It can also fail when a merge
  creates its data or hint file, at the start or when it switches to the
  next merge file.
- `log::create` truncates a file that exists. An id reused after an
  aborted merge overwrites records the KeyDir or a hint file point at.
- `live_keys -= 1` is a u64 subtraction.

## 2. Modules

- **`KVStore.tla`**: the abstract specification of what the handle
  promises. It is a map from keys to values. A put or delete call begins
  (`Begin`) and takes effect atomically (`Commit`). `Restart` either
  completes or drops the call in flight, and changes no other key.
- **`Bitcask.tla`**: the engine. Its actions are:
  - `Write(k, v)`: `Writer::write`. It appends the record, calls `add_live`
    or `add_dead` on the active file, and rolls over to `active + 1` past
    `max_file_size` (`log::create` truncates).
  - `WriteRollFail(k, v)`: the same write when the rollover's `log::create`
    fails (with `CreateMayFail`). `active` advances, the writer stays on
    file `wfid`, and the call returns the error without touching the
    KeyDir.
  - `WriterIndex`: the rest of `Writer::put` and `Writer::delete`. It
    inserts or removes the KeyDir entry and calls `overwrite` on the
    replaced entry's file. Its guard `Unreferenced(k)` is the DashMap lock.
  - `GetLookup(r, k)` and `GetRead(r)`: `Handle::get` and `Reader::get`.
    The first pops the Reader `r` at the head of the queue and takes the
    Ref. While the queue is empty a get spins, which is no step at all. The second evicts the merged ids from the Reader's `LogDir`, maps
    the file and decodes the record. Its result is a value, or an error:
    the file is not found, or the record is not inside the mapping. It
    then pushes the Reader back.
  - `MergeCheck`: `merge_on_interval` after its sleep, when `can_merge`
    holds.
  - `MergeStart`: `Writer::merge` computes `fileids_to_merge` and creates
    merge data file `active + 1` and its hint file. It also records in
    `wpc.keys` the keys the `iter_mut` loop will visit: those whose entry
    points into the set when the loop starts. The writer mutex keeps puts
    and deletes out, and the loop repoints only entries it has already
    visited, so this set is exact. Each key is visited once, even when its
    new merge file is itself in the set.
  - `MergeCopy(k)`: one iteration of the copy loop, for a key of
    `wpc.keys`, which it removes from the set. It copies through the
    `BufWriter` (`BufWrite`), repoints the entry, calls `add_live` on the
    merge file, appends the hint entry, and switches to the next merge file
    past `max_file_size`.
    `CopyOf`, `CopyEnabled`, `Repoint` and `HintAppended` are the parts of
    one iteration, shared with `MergeCopyRollFail`.
  - `MergeCopyRollFail(k)`: the iteration that passes `max_file_size` when
    `log::create` of the next merge data file fails, or of its hint file
    after the data file was created. The entry is already repointed and
    counted, and the old `BufWriter` is flushed when it is dropped. `merge`
    returns the error. It is enabled by `CreateMayFail`.
  - `MergeCopyFail(k)`: `copy_raw` finds no record; `merge` returns the
    error early.
  - `MergeFinish`: once every key of `wpc.keys` is visited, the writers
    are dropped and the ids are inserted in `merged`.
  - `MergeStartFail`: `fileids_to_merge` finds a statistics entry with no
    data file, so `fs::metadata` fails and `merge` returns the error.
  - `MergeStartCreateFail`: `log::create` of the merge data file fails.
    Or that create succeeds, truncating a file left with the id, and the
    create of the hint file fails. It is enabled by `CreateMayFail`.
  - `MergeUnlink`: one iteration of the removal loop, in ascending id
    order. Unlinking the active file leaves it as `orphan`.
  - `MergeUnlinkFail`: the same iteration when `remove_file` fails on the
    hint file, or on the data file after the hint file is gone. The
    statistics entry is already removed, and `merge` returns without
    rolling the active file over. It is enabled by `UnlinkMayFail`.
  - `MergeRoll`: `new_active_datafile(merge_fileid + 1)`. `MergeRollFail`
    is the same call when `log::create` fails.
  - `Restart`: a crash, then `Bitcask::open`. It clears memory, folds
    `rebuild_storage` over the files in id order (the hint file when one
    exists), and creates the new active file.
  - `Done`: the bound on operations is used up.

  The refinement mapping is `KVView`, which is the value of the record each
  KeyDir entry points at, seen through the merge `BufWriter`. Together with
  `PendingCall` (the call between `Write` and `WriterIndex`) and `nCrashes`,
  it maps `Bitcask` onto `KVStore`.
- **`MCBitcask.tla`**: defines the fraction constants and the symmetry set
  (keys, values and Readers are only compared) for the `.cfg` files.
- **`Server.tla`**: `net/server.rs`. Its state is:
  - `permits`: the semaphore's available permits;
  - `listener`: the listen task's pc, the accept backoff and the seconds
    slept;
  - `conn`: each connection's Handler, which is `new`, `reading` (in the
    `select!`), `applying` (in `cmd.apply`) or `done`;
  - `notified`: whether the broadcast sender is dropped;
  - `srv`: the phase of `Server::run`.

  Its actions are:
  - `Acquire`: `acquire().await` and `forget()`.
  - `Accept(c)`: build and spawn the Handler.
  - `AcceptError`: give up when `backoff > MAX_BACKOFF`, otherwise sleep.
  - `Backoff`: sleep, then `backoff <<= 1`.
  - `Frame`, `Apply`, `ApplyError`, `ClientGone` and `HandlerShutdown`: the
    branches of `Handler::run`. Each exit runs `Drop`, which calls
    `add_permits(1)`.
  - `ShutdownSignal` and `ListenFailed`: the two ends of the `select!` in
    `Server::run`. Both drop the senders (`Drain`).
  - `ServerExit`: `shutdown_complete_rx.recv()` returns `None`.

  Frames and commands are abstracted to "a frame arrives" and "the command
  completes or fails". The Handlers' storage calls are not composed with
  `Bitcask`. `net/shutdown.rs` is not under `src/`. Its `recv` is modelled
  from how `Handler::run` uses it: it returns once the broadcast is closed.

## 3. Runs

All runs use keys `{k1, k2}`, values `{v1, v2}` and 2-byte values with
1-byte tombstones. With `MaxFileSize = 3`, a file rolls over after two
records. `BufCapacity = 4`, so a merge file holds two records in its
buffer. These bounds are enough for every case to happen within 2-4 calls:
rollover, overwrite across files, a file with only dead records, a merge of
several files, a switch to a second merge file and a buffer that is not yet
flushed.

| Run | Expect | What it shows |
|---|---|---|
| `rw` | pass | Two Readers with 4 puts/deletes, no merge, and a crash at any step followed by reopen. `StatsMatchKeyDir`: `live_keys` of each file equals the KeyDir entries pointing into it. `RecordsAccounted`: live + dead = records, and dead_bytes + live lengths = file size. `KeyDirDurable`: every entry points at a record of its key on disk. `GetLinearizable`: a get returns the value at its lookup. The first three properties also hold of the statistics and KeyDir that `rebuild_storage` rebuilds. `SegmentsImmutable` (an action property): no step changes a data file other than the active one, and no step truncates a data or hint file. So the rollover and the reopen never create an id that is on disk. |
| `merge` | pass | Two merges (thresholds dead bytes > 1, files < 3 bytes) interleaved with 4 calls and a get, no crash. `StatsMatchKeyDir`, `RecordsAccounted`, `KeyDirDurable`. `Refinement`: Bitcask implements KVStore. `SegmentsImmutable`: the merge start, the merge roll and the writer's rollover never reuse an id, and only the merge output being written and the active file grow. |
| `crash` | pass | One merge whose `remove_file` or merge-file `log::create` may fail, or whose `copy_raw` fails after a crash, rollovers whose `log::create` may fail, and a crash at any step, with one value and key symmetry. `StatsNoUnderflow`: `live_keys` never goes below 0, so the u64 in `overwrite` never underflows. This holds even when a merge unlinks the active file and the writer keeps counting into it, and when the writer is left on an old file. It does not hold once a second merge follows an aborted one: see `merge_self`. |
| `restart_delete` | violation | `Refinement`: put k1 v1, delete k1, crash. `populate_keydir_with_datafile` ignores the tombstone (bitcask.rs:730), so k1 = v1 again. |
| `merge_tombstone` | violation | `DeadRecordsSuperseded`: the active file is merged (bitcask.rs:289 excludes nothing). Its tombstone is dropped while file 0 still holds the value. |
| `merge_read` | violation | `GetLinearizable`: a get after the entry is repointed reads the merge file while the record is in the `BufWriter`. |
| `crash_merge` | violation | `KeyDirDurable`: the hint entries are on disk but the data they point at died in the `BufWriter`. |
| `merge_self` | violation | `StatsNoUnderflow`: a merge of {0} into file 2 fails in `remove_file` and returns before `new_active_datafile`, so file 2 keeps its statistics. A put moves k1 to the active file 1. The next merge again writes to `active + 1 = 2`, and its set {1, 2} (both under 3 bytes) contains its own output. It copies k1 into file 2 and unlinks file 1 (the active file). Then `stats.remove(2)` (bitcask.rs:476) runs and the unlink of file 2 fails. The next put of k1 goes to the unlinked file 1. Its rollover creates file 2 again. Retiring k1's entry in file 2 creates that file's statistics with `or_default` and runs `live_keys -= 1` on 0 (bitcask.rs:616). Any merge error that returns before `new_active_datafile` sets this up, including a `copy_raw` error after a crash. |
| `unlink_truncate` | violation | `KeyDirDurable`: `remove_file` fails on file 0 of a merge of {0, 1} into file 2, and `merge` returns before `new_active_datafile(3)` (bitcask.rs:479, 489). The next rollover of active file 1 calls `log::create(2)` and truncates the merge file that the KeyDir points into. |
| `create_fail` | violation | `KeyDirDurable`: a put's rollover fails in `log::create`. `new_active_datafile` has already set `active_fileid = 1` (bitcask.rs:496), and the writer stays on file 0. The next put appends to file 0 and returns Ok with an entry naming file 1, which never exists. |
| `server` | pass | 3 connections, `MAX_CONNECTIONS = 2` and `MAX_BACKOFF = 64`. `ConnectionLimit`: at most 2 live Handlers, and while the server runs, permits + live Handlers + the listener's forgotten permit = 2. `AcceptRetryBudget`: accept gives up only after sleeping 1+2+...+64 = 127 s, which is checked against the recursive `DoublingSum`. `ServerTerminates`: once shutdown begins, `run` eventually returns. |
| `server_stalled` | violation | `ServerTerminates` without fairness on `Apply`: a Handler whose client stops reading stays in `cmd.apply` forever, so graceful shutdown never completes. There is no timeout. |

For each property of each passing run, `PROJECT.json` lists a mutant of the
code's definitions that TLC finds violates it. Examples: `overwrite`
crediting the wrong file, a tombstone without `add_dead`, the rollover
before the KeyDir entry is built, a merge that does not flush, unlink that
keeps statistics.

The violation runs stop at the first counterexample. The passing runs use
these bounds because the properties the violation runs check are false of
the code. For example, `merge` has no crash. It does merge the active file
and can drop a tombstone whose value is still in an older file. Without a
reopen, though, nothing reads that file again, so its checks hold.
`merge_tombstone` shows what a reopen would see. `rw` has a crash but no
merge, and `crash` allows one merge because a second merge after an
aborted one underflows (`merge_self`).

## 4. Fairness

`Bitcask` assumes no fairness, and its runs check only safety. The progress of a particular put, get or merge
depends on the DashMap shard locks, the lock-free `pop`, and the writer
mutex. None of these promises that a given waiter is ever served, so
"every get completes" is not claimed.

`Server` runs under `Fairness`:
- weak fairness on `Backoff` (the tokio timer fires) and `ListenFailed` (a
  completed `listen()` ends the `select!`);
- weak fairness on `ServerExit` (the receiver is woken when the last sender
  drops);
- strong fairness on each `HandlerShutdown(c)`. The Handler's `select!`
  polls its branches in random order, so a shutdown branch that is ready
  again and again is eventually taken, even while frames keep arriving.
- weak fairness on `Apply(c)`: the command's response is written. This
  holds only if the client reads. `SpecStalledClients` drops it, and
  `server_stalled` shows the consequence.

Clients (`Accept`, `Frame`, `ClientGone`) and the shutdown future get no
fairness. They may never act.

## 5. Assumptions about code outside `src/`

- `LogWriter::append` writes through on every append, so a record is in
  the file when `write()` returns. The read-after-write tests read through
  a fresh mmap.
- `log::create` truncates an existing file.
- `utils::sorted_fileids` lists the ids of the data files.
- `LogDir::get` maps a file on demand, and `at` fails when `(pos, len)` is
  outside the mapping.
- The merge file's `BufWriter` follows std semantics, with capacity
  `BufCapacity`.

## 6. Not modelled, and the plan

- The sync strategy is not implemented in the code (bitcask.rs:206), and
  power loss is not modelled.
- The time window of `can_merge` and the jitter of the sleep are not
  modelled: the check is a nondeterministic yes.
- An I/O error of the hint-file append in the merge loop (bitcask.rs:448)
  is not modelled. It would abort like `MergeCopyRollFail`, without the
  hint entry. Every `log::create` error is modelled.
- `SegmentsImmutable` is not checked in `crash`. Under either fault flag it
  is violated: by the truncation that `unlink_truncate` shows, and by the
  appends to the old file after a failed rollover that `create_fail`
  shows. Those two runs report the consequence, an entry that cannot be
  read.
- Behaviours with two crashes are not checked. The runs allow one crash at
  any step, which covers a crash during recovery's aftermath (the fresh
  active file) and keeps each run within its time budget.
- Liveness of an individual put, get or merge is not checked, for the
  reasons in section 4. The merge task's `select!` on `Shutdown`
  (bitcask.rs:546-553) is not modelled. It only stops later merges, and
  with no fairness on the merge actions a behaviour may stop merging at
  any point anyway.
- The server's frame parsing and command execution (`Connection`,
  `Command`) are not under `src/`, and they are abstracted. The server and
  the storage engine are checked separately.
- The config setters are stores. Their values are the constants of the
  model, and the merge window, interval and jitter are time-based.
- The benchmarks are not modelled.
