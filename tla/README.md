# A verification project for the IRIX 3.x kernel

The repository is the source of Silicon Graphics' IRIX 3.x: a System V kernel
with BSD networking and an extent file system (`src/sys`), its commands,
libraries, window system and stand-alone tools. This project models the kernel:
the block buffer cache and the resource maps it takes its space from, interprocess
communication, record locks, the clock, kernel RPC with the NFS server, and the
tables behind file names: inodes, mounts, directories and the name cache.

## 1. Inventory

How the kernel runs matters to every model. It is not preemptive: a process in
the kernel runs until it calls `sleep()` or returns to user mode. What can come
in between are interrupts, which `spl6()`/`splx()` hold off. So the hard
behaviours are: state read before a `sleep()` and used after it; an interrupt
between two statements that are not at `spl6`; wakeups that come before the
sleep they were meant for; and tables, maps and lists that run full or empty.

| Component | State | Operations | What makes it correct |
|---|---|---|---|
| Resource maps `sys/subr_rmap.c` | an array of segments ended by a delimiter, per map | `rminit`, `rmalloc`, `rmfree` | no unit handed out twice, none lost but by an overflow, neighbours joined |
| Buffer cache `sys/fs_bio.c` | buffer headers, hash chains, free list, `basyncnt`, wanted flags | `bread`, `breada`, `getblk`, `geteblk`, `bwrite`, `bawrite`, `bdwrite`, `brelse`, `btoss`, `bflush`, `bdsync`, `bdwait`, `binval`, `binvalfree`, `iodone`, the space functions `bio_*` | one owner per busy buffer, one buffer per block, reads return what was last written, nothing written is dropped, no lost wakeup |
| Sleep/wakeup `sys/slp.c` | sleep queues | `sleep`, `wakeup` | a wakeup reaches everybody asleep on the channel |
| Kernel map, DMA map `vm/vm_pt.c`, `multibus/mbio.c` | two resource maps, wanted flags | `kmap_alloc`, `kmfree`, `mballoc`, `mbmapkput` | never overdrawn, waiters woken |
| Semaphores `sys/sem.c` | values, wait counts, undo lists | `semget`, `semctl`, `semop`, exit | operation lists are all or nothing, undo restores, no sleeper is forgotten |
| Record locks `sys/fs_flock.c` | a list of records per inode, list of sleepers | `reclock`, `flckadj`, `deadflck`, `cleanlocks` | the list describes each byte's lock; waits are acyclic and end |
| Message queues `sys/msg.c` | queues, message headers, a map of text space | `msgget`, `msgsnd`, `msgrcv`, `msgctl` | order per type, shared pools add up, no lost sleeper |
| Pipes `com/com_pipe.c` | a ring, counts of readers and writers, wait flags | open, read, write, close, select | bytes in order, short writes in one piece, ends are noticed |
| Inode cache `sys/fs_inode.c` | the inode table, hash chains, free list, reference counts, inode locks | `iget`, `iput`, `iunuse`, `iuncache`, `iflush`, `ilock2` | one inode per file, counts exact, not reused under its holder |
| Mount list `sys/fs_mount.c` | a linked list, covered directories | mount, umount, `update` | the list is what is mounted |
| Directories and name cache `com/com_nami.c`, `com/com_dir.c`, `com/com_pncc.c`, `bfs/bfs_dir.c` | directory blocks, link counts, cached names | lookup, creat, link, unlink, rename | a name once, counts exact, the cache agrees, no deadlock |
| Clock `sys/clock.c` | time of day, callout list | `hardclock`, `adjtime`, `stime`, `timeout`, `untimeout`, `softclock` | time only goes forward; order and time of the calls |
| RPC client `nfs/nfs_subr.c`, `rpc/clnt_kudp.c` | a table of handles, each with a buffer, socket and timer | `clget`, `clfree`, `rfscall`, `clntkudp_callit` | a reply reaches its call, calls end |
| RPC and NFS server `rpc/svc_kudp.c`, `nfs/nfs_server.c` | daemons, a cache of transaction ids | receive, `rfs_*` | a retransmission does no harm |
| VM `vm/*` | page frames, page tables | paging, swapping | frames have one owner |
| File systems `efs/*`, `bfs/*` | superblocks, bitmaps, extents | allocation, mapping, mounting | no block in two files |
| STREAMS, sockets, TCP/IP, XNS | queues, protocol control blocks | protocol handlers | delivery, order, retransmission |
| Drivers, graphics, machine-dependent code | device registers | interrupts, strategy | out of a model's reach but for the interface |

They interact by calls and by shared state: file systems call the cache, the
cache takes memory, kernel address space and DMA space from three resource maps
and gives them back under pressure (`bio_uncache_*`, called from `kmap_alloc()`
and `mballoc()`), drivers take a buffer in `d_strategy` and give it back from
the interrupt through `iodone()`, the swapper process calls `bdsync()` once a
second, and unmount drains the cache. Directories keep inodes locked across the
calls that sleep for blocks; a mount pins the inode of the directory it covers, and
unmount has to find every inode of the file system unused before it lets go of the
root. NFS daemons use the same inodes without a process that has the file open.
RPC calls end by callouts of the clock.

`PROJECT.json` lists every component, the ones not modelled with the reason, and
the hazards: what in this code is hard to test, each at its line.

## 2. Modules

| Module | What it is |
|---|---|
| `ResourceMap` | `subr_rmap.c`, slot by slot |
| `ExtentPool` | what a resource map promises: a set of free units, lowest sufficient run first |
| `ResourceMapProof` | theorems about `ResourceMap` |
| `BufferCache` | `fs_bio.c` with the disk interrupt, `sleep`/`wakeup` and the three maps as counters |
| `MCBufferCache` | sets of calls and amounts of space for TLC |
| `BufferCacheProof` | theorems about `BufferCache`, in three parts: types; free list, owners, driver and wakeups; what the buffers hold |
| `MCCacheUses` | four instances of `BufferCache` in one run, and the instance of the liveness run |
| `Semaphore`, `MessageQueue`, `Pipe` | `sem.c`, `msg.c`, `com_pipe.c` |
| `ByteQueue` | what a pipe promises: a queue of bytes |
| `PipeProof` | theorems about `Pipe`, the refinement of `ByteQueue` among them |
| `MessageQueueProof` | theorems about `MessageQueue` |
| `MCStores` | `ResourceMap` and `Pipe` themselves |
| `MCIpc` | `MessageQueue` itself, in two parts of its behaviours, and two instances of `Semaphore` |
| `FileLock` | `fs_flock.c` |
| `LockTable` | what it promises: a table of which process holds which byte |
| `FileLockProof` | theorem about `FileLock`: the waits have no circle |
| `MCFileLock` | `FileLock` itself and two further instances |
| `Clock`, `Callout` | the two halves of `hardclock()`: the time of day with `adjtime`, `stime`; the callout list with `softclock` |
| `ClockProof` | theorems about `Clock` and `Callout` |
| `RpcClient` | `clget`, `clfree`, `rfscall` and `clntkudp_callit` |
| `RpcProof` | theorems about `RpcClient` and `NfsServer` |
| `NfsServer` | the daemons, the cache of transaction ids and the procedures that use it |
| `MCClock` | `Clock` and `Callout` themselves, a fair instance of `Callout` and one of `RpcClient`, for time and liveness |
| `MCNfs` | `RpcClient` and `NfsServer` themselves and a further instance of each |
| `InodeCache`, `MountList` | `fs_inode.c`, `fs_mount.c` with the parts of `efs_mount.c` and `update()` that use them |
| `InodeCacheProof` | theorems about `InodeCache` |
| `MCFiles` | `InodeCache` itself with an unmount, a second instance of it, one of `MountList` |
| `Directory` | `com_nami.c`, `com_dir.c`, `bfs_dir.c`, `com_pncc.c` and `ilock2` |
| `MCDirUses`, `MCDirectory` | three instances of `Directory` in one run; the one that shows finding 3 |

A module `MC...` with several instances has a variable `use` that names the
instance a behaviour is of and never changes; the variables an instance does not
have stay 0 or as they were initially. Where a module `MC...` extends a component,
that component with the constants of the configuration is one of the instances, so
that the properties in its configuration are the ones the theorems are about. The state space
is the sum of those of the instances, and a property that speaks of several
instances is the conjunction of the invariants their components state.
`ASSUME InstanceConstants` checks what the components ask of their constants.

### ResourceMap

`map` is the array behind the map header, `Slots` its length with the delimiter.
The scans of the code are `CHOOSE`s of the first slot that meets the exit
condition. `RmallocOk` takes from the first segment that is large enough and
closes the gap; `rmfree` has its four outcomes: `BadRmfree` (the panic; the
model has no step then, and `NeverBad` says it is not reached), `JoinLeft`,
`JoinRight`, `NewEntry` with `Overflow`. The delimiter is never written by an
insertion, exactly as in the code, which is why `Terminated` is worth stating.
The two tests for an abutting right neighbour are kept apart, since the code
asks `m_addr` in one place and `m_size` in the other. `used` and `lost` are
history variables. Clients free what they hold, in whole or in part.

Left out: the name and the message of the overflow, the `DMMAX` test for the
swap map and `rmget()`, which is compiled out.

### BufferCache

One variable per field or global of the code, named after it: `b_flags` (a set),
`b_dev`, `b_blkno`, `b_length`, `freelist` (a sequence, head first), `hashed`,
`bfwanted`, `basyncnt`, `basynwait`; `io` is what the driver has, `pool` and
`reswant` the three maps and their wanted flags. A process has a label `pc`, a
channel `chan` it sleeps on, and the locals `bp`, `call`, `ret` (where a nested
`bwrite()` returns to) and `wflag` (the flags `bwrite()` saves). `cur` is the
process inside the kernel: no other process moves before it sleeps or leaves,
while `iodone(b)` may happen between any two steps. `hold` is the time the
caller has the buffer; there the caller may sleep, so `cur` is free.

An action is a stretch of code that runs at `spl6` or that an interrupt cannot
tell from one step.

| Code | Actions |
|---|---|
| `getblk` | `Find`, `CaptureBusy`, `CaptureMisshapen`, `CaptureHit`, then `InsertBlock` |
| `getnewbuf` | `NewBufEmpty`, `NewBufDirty`, `NewBufClean` |
| `bio_allocmem`, `bio_allockmap`, `bio_dma_alloc`, `kmap_alloc`, `mballoc`, `bio_uncache_*` | `SpaceGranted`, `SpaceUncached`, `SpaceSleep`, `PagesSleep`, `PagesThere` |
| `geteblk`, `getdmablk` | `InsertEmpty` |
| `bread`, `iowait` | `GotBlock`, `Strategy`, `IowaitSleep`, `IowaitRead` |
| `bwrite`, `bawrite` | `bwrite`, `bawrite`, `WriteOut`, `Strategy`, `BwritePost`, `IowaitWritten` |
| `brelse`, `bdwrite` | `Release`, `bdwrite`; `Brelse` inside the others |
| `iodone`, `berror` | `iodone` |
| `btoss`, `bflush`, `bdsync`, `bdwait`, `binval`, `binvalfree` | the actions of the same names |
| `efs_umount` | call `umount`: `bflush`, `bdwait`, `binval`, while no file of the device is in use |

Abstractions, and why they lose nothing the properties speak about:

- One device. Buffers of other devices only compete for headers and space, which
  `geteblk` does as well.
- Contents are reduced to who has the newest copy: `fresh[b]` and `disk` are
  sets of blocks. `Block` is the set of blocks of the device; the extents that
  `bread` and `getblk` are called for lie in it, and `disk` has all of it initially. A failed write loses its data, and the disk's copy counts from
  then on; a tossed block has no contents that matter.
- The hash search is the set of buffers it may stop at; which one it meets first
  (bucket and chain order) is nondeterministic. The bucket arithmetic of
  `COMPUTE_BUCKET_STUFF` is a module of its own in the plan.
- Space is counted, in blocks. Fragmentation of the maps (a request that fails
  with enough units free) and rounding to pages are `ResourceMap`'s subject.
  `NoLostWakeup` is therefore about shortage, not about fragmentation.
- `bdsync()` may write any dirty buffer or stop: age, rotor and rate are left
  out, which allows more than the code does. Its branch to `update()` is not
  modelled.
- `vmemall()` may sleep or not; the pager ends the sleep.
- `slept` and `raced` are history: `raced` is set when `getblk()` enters a block
  after a sleep since its search (finding 1). The content properties assume
  `~raced`.

### Semaphore

One header whose set is made, used, removed and made again; `semid` is its
sequence number. The code between two sleeps is one action. `SemopEntry` looks the
id up, `SemopPass` is the copy of the list and one pass over it: operations are
applied by a fold, and when one fails or must wait `semundo` takes the prefix back;
`semaoe` keeps the undo entries. `SemopAgain` and `SemopInterrupted` are the
two ends of a sleep; the list is then copied in again (label `again`), without the
checks that the first pass is after. `Rmid`, `Setval`, `Setall`, `IpcSet` are the commands of
`semctl` that change state, `Semexit` the undo at exit. With `PagesOut` a copy may
sleep in `iolock()` between lookup and use, which is what makes the id stale.
`base` is history: the value a semaphore would have with every process gone.
Permission bits of an existing set are all granted.

### MessageQueue

`lock` is `msglock`, which a process has while it copies; finding it taken is a
guard. `SndTakes` takes header and segment, `SndPuts` is the copy with what follows
(queueing, wakeups), `SndFaults` the copy that fails; `RcvFinds`, `RcvDone`,
`RcvFaults` likewise; `SndSleeps` and `RcvSleeps` are the three waits for room,
header and text, and the wait for a message. `headers`, `segs` and `wanted` are
shared by all queues. A text takes one segment.

### Pipe and ByteQueue

A byte of the ring is known by its writer and its place in the write; the pointers wrap as in
the code and `size` is `i_size`. `Read`/`Write` lock the inode, find that they can go
on or sleep in `pbwait()`; `ReadMoves`/`WriteMoves` copy a piece and wake the other
side. `pipe_openi` waits without the inode lock. `ByteQueue` is the abstract
specification; the mapping reads the ring from `rptr` for `size` bytes. A process
has the pipe open once, `select()` looks at one pipe, and SIGPIPE is the error
return without the signal.

### FileLock and LockTable

`locks` is `i_filocks`; a record carries the processes asleep on its address, so
records need no name. `regflck` classifies two ranges, `flckadj` goes through the list
and cuts, splits, joins and frees records in the order of the code, stopping with `ENOLCK` where
it does. `slp` is `sleeplcks`: whom a sleeper was blocked by when it went to sleep,
which is what `deadflck` follows. `LockTable` gives each process and byte no lock, a
read lock or a write lock; it allows a call that ran out of records to have released
the caller's part of the range, which is what the code can leave behind.

### Clock and Callout

`hardclock()` is modelled in two modules that share no state: `Clock` advances the
time and takes up a slew a tick at a time (`Slew`, `Gain`, `Carry` are the branches
on `time_usec`), `Callout` counts the first entry of `calltodo` down and asks for
`softclock()`. `want` is `wantsoftclock` with its three values; `SoftclockEnds` is
the window between the last look at the list and the reset in `locore.c`. Entries
carry as history the ticks that are left until they should be called. `schedcpu()`,
profiling and the load average are left out; times are integers. The two modules are
extended together, so that the names of `Callout` that `Clock` has too begin with
`Callout`, and its half of `hardclock()` is `hardclock_todo`.

### RpcClient

A step is what a process does from one sleep to the next: `clget` (with the sleep in
`clntkudp_create`), sending, waiting for the output buffer, receiving with its
timer, giving the handle back. `buffree` is the interface that lets go of the output
buffer, `bufdup` the reference that it takes once more, `ckuwakeup` the timer, `Arrive`
any answer to what has been sent, any number of times. An error reply is `unavail`,
after which `rfscall` of a hard mount tries again, or `denied`, after which it does
not. The retry after `EACCES` gives the handle back and asks for one again, so it is a
call that ends and another of the process. Left out are `so_error`, which is never
set on a UDP socket that is not connected, and the wait for `CKU_BUSY`, which no caller
can reach.

### NfsServer

Two names, `f` and `d`, in one directory. A procedure is the step up to its change,
then perhaps a sleep, then `SaveReplies`: `svckudp_dupsave` and the reply. `dup` is the
cache in order of entry. `MaxCopies` of a request arrive in any order. `Late` lets
copies arrive after the call has ended, `Reboots` lets the client start again with
old transaction ids. Both are on in the instance with creates and writes only, and
off in the one with all procedures, because the code does not handle them there
(observations below). One client; rename and symlink, which do not use
the cache, are not modelled. The names `NfsInit`, `NfsSpec` and so on keep it apart from
`RpcClient`, beside which `MCNfs` and `RpcProof` extend it.

### InodeCache and MountList

`ino` holds for each place of the table its identity, flags, count and lock; `free`
is the free list. `getinode`, `IreadDone` and `IputDone` are the code after the
sleeps of `iget()`, `FS_IREAD` and `FS_IPUT`. `Umount` and `MountRemove` are the two
halves of the unmount, before and after its sleeps. A process has one inode at a
time. `MountList` keeps the structures as memory: a freed one has its contents until
it is given out again, so that following a stale link is a step like any other.
`Serial` makes unmounting wait for mounts, other unmounts and `update()`; the passing
run needs it (observations).

### Directory

A call is a record `pr[p]` with its label, directories, names and what the lookup
found. `dirlookup` is the search of cache and block, `direnter` and `dirremove` change
the cache first and the block after a sleep, `ilock2` gives up one lock to wait for
the other, `com_del` takes a link off. Waiting for a lock is a guard; `NoDeadlock`
looks for a circle of such waits. A directory is one block of a few slots, files
only. The slots are all the disk has room for: `bell_enter` behind the last one fails,
and `bell_remove` there (`MayRemove`) may fail too or find a cleared slot in a block the
file system still had. `Alone` names the calls that run without any other: `link` and `rename` in the
instances that are about names, because of finding 3 and the observations.

## 3. Runs

| Run | Instances | Checks |
|---|---|---|
| `stores` | `map`: 3 slots, 6 units: three separated runs and the delimiter do not fit, so the array overflows. `pipe`: two processes, a ring of 3 bytes, reads of 2, writes of 2 and of 5, with and without `O_NDELAY`, bad buffers, select and signals | `WellFormed`, `Partition`, `NeverBad`, `PipeSleepers`, `PipeKept`, and the refinements `ImplementsPool` and `ImplementsQueue` |
| `cache` | `all`: every operation, ample space, failing transfers. `contents`: two blocks read singly and written together, so that extents overlap at either end; transfers succeed. `scarce`: 2 units of each resource, so that two buffers cannot both have what they need. `umount`: unmount against `bdsync` | `Ownership`, `NoLostWakeup`, `CountsAddUp`, `ReadsRight`, `NothingLost`, `FlushedOut` |
| `cache_live` | fair, a block and a rival for the headers | `SleepEnds` |
| `cache_duplicate` | as `contents`, without failures | `CachedOnce` is violated (finding 1) |
| `cache_flush_race` | unmount against `bdsync`, one unit of DMA space | `FlushedOut` is violated (finding 2) |
| `ipc` | `semops`: two processes, lists of two operations on two semaphores with undo, too few undo entries, removal. `sempaging`: three processes, lists that are paged in. `mixed`: two calls at a time on one queue, two types, three ways to select, a limit that is lowered, removal. `pools`: three processes, two queues that share two headers and one segment | `SemSleepers`, `UndoRight`, `AllOrNothing`, `MsgSleepers`, `MessagesKept` |
| `locks` | `ranges`: every range of 4 bytes and every type by two processes, 3 records. `waits`: every range of 3 bytes, waiting. `cycle`: three processes, a byte each | `ListRight`, `SleepersFound`, `Acyclic`, the refinement `RangesAreTable`, and `WaitEnds` |
| `clock` | `clock`: 3 ticks a second of 11 microseconds, slews of 1 and 10. `list`: three entries of two functions, up to two ticks late. `live`: one function, fair. `rpc`: a hard and a soft mount, two handles, a server that may never answer, fair | `TypeOK`, `Slews`, `CalloutList`, `Called`, `CallEnds` |
| `nfs` | `calls`: two processes on one handle, two transmissions, replies lost, repeated and late. `handles`: two hard mounts and a soft one, two handles. `onenfsd`: one daemon, six procedures, four calls, two copies of each request. `creates`: two daemons, creates and writes, copies at any time, a client that reboots | `CallIntact`, `NobodyForgotten`, `InstancesRight`, `NoFalseError`, `AckedKept` |
| `files` | `table`: three processes, 4 inodes. `umount`: an unmount against a process that has files open and leaves. `mounts`: three devices and directories, two processes, `update()` | `InodesRight`, `NoOrphans`, `TablesRight` |
| `directory` | `names`: two processes, two directories, two files, two names. `cached`: three processes, one directory, two cached names. `links`: three processes, links of a file in use | `NamesRight`, `CacheRight`, `NoDeadlock` |
| `dir_rename` | two processes that create, unlink and rename | `EntriesLive` is violated (finding 3) |

Each property of a run is a conjunction of named invariants of the component, for
instance `PipeKept` of `TypeOK`, `RefCounts`, `BufferKept` and `OnePiece`; the
module says what each part is about. The mutants in `PROJECT.json` break the parts
one by one: each is a slip that the code could have had.

**Bounds.** Every cache instance has two processes and two buffers: one owner and
one waiter, a buffer that is taken while another is reassigned, both headers busy
with a third request waiting. All races there are between two processes, or a
process and the interrupt. Three processes are used where a third matters: a waiter
that a wakeup of the second must not take away (`sempaging`, `pools`, `table`), a circle of waits
longer than the one a direct test finds (`cycle`), two that fill the table before the third (`handles`). The tables are one or two entries
too small for what the processes want, so that each limit is met: undo structures,
headers and segments, lock records, callouts, handles, inodes, slots. `MaxSeq`
(removals of a set or queue), `MaxXid`, `MaxCalls`, `MaxCopies`, `QMax`, `MaxRefs`,
`MaxTicks`, `MaxLate` bound what would otherwise grow; a second removal, a third
call or a third copy meets no code that the ones before have not met. In `Callout`
an entry that is more than `MaxLate` ticks overdue counts as `MaxLate`. For the
properties that are proved no bound matters.

Symmetry over processes, buffers and names is used for invariants only.
`CHECK_DEADLOCK FALSE` stands where behaviours end because a bound is used up.

**Fairness.**
- `cache_live`: strong fairness for the steps of a process, because the scheduler
  runs every runnable process in the end and kernel sections are finite, though a
  runnable process may find the kernel occupied again and again; it also says that
  a caller does not keep a buffer for ever. Weak fairness for `iodone`: the drive
  answers each request, if only with an error. Nothing is assumed about calls being
  made. `SleepEnds` promises that a sleep ends, not that the buffer is free then:
  `getblk()` goes round its loop and may find it busy again, and the code has no
  queue that would prevent that.
- `locks`: a process that is woken runs; a process lets go of its locks in the end,
  by exit if not before (weak fairness of `Cleanlocks`); and from some time on nobody
  makes new requests. The last is needed: a lock that is let go is taken by whoever
  comes first, and newcomers can keep a waiter waiting for ever.
- `clock`: the clock ticks and interrupts end, so that every part of `hardclock` and
  `softclock` has weak fairness. For RPC, processes run, timers expire and the
  interface sends what it has. Nothing is asked of the server. `CallEnds` is about
  one `clntkudp_callit()`; a hard mount then makes another, on purpose.

### Findings

1. `getblk()` does not search the hash chains again after `getnewbuf()` has
   slept. Two processes that miss the same (or overlapping) blocks both enter
   them. `cache_duplicate` shows it with a sleep in `bio_allocmem()`. Callers that
   lock the inode are not affected for a file's data; blocks shared by several
   inodes (inode and bitmap blocks) are not covered by such a lock.
2. A delayed write that `bdsync()` has taken off the free list and that waits
   for DMA space is invisible to `bflush()` (not on the free list) and to
   `bdwait()` (not yet counted), so unmount invalidates the cache before the
   block is on the disk. The write still follows: the buffer keeps its contents,
   but `d_close` and `efs_freefs()` may have run by then.
3. `rename()` looks its source up without locking the directory. When the source is
   unlinked meanwhile, `bell_remove()` compares the inode number of a free slot, 0,
   with the 0 that the lookup left, takes the removal for done, and `com_del()` takes a
   link off the file that has just got its new name: the new entry leads to a file
   without links (`dir_rename`).

### Observations

The following disagreements between the code and what it says of itself were met
while modelling. Each is stated as a property of its module; no run of the project
checks it, and the constants given are those of an instance in which TLC refutes it
(`Proc` has two processes unless said otherwise; the limits are 1 unless given).
The passing instances keep clear of these cases by their constants, as noted.

**Semaphores.**
- `OpsOnNamedSet`, `PagesOut = TRUE`, `MaxSeq = 1`, lists P and V. `semop()` looks the
  id up (`sem.c:477`) and then copies the list, which sleeps in `iolock()`. When the set
  is removed meanwhile the operations are done on a header that is free or belongs to
  a new set. `sem.c:504`: "Verify that the semaphores haven't been removed".
- `SetOwnsItsSemaphores`, the same constants. `IPC_SET` stores a mode with `IPC_ALLOC`
  after such a sleep (`sem.c:211`): a removed set is allocated again without the
  semaphores that went back to `semmap`. `semctl.2`: "Remove the semaphore identifier".
- `SemncntExact`, three processes, lists P and V. A wakeup clears `semncnt` for all; a
  woken process that has a signal takes one more off (`sem.c:566`), from processes that
  went to sleep since. `intro.2:766`: "a count of the number of processes that are
  currently suspended".
- `NoSleepWhenReady`, `semvmx = 2`, the lists P and P followed by a wait for zero on the
  same semaphore. The sleeper waits for the value that its own undone P had given; the
  change that would let the list through does not wake it (`sem.c:584`). The passing
  instance has no semaphore twice in a list. `sem.c:500`: "Loop waiting for the
  operations to be satisified atomically."

**Messages.**
- `TextSleeperServed`, `msgtql = 2`, `msgseg = 1`, `msgmnb = 2`, texts of one byte. A
  sender sleeps on `msgmap` (`msg.c:482`); `msgfree()` does not look at `msgmap_wanted`,
  and only the failure of another `msgsnd()` wakes the channel. `msgop.2:85`: "The
  condition responsible for the suspension no longer exists, in which case the message
  is sent."
- `RoomSleeperServed`, `msgtql = msgseg = 2`, `msgmnb = 1`, `Limits = {2}`. `IPC_SET` raises
  `msg_qbytes` (`msg.c:128`) without waking those who wait for room; same sentence.

**Pipes.** `PIPE_SIZE = 2`, reads and writes of 1.
- `SelectServed`, `Events = {"in", "out"}`. `pipe_poll()` queues who waits for input on
  `pi_rb` (`com_pipe.c:386`), but a write wakes `pi_wb` (`com_pipe.c:364`): who selects for
  input is woken by reads. `select.2:39`: "to see if some of their descriptors are ready
  for reading".
- `OnlyWritten`, `Faults = {"write"}`. A copy that fails has moved the write pointer
  (`com_pipe.c:352`), and a reader gets what the buffer held before. `pipe.2:24`.
- `OpenUnblocked`. Who waits in `open()` tests the count again when it runs
  (`com_pipe.c:114`) and sleeps on if the other end was opened and closed in between.
  `open.2:77`: "will block until a process opens the file for writing".

**Record locks.** `DeadlockIsReal`, `MaxEnd = 1`, `Recs = 4`, write locks of one byte. An
entry of `sleeplcks` stands until its process runs, not until it is woken
(`fs_flock.c:505`), so that a request is refused with `EDEADLK` though nobody waits for
the caller. `fs_flock.c:586`: "if the blocking process is sleeping on a locked region".

**Callouts.** `NotEarly`, `ncallout = 2`, `Ticks = {1, 2}`, `MaxLate = 2`. `timeout()` does not
count the negative time of an overdue first entry (`clock.c:318`), which `softclock()`
then adds to the next (`clock.c:151`): a call made in between comes too early.
`clock.c:285`: "in tim/HZ seconds".

**RPC and NFS.**
- `HardLeaveOne`, three processes, two of them hard, `MAXCLIENTS = 2`, `MaxXid = 3`. `clget()`
  refuses a hard mount only the last entry, and only while the others are all hard
  (`nfs_subr.c:135`); hard mounts can come to have them all. `nfs_subr.c:138`: "Don't let
  hard RPCs tie up chtable."
- `NoFalseError`, two daemons, `Ops = {"remove"}`, two copies. The transaction id is saved
  after the change and a sleep (`nfs_server.c:751`); a second daemon finds neither name
  nor entry and answers `ENOENT`. `svc_kudp.c:403`: "detect retransmissions and re-send a
  non-failure response".
- `AckedKept`, `Ops = {"create", "write", "remove"}`, `Late = TRUE`, three calls.
  `rfs_remove()` looks into the cache only when there is no such name (`nfs_server.c:738`):
  an old copy removes the file that has been created and written since.
- `CreateEmpties`, `Ops = {"create", "write"}`, `Reboots = 1`, three calls. Transaction ids
  start with `lbolt` (`clnt_kudp.c:237`) and repeat after a reboot: a new create is taken
  for a copy and does not truncate.

**Inodes and mounts.**
- `InodeStates`, `ninode = 3`, `Reach = {Cov}`, an unmounter. The root can be reached from the
  covered directory while `iput()` of its last reference sleeps; the reference is lost
  when the count is set to 0 (`fs_inode.c:382`). `fs_inode.c:4`: "an inode may be in only
  one of the following states".
- `NoOrphans`, `ninode = 3`, `Nfs = TRUE`, an unmounter. A file handle makes an inode active
  after `iflush()` has found none (`efs_mount.c:241`). `umount.2:49`: "A file on spec is busy."
- `ListRight`, `Serial = FALSE`. `umount()` keeps the address of a link across a sleep
  (`fs_mount.c:178`); a mount at the head of the list makes it remove the wrong one.
  `fs_mount.c:174`: "Unlink this mount struct from the mount list".
- `OneMount`, `Alias = TRUE`, one device. Two special files of a device can be mounted at
  once (`fs_mount.c:98`). `mount.2:91`: "currently mounted. [EBUSY]".
- `SyncMounted`, `Serial = FALSE`. `update()` follows the link of a structure that was freed
  while it slept (`fs_subr.c:110`).

**Directories.** `NcSize = 2`, `Alone = {}`.
- `EnterEmpty`, one directory of two slots, `Ops = {"creat", "link"}`. `com_link()` uses the
  free slot of a lookup after `ilock2()` has given the directory up (`com_nami.c:315`).
  `com_dir.c:132`: "describe empty space for a new entry".
- `NoDeadlock`, two directories of one slot, `Ops = {"creat", "rename"}`. `ilock2()` waits for
  the directory while its caller has the old target locked, which a lookup that has the
  directory waits for (`fs_inode.c:558`). `fs_inode.c:530`: "lock ip without deadlocking".
- `CacheTrue`, two directories of one slot, `Ops = {"creat", "unlink", "rename"}`. A name is taken
  out of the cache and then out of the block (`com_dir.c:152`); a rename that reads the
  directory unlocked enters it again in between. `com_pncc.h:5`.

## 4. Proofs

All proofs hold for every value of the constants that meets the assumptions, which
TLC evaluates on the instances of the runs:

- cache: a finite `Buf`, names that are distinct from each other, natural amounts of
  space, extents of positive length that lie in `Block` for `bread` and `getblk`;
- resource map: at least two slots, a positive base address, at least one unit;
- clock: more than one tick a second, slews of less than a tick (`10 * TICKADJ < TICK`);
- callouts: a table of at least one entry, natural times;
- RPC: a table of at least one entry, at least one transmission and one look at the
  socket, positive bounds on ids and queues, hard mounts among the processes;
- NFS server: a cache of at least one entry, at least one call and one copy, `None` not a
  daemon, procedures among the six; what the theorems add is named with them;
- locks: finitely many processes, `None` not one of them, requests within the file;
- pipe: finitely many processes, `None` not one of them, a pipe of at least one byte,
  reads and writes of at least one;
- messages: finitely many processes and queues, `None` not a process, natural limits,
  messages of a positive type;
- inodes: finitely many processes, the names of files distinct from each other, a table
  with room for the root and the covered directory, and what the theorems state as
  their hypothesis, `NoRace`: with an unmounter, nobody reaches the root by the covered
  directory or a file handle. Without it the theorems are false; the two observations
  under "Inodes and mounts" are the counterexamples.

**ResourceMapProof.** `MapWellFormed`, `MapPartition`, `MapNeverBad`. The inductive invariant `MapInv` says that there
is a slot `d` with sorted, separated, non-empty segments before it and zeros
from it on (`Arr(map, d)`), and that free, used and lost units partition the
pool. None of the properties is inductive alone: that a free never overlaps
a segment needs the partition, that the partition survives a join needs the
order, and that an insertion leaves the array terminated needs the zeros behind
the delimiter. For each branch of `rmalloc` and `rmfree` a lemma gives the
delimiter of the new array and the set of units it holds; the overflow is the
case where the set shrinks, by exactly what `lost` gains.

`MapRefinesPool` is the refinement `ImplementsPool`, as a step simulation: `MapInv`
makes the segments the maximal runs of free units (that they are separated is what
makes them maximal), so that the first slot that is large enough is the lowest run
that is, and none is large enough only when no run is; a join or a new entry adds
the units of the call; and the overflow drops the last segment, which is one run.
Every step of the array is then a step of `ExtentPool` under the mapping `FreeUnits`.

**BufferCacheProof, types.** `TypeCorrect`. `TypeOK` is not inductive: that `b_flags[bp[p]]`
makes sense depends on where the process is. `TypeInv` adds `LocalOK`: at which
labels a process has a buffer, what `ret` may be, and that B_ASYNC is among the flags
saved by `bwrite()` only from there to its end.

**BufferCacheProof, owners.** `FreeListExact`, `ExclusiveOwner`, `DriverExclusive` and, with
`TypeCorrect`, `BufferOwnership`, from `TypeInv /\ OwnInv`. `OwnInv` joins to the free list property `OwnOK`: for every
label, what the process there knows of its buffer (busy, in the driver's hands
or not, asynchronous or not), and that two processes never own the same one.
Two points of the argument deserve attention. A process in `bwpost` has handed
its buffer to the driver and must not count as its owner, though the code still
writes to `b_flags`: what it writes, `B_AGE`, is harmless to whoever has the
buffer now. And a process at `capture` has found a buffer without owning it; the
interrupt may free it, and nothing may be concluded from what was true at `find`.

`WakeupsKept` (`NoLostWakeup`) and `AsyncCounted` rest on `WakeInv` in addition. A
sleeper has left its mark (`B_WANTED`, `bfwanted`, `basynwait`, a wanted flag of a
map) where whoever ends the wait will look, and the mark is taken away only together
with a wakeup (`Asleep`). That the condition still holds when the mark is made depends
on `cur`: between the search and the sleep no other process runs, and the steps an
interrupt could separate are at `spl6` (`Placed`). `AsyncCount`, that `basyncnt` counts
the asynchronous writes of the driver and the one that is about to be started, is
part of the induction: a process that waits in `bdwait()` sleeps with `basyncnt > 0`,
and only the exact count says that an `iodone` is still to come.

**BufferCacheProof, contents.** `BlocksCachedOnce`, `ReadsAreRight`, `WritesAreKept`,
`UnmountFlushes` (`FlushedOut`), from the invariants above and four more.

- `SearchInv`: a process that looks for a header and has not slept since its search
  is still the one inside the kernel, and nothing matches what it searched for. It
  holds in every behaviour and gives `BlocksCachedOnce`: a block is cached twice only
  after a `getblk()` has slept between search and entry, which is finding 1.
- `ContentInv`, as long as that has not happened. `Sound`:
  what the flags of a buffer say about its contents (done and without error means that it has the
  newest of all its blocks; a delayed write is done and valid). `Using`: what a process knows
  of its buffer at each label. `Stored`: `NothingLost` for each block. The heart of it
  is that what is still to be written is complete and valid, so that by `SearchInv` no
  other buffer caches the block, and a block that is read from the disk has no newer copy.
  Neither `ReadsRight` nor `NothingLost` is inductive without the other.
- `PathInv`, in every behaviour: which calls come to which label; who holds a buffer
  that is in the hash chains reads or writes a file or is about to write it; an unmounting process is
  alone with those who use no file (`Alone`, from `Admitted`); asynchronous transfers are
  writes.
- `SweepInv`: when `bflush()` has found nothing dirty on the free list there is nothing
  dirty at all, for by `PathInv` nobody is there who could hold a dirty buffer; and when
  `bdwait()` has found `basyncnt` zero, the driver has nothing, by `AsyncCount`. So
  `binval()` finds only clean buffers, and marking them invalid loses nothing.

The last three theorems are about behaviours with `NobodyWaits`: nothing can be unmounted, or no write
of one who uses no file (`bdsync()`, `bflush()`, the write that `geteblk()` needs for its
buffer) sleeps for DMA space. Such a write is neither on the free list nor counted, which is
finding 2, and `cache_flush_race` shows that the theorem fails without the hypothesis; in
the instance `umount` of `cache` there is space for all, and the hypothesis holds in every
state. Readers and writers of files may wait for DMA space at any time, and every transfer
may fail. `SweepInv` is proved together with `ContentInv`: a step of `binval()` keeps
the contents only because of it, and it needs them to know that a dirty buffer is valid.

**ClockProof.** `ClockType`, `ClockSlews`, `ClockMonotone`. `TypeOK` is inductive: a tick
adds less than a tick's worth of slew, so that one extra tick, or one left out, brings
the microseconds back into range, and at most two ticks are counted, fewer than a
second has. `Advance` computes what a tick does to the time in microseconds, across
the end of a second; that it is a tick and what comes off the adjustment is
`ClockSlews`, and that it is more than nothing `ClockMonotone`.

`CalloutsKept` (`CalloutList`) is about the list. The property speaks of sums, `Until(k)`; the
invariant `CalloutInv` speaks of neighbours instead: with `Off(e)` the ticks an entry
should be off by its history, the stored time of each is its `Off` less that of the
entry before it (`Chained`), and the first is no more than `MaxLate` overdue. A step
moves what one or two neighbours store, and that the sums follow is shown once, in
`SumIs`: a function that begins with 0 and grows by each term is the sum, since
a least place where it is not would have a predecessor. `PlaceIs` is the heart: the
search of `timeout()` ignores the negative time of an overdue first entry, and the new
entry is nevertheless consistent with all the others, as `late` says by how much it
comes too early; it goes before an entry only if that one keeps a time that is not
negative.

**RpcProof.** `CallsIntact` and `NobodyIsForgotten`. `RpcInv` adds to the parts of
`CallIntact` that a process has a handle exactly from `clget()` to `clfree()`
(`HandleHeld`) and that from the transmission on the output buffer has the id of the
call (`RequestOut`). The parts need each other: a datagram in the interface keeps its
id because a new call on the handle waits for the buffer, which is known only while
one process has the handle; a reply is taken for its call because the buffer's id is
compared and is that call's; and no timer is left over from one sleep to the next because `untimeout()` comes
before anything that leaves the handle to another. `NobodyForgotten` is in the
invariant: an entry that comes free wakes everybody who waits for one.

**RpcProof, the server.** `NfsTypes` holds for every value of the constants. Retransmissions
do no harm under two sets of conditions; the observations above are the counterexamples
when one is dropped.

`NoErrorIsFalse` (`NoFalseError`), `AckedIsKept` (`AckedKept`) and, without a restart of
the client, `CreatedIsEmpty` (`CreateEmpties`) are about one daemon and requests that
do not arrive after their call has ended (`Alone`). `SerialInv` says why a cache of any size
is enough then: whatever is on the wire is of the last call (`WireLast`), and a change
that the last call has made is being saved or is the newest entry (`ChangeKnown`), so a
copy that finds the name gone, or there, finds its entry too. `FailedStill` is what makes
it inductive: a call that has been told to have failed could still not be done, because
nobody but its own copies has changed the directory, so no copy makes the change after all. `EmptiersOut`
says that while a create or remove is about the client relies on nothing in the file, and
`FreshInv` that a transaction id in the cache is one of a call that has made its change.

`CopiesTruncateNothing` (`AckedKept`) is about any number of daemons, copies at any time and
restarts, without removes and as long as the cache has not been full. By `CopyInv` a create
that has been answered is in the cache, so that a late copy does not truncate; and one
that is to truncate is not answered yet and has the file locked, so that no write is
answered before it does. Nothing is claimed of `NoFalseError` with several daemons, nor of
`AckedKept` with late copies of removes or of calls whose entry has left the cache.

**FileLockProof.** `ChainAcyclic`: the chain of `sleeplcks` that `deadflck()` follows
has no circle, for any number of processes. `Acyclic` says that every non-empty set of
processes has a member that does not wait for one in the set. Removing
an edge keeps that (`EdgeRemoved`); adding the edge from `p` to `q` keeps it when `p` is
not reached from `q` (`EdgeAdded`), and that is what the walk of `deadflck()` has
tested. The walk is bounded in the code by nothing else: without `Acyclic` it need not
end.

**PipeProof.** `PipeWakesAll` (`PipeSleepers`), `PipeIsKept` (`PipeKept`) and the
refinement `PipeRefinesQueue` (`ImplementsQueue`), for every size of the pipe, number of
processes and length of reads and writes. `PipeInv` joins four things to the properties:

- `LockOK` and `CallOK`: who has the inode locked, and what a process has found out
  where it is; a copy into the pipe still has the room that `pipe_writei()` tested,
  because nobody else moves the pointers while the inode is locked, though the copy sleeps;
- `RingOK`: the write pointer is where the bytes end, and the rest of the ring holds
  nothing, so that a write that faults adds bytes that nobody has written;
- `Pieces` and `TailOK`: neighbours that belong to one short write follow each other, and
  the last byte in the pipe ends its write unless the process that copies now wrote it. A
  write that does not fit as a whole but is shorter than the pipe waits with nothing copied,
  which is what keeps it in one piece; only a longer one goes round `floop`;
- `IoOK`: a sleeper has left its flag, and the condition it waits for has not come.

`TakeBytes` and `PutBytes` say what a copy does to the ring across its end, in terms of
the place behind the read pointer (`Cell`); every leaf about wrapping is in these two
lemmas, and the refinement is read off them: a copy out is a suffix, a copy in has the
old queue as a prefix. `CloseIsStep` shows that data is dropped only when no process has
the pipe open.

**MessageQueueProof.** `NoSleeperForgotten` (`MsgSleepers`) and `NothingLost`
(`MessagesKept`). `MsgInv` adds to the parts of the two properties what a process
has in its hands while it copies: the one that has `msglock` has the header and the
segment it took (`msgsnd`) or the message it found (`msgrcv`), its queue is marked as
copied from or to, and nobody else is at such a place. That the headers, the segments and
the bytes of a queue are all accounted for is an equation between a counter of the
code and a count over all queues and processes; a step moves one unit from one place to
another. Texts are the positions of messages with text (`Texts`), so that the counts are
cardinalities and need no induction. A sleeper is flagged, and a change that could let
it go on comes together with the wakeup that clears the flag. The clause about waits for
room says that the queue is full while somebody sleeps for room; its premise `LowersOnly`
is that `IPC_SET` sets no limit but one that a queue is made with or a single lower one
(`RoomSleeperServed` is the case without), and `LimitsOK` in the proof says that a queue
has one of these limits, so that none grows. The run has a limit that is lowered.

The search of `msgrcv()` is a loop, in the model a recursive function over the queue.
That it stops at the message the manual promises (`PickFirst`) is shown without an
induction theorem: for every length of prefix there is exactly one place the search can be
at (`SoughtSome`, `SoughtOne`), because a shortest prefix without one would have a
predecessor and a turn of the loop (`SoughtTurn`), and the function that gives these
places satisfies the recursion (`LoopFinds`).

**InodeCacheProof.** `TableRight` (`InodesRight`) and `NoInodeLeft` (`NoOrphans`), for
any number of processes, inodes and files, under `NoRace`. `Inv` says

- that the free list has each inode without a reference once, the count of an inode
  is the number of the processes, mounts and current directories that have it
  (`Refs`, `Pins`), and a locked inode has exactly one process that locked it (`LockOK`);
- what a process counts on where it sleeps (`ProcOK`): one that reads an inode in or
  puts its last reference is alone with it, because the inode is locked and who finds
  it waits; that process must look again when it wakes up (`igetwait`), since the
  inode may be another file's then;
- how far the unmount has come (`UmOK`, `PhaseOK`). While the root is put, it is the only
  inode of its file system in the table, and none can come: under `NoRace` its files
  are reached only from a current directory in it, and `iflush()` has found no inode
  in use. This is where `NoRace` is needed, and nowhere else.

Removal from the free list, insertion at either end and the choice of an inode to reuse
are lemmas about lists without repetition (`OffLists`, `TailLists`, `ConsLists`), a
reference that comes or goes one about cardinalities.

**Only model-checked.**

- The refinement `RangesAreTable`, the space half of `CountsAddUp`, `ListRight`
  and `SleepersFound`: sums and lists built by folds. The library's induction principle for a
  fold has an operator parameter, which the installed provers cannot instantiate. A
  recursive function over one sequence can be unfolded by a least counterexample, as in
  `MessageQueueProof`; `flckadj()` rebuilds its list in nested folds, for which this is out
  of proportion.
- Semaphores (`semop()` applies and takes back its list by folds),
  the mount list and directories. `InstancesRight` and `TablesRight` contain
  proved properties, for further instances.
- `SleepEnds`, `WaitEnds`, `Called` and `CallEnds`, which are liveness properties
  under fairness.

## 5. Plan

Done: resource maps, the buffer cache without read-ahead, semaphores, messages,
pipes, record locks, clock and callouts, the RPC client and the NFS server's cache,
inodes, the mount list, directories with the name cache. Next, in this order:

1. Theorems: type correctness and the main safety property of `Semaphore` and
   `MountList`; the order of the list in `FileLock`.
2. STREAMS (`streams/stream.c`): flow control with `QWANTW` and `QFULL`, `bufcall()` and
   its callbacks, `flushq()` against a running service procedure.
3. `breada()` and `incore()` in `BufferCache` (an asynchronous read is a new kind of
   owner); `DiskSort` (`fs_dsort.c`) against a reference order; `COMPUTE_BUCKET_STUFF`
   against the set of buckets that can hold an overlapping buffer.
4. Composition of unmount: `InodeCache`, `MountList` and the cache's `umount` in one.
5. Shared memory, once the VM's reference counts are modelled.

## 6. Not modelled

Raw and swap I/O (`B_PHYS`, `B_CALL`), `clrbuf()`, metering and the debugging write
lock of the cache; the abstractions named with each module; and all components
marked so in `PROJECT.json`. Machine-dependent code, drivers and graphics are
hardware; user programs and libraries are plain computation and most of the
repository's lines, so that the kernel modules cover a small share of it; sockets
and TCP/IP are imported from 4.3BSD; VM, process management and signals are
entangled with page tables and processor state; the on-disk allocators, STREAMS,
shared memory and disk sorting are plain candidates for which the time has not come.
