# Verification of os_stuff

The repository is a collection of operating-system programs: a memory
allocator with a driver program, process and thread synchronisation
exercises, Linux kernel modules (a tablet driver, bottom halves, a file
system), a daemon, socket servers, and a protected-mode assembly program.
This directory holds TLA+ models of the parts whose correctness depends on
order, history or interleaving, TLC configurations that check them, and TLAPS
proofs. Paths below are relative to the repository's `src/`.

## 1. Inventory

| component | state | operations | status |
|---|---|---|---|
| buddy allocator v1 (`buddy_alloc/src/buddy_malloc.c`, `list.c`) | free lists, one bit per internal node, break, pool limit | `malloc_1`, `free_1` | modelled, proved |
| buddy allocator v2 (`buddy_malloc_2.c`, `list.c`) | free lists, packed 2-bit status per node, break, pool limit | `malloc_2`, `free_2` | modelled, proved |
| allocator driver (`buddy_alloc/src/main.c`) | none of its own | loop of allocations and frees | partly, as the caller of v2 |
| producers/consumers (`mutual_exclusion/lin_consumers_producers.c`) | 3 semaphores, shared buffer | fork, produce, consume, wait, remove | modelled, proved |
| readers/writers, Linux (`lin_readers_writers.c`) | 4 semaphores, shared integer, `sig_status` per process | fork, read, write, SIGINT, wait, remove | modelled, proved |
| readers/writers, Windows (`win_reades_writers.c`) | mutex, two events, plain and interlocked counters | startWrite ... stopRead | modelled, proved |
| tablet driver, life cycle (`tablet_touch_driver/touch_tablet_main.c`) | urb, work queue, work items, tablet | init, exit, probe, open, close, disconnect, completion, work | modelled, proved |
| tablet driver, reports (`touch_handler.c`, `pen_handler.c`, `hid_parse.c`, `wacom.c`, `debug.c`) | features of the device; places of the fingers and buttons, static; pen near or not | parse the descriptor, `irq_touch`, `irq_pen` | partly, that proved |
| bottom halves (`9_soft_irq_and_workqueue`) | one scan code shared by interrupt and tasklet/work; tasklet, queue, items | interrupt, tasklet, work, load, unload | modelled, proved |
| protected mode (`protected_mode/protected_mode.asm`) | output positions, screen, DI, exit flag | two interrupt handlers, the loop they interrupt | partly, that proved |
| daemon (`1_daemon/src/main_thr.c`) | lock and number in a file, blocked and pending signals | daemonize, already_running, thr_fn | modelled, proved |
| sockets (`8_sockets/src`) | table of clients, descriptor set, connections | accept, receive, answer, close; a client; a datagram echo | partly; the table proved |
| buffered I/O (`5_buffered_IO`) | stream buffers, file positions, file | read, write, close, by one or two threads | modelled, proved |
| fork/exec (`fork_exec`) | processes, pipe, signal flag | fork, wait, pipe, signal | partly, that proved |
| vfs module (`7_vfs/main.c`) | registration, cache | load, unload, mount | not modelled: straight-line set-up of kernel objects |
| file tree, proc reader, kernel modules (`2_file_tree`, `4_proc`, `3_kernel_modules`) | none | print | not modelled: pure I/O |
| `6_open_schemas` | none | diagrams only | nothing to model |

`src/protected_mode/steps` holds earlier stages of the assembly program and is
left aside.

How components interact. The allocator gets memory from `sbrk` and shares the
break with the C library, which `main.c` calls between allocations
(`main.c:29`, printf and calloc). The synchronisation programs interact only
through semaphores, shared memory, `fork`/`wait` and signals. The tablet
driver's completion handler (interrupt) hands an urb to a work queue, whose
items resubmit the urb while `open`, `close`, `disconnect` and module unload
run in other contexts; the reports the items evaluate one at a time are the
steps of `TabletReports`. The bottom halves hand on a scan code in the same way. The
other programs have no part in common.

What is hard, and what has to hold:

* The allocators' invariants relate free lists, status bits, the pool limit and
  the break. A wrong bit shows only many calls later. Blocks must be disjoint,
  must cover the pool, must lie in memory obtained from `sbrk`, and a call must
  return, also after `sbrk` has failed half way.
* The process programs are preempted anywhere; increments are a load and a
  store; SIGINT makes a sleeping `semop` fail; forks fail. One child (or one
  writer) at a time is inside, nothing read is unwritten, nobody who is gone keeps
  others out, children exit, and the producers' shared memory is removed last.
* The drivers free what other contexts still use when operations come in an
  order nobody tried.
* The Windows program reads and writes plain variables in several threads and
  sets and resets events others wait for. Its threads have to end, or it must be
  clear what can keep them from it.
* The server is one thread with a table, a descriptor set that is never cleared
  and clients that come, go and are killed: a stale bit or slot would make it
  fail, or wait for one client while others wait for it.
* A bottom half is not scheduled twice, its data is overwritten while it runs:
  the last key must not get lost.
* Statics of the driver outlive the device they describe; a key reported pressed
  must be one that will be reported released.
* The daemon may be started twice at once and killed anywhere between taking the
  lock and writing its number.
* Streams buffer; handlers of the assembly program change a register under the
  loop they interrupt.

`PROJECT.json` lists each hazard at its line.

## 2. Modules

| module | what it is |
|---|---|
| `BuddyTree` | the complete binary tree over the heap, its arithmetic (`ptr_for_node`, `node_for_ptr`, parents, buddies) and the list operations; no variables |
| `Heap` | abstract: what malloc and free promise a caller |
| `BuddyMalloc1`, `MCBuddyMalloc1` | `malloc_1` and `free_1`, and their instances |
| `BuddyMalloc2`, `MCBuddyMalloc2` | `malloc_2` and `free_2`, and their instances |
| `BoundedQueue` | abstract: a FIFO queue of bounded capacity |
| `ProducersConsumers` | `lin_consumers_producers.c` |
| `ReadersWriters` | `lin_readers_writers.c` |
| `TabletDriver` | the life cycle of the tablet driver, `touch_tablet_main.c` |
| `WinReadersWriters` | `win_reades_writers.c` |
| `TabletReports` | what the driver makes of descriptor and reports: `hid_parse.c`, `wacom.c`, `touch_handler.c`, `pen_handler.c` |
| `BottomHalves` | the tasklet module and the work queue module |
| `SelectServer` | the TCP server `inet/server.c` and its clients `inet/client.c` |
| `DaemonLock` | `main_thr.c`, several processes |
| `SharedStreams` | the seven programs of `5_buffered_IO` |
| `ForkExec` | the five programs of `fork_exec` that fork |
| `ProtectedMode` | `protected_mode.asm`, from `sti` to the return to real mode |
| `MCPrograms` | the eight modules above in one instance for TLC |
| `BuddyTree_proofs`, `BuddyMalloc1_proofs`, `BuddyMalloc2_proofs`, `BuddyMalloc2_blocks_proofs`, `ProducersConsumers_proofs`, `ReadersWriters_proofs`, `TabletDriver_proofs`, `Programs_proofs` | theorems and proofs |

A definition named `Faulty_X` is `X` with a bug one could plausibly write. No
specification uses it; substituting it for `X` makes TLC report the property
it is meant for, so every property is known to depend on the code.

### Allocators

Addresses are counted from `base_ptr` in units of `MIN_ALLOC` bytes; the heap
has `2^(BUCKET_COUNT-1)` units. `buckets` is one sequence of addresses per
free list (the code's lists are circular and doubly linked; `list_push`
appends, `list_pop` takes the last). `max_ptr` is the break, `bucket_limit`
the bucket of the pool's root. In version 1 `split` is the set of internal
nodes whose bit in `node_status` is 1; in version 2 `node_status` maps each
byte of the array to its value, and a status is read and changed by the code's
own shifts and additions, modulo 256.

A call is a run of steps. `Malloc`/`Free` take the arguments, then each
iteration of a loop of the code is one step: an iteration of
`lower_bucket_limit` (`GrowFree`, `GrowUsed`, `GrowDenied`), the search for a
non-empty list (`NextBucket`), `list_pop` with its `sbrk` (`Pop`,
`PopDenied`), one split, the return, and one merge. `pc` says where the call
stands; `bucket`, `orig`, `node`, `request` are its locals. Every `sbrk` may
fail. Version 1 stores the request in the block's header, version 2 finds the
size of a block from the statuses above it. In version 2 `Foreign` is the rest
of the process moving the break. The programs are single-threaded: the
concurrency here is with `sbrk` failing and with the other user of the break.

An access outside `node_status` sends version 2 to the state `undefined`.

### Producers and consumers, readers and writers

A `semop` on several semaphores is one atomic step, as the kernel makes it;
each access to shared memory between two `semop`s is a step of its own, an
increment two. `main` forks its children one at a time while earlier ones
already run; a fork may fail, and `main` then exits and leaves its children
alone. Sleeps and printing are left out (a child may pause anywhere anyway).
In `ReadersWriters`, SIGINT is sent to the whole process group and reaches
each process at its own moment: it sets `sig_status`, and makes a `semop` that
sleeps fail, on which the process exits; `wait` is restarted. A `fork` is not
carried out while a signal for `main` is pending.

### Tablet driver

One interface of the tablet, whose urb goes round: in flight, completed,
handed to a work item, evaluated, submitted again. `Containers` are the work
items that can exist at a time; `work` says where each stands. The completion
handler `tablet_irq`, each of the three parts of `work_irq` (the test of the
status, the evaluation of the report, the submission), `tablet_open`,
`tablet_close` and each part of `tablet_disconnect` is a step, and steps of
different contexts interleave in any way. Of the kernel the model takes what
the driver calls: a submission is refused for an urb in flight, for an
interface being unbound (the USB core disables its endpoints before it calls
`disconnect`) and for want of memory; `usb_kill_urb` ends a flight with an
error; a queue being destroyed finishes its items and takes no new one.

`failed` and `overlap` only record what has happened, for the properties:
whether the kernel has reported an error since the device was opened, and
whether it was opened while items of an earlier opening were left. An access
to what is not there (a tablet freed under a queued item, a queue not yet made
or already destroyed, a module whose init failed) ends the behaviour and leaves
its cause in `fault`. Such behaviours exist: the driver neither cancels its
work on disconnect nor orders load and unload the other way round. No line of
the repository says they do not, so no run claims it; the hazards name them.

### The smaller programs

Each has a module of its own, with its own `Init`, `Next`, `Spec` and type
invariant. `MCPrograms` puts them side by side: a behaviour is one of the
programs, chosen in its first state. They share nothing, so nothing is lost by
not interleaving them, and a product would only be larger.

*`WinReadersWriters`*: every access to a variable that is shared is a step, and
so is every call of the system. `canRead` is an event a wait resets, `canWrite`
one nothing resets (`win_reades_writers.c:128`), so that two writers, or a
writer and a reader, may pass `startWrite` and `startRead` together and an
increment may be lost; the readers' loop waits for the sum of all increments.
The ghost `signal` records whether the event a writer set was taken by a reader
or reset by `stopRead` (line 86).

*`TabletReports`*: `features` is what `parse_hid` leaves, item by item of the
descriptor; a device may name its items in any order. `mt_info` and `held` are
the static variables of `touch_handler.c`, `keys` what the input core holds for
pressed. The input device may be closed and opened, and the tablet replaced,
between any two reports. `stroke` is a ghost: where a finger landed, and the sum
of the moves reported since.

*`BottomHalves`*: each interrupt handler takes several steps, beside which the
bottom half runs on another processor. `last` and `printed` are ghosts. What is
undefined (a key past the end of `ascii_map`, a queue or an item that does not
exist, code that was unloaded) ends the behaviour with `broken`.

*`SelectServer`*: a turn of the server's loop is `SetDescriptors`, `Pselect`,
`Accept` and a step for each slot. A client may be killed at any moment; a
connection that ends with an answer unread is reset, which ends the server
(`Reset`), as does a client too many (`Put`).

*`DaemonLock`*: `daemonPc` is the call a process stands before. Each call may
fail, signals and SIGKILL come at any time, and a process that has ended may be
started again. `flock`, `ftruncate` and `write` may fail without the program
looking; the ghosts `unlocked` and `unwritten` say so.

*`SharedStreams`*: `program` is one of the seven. A read fills a buffer from the
position of the descriptor, which two streams of `1.c` and `1_th.c` share;
`fclose` writes the buffer, at the position of the descriptor or, for "a", at
the end.

*`ForkExec`*: `source` is one of the five. A child can be killed anywhere, and
SIGINT, sent to the group, reaches each process at its own moment. A child of
`3_exec.c` becomes one of two programs that wait in `scanf`
(`weight_index.c:17`, `triangle_type.c:33`), unless `execlp` fails; what ends its
place "reading" is `UserAnswers`, which nobody has to take.

*`ProtectedMode`*: a handler is one step, since its gate keeps interrupts off; the
loop `mem_scrn` goes on with the `DI` a handler leaves. A place is a character
cell; letters, colours and the timer's count are left out. A key with a code
above 39h, which `new_09` does not filter, is read past the end of `ascii_map`,
where the data segment ends too: exception 13, and home (`KeyBeyondMap`), as for a
character past the end of the screen.

## 3. What the runs check

| run | bounds | shows |
|---|---|---|
| `buddy1` | 4 buckets, requests that just fill each block and one too large | version 1: the blocks are disjoint (`BlocksDisjoint`), none is lost (`PoolCovered`), each bit is exact (`SplitBitsExact`), no two free buddies stay unmerged (`FullyMerged`), `list_remove` only unlinks what is linked and the "guaranteed" pop succeeds (`ListsServe`), blocks are backed (`MemoryObtained`), calls return, and the whole implements `Heap` |
| `buddy2` | 4 buckets, requests up to half the heap; the last held block stays | the blocks are disjoint and none is lost, a status tells the size of a block (`StatusTellsSize`), calls return, and the whole implements `Heap` |
| `buddy2_any` | 3 buckets, whole-heap requests, everything may be freed, the break may be moved | every action of version 2; types, and that blocks are backed (`MemoryObtained`), when callers and the other user of the break do as they like |
| `prodcons` | 3 producers, 3 consumers, 2 iterations each, 6 slots | exclusion, a consumer never reads an unfilled slot, positions stay in the buffer, the buffer is a FIFO queue (`IsBoundedQueue`), children exit, memory is removed last |
| `readers_writers` | 2 writers, 2 readers, SIGINT sent twice | a writer is alone, no increment is lost, who waits in a `semop` waits for somebody inside, whatever SIGINT has ended (`WaitsForSomeoneInside`), SIGINT ends every process |
| `tablet` | 4 work items | while the tablet is open only an error stops the polling (`OpenPolls`, `ReportsKeepComing`), a report is evaluated by one item with the urb at rest unless the tablet was opened over left items (`OneReportAtATime`), and a killed urb is not submitted again (`UrbHasTablet`) |
| `programs` | see below | the eight smaller programs, one in each behaviour |

The properties of `programs`:

* `WinEndsUnless`: whatever the threads do, the writers of the Windows program
  get through their rounds, and only two things keep the program from its end:
  an increment was lost, or the event a reader waits for was erased.
* `NoKeyLeftPressed`: a mouse button that a reader of the input device sees
  pressed is one the driver will release, through closings and replacements of
  the device (the middle button excepted, which pressure presses as well); a pen
  that has left leaves no key pressed. `MovesAddUp`: the moves of a finger add up
  to its way, less the -1 that is sent as it lands; no move leads from where an
  earlier touch has ended.
* `PressedIsPrinted`: when a bottom half is at rest, the key it was last scheduled
  for is the one it printed last.
* `TableIsExact`: table, open descriptors and descriptor set agree at each step of
  the server, and `recv` is called only when there is something to receive.
  `WaitEnds`: no client waits for its answer for ever.
* `OneDaemon`: two processes are past the lock only when `flock` failed for one
  of them for a cause the program passes over, and the file names the daemon.
* `NothingLost`: what the seven programs that share a file leave on the screen and
  in the file.
* `ParentHearsAll`: a parent that begins ends, having read all its children wrote,
  whichever are killed or interrupted; only that of `3_exec.c` may wait for ever,
  for a child that waits for its user.
* `TextStands`: whatever `DI` the interrupts leave, the text typed stands with the
  cursor behind it, and the message about the memory is whole when no interrupt
  came while it was printed.
* `TypesOK`: the type invariants.

Five runs show where the code and what it says of itself part:

* `buddy1_wrap`: `request + HEADER_SIZE` wraps (`buddy_malloc.c:154`), so a
  request near `SIZE_MAX` is granted a smallest block.
* `buddy2_root`: after everything was freed (`buddy_malloc_2.c:315`) a status
  is off by one, and `lower_bucket_limit` takes a pool in use to be free. If
  callers may free their last block, `BlocksDisjoint`, `PoolCovered` and
  `StatusTellsSize` fail as well; that is why `buddy2` keeps one block.
* `buddy2_whole`: for a block as large as the heap `(i - 1) / 2` is computed
  for `i = 0` (`buddy_malloc_2.c:273`) and `node_status` is read far outside.
* `buddy2_foreign`: `update_max_ptr` takes memory between the old and the new
  break for its own although the C library may have moved the break.
* `fork_status`: the message after `wait` (`fork_exec/2_wait.c:40`) says that
  `children[i]` has ended, whichever child `wait` returned. With two children, the
  second of which ends first, it names one that still runs.

Why the bounds are enough. Four buckets are the fewest with a grandparent whose
bit is set while the pool is being doubled, a pool that is neither the smallest
block nor the whole heap, and a split of two levels. Three buckets suffice for
`buddy2_any`, which has to reach each action, not each shape. In `prodcons`
three processes of each kind compete for one lock, and the positions run
through the whole buffer; the proofs cover all other sizes. Two writers and two
readers make every pair of kinds meet; the integer is kept modulo
`ValueLimit`, and one lost increment already tells `shm` from `written`; a
second SIGINT (`SigintLimit`) reaches processes in every state the first one
leaves. With four work items the device can be closed and opened twice before
any of the items left by it has run, and the proofs cover any number.
`WordSize` is a small power of two in place of 2^64 above every request and
block size.

In `programs`: two writers and two readers, one round each, are what a lost
increment, a chain of readers and an erased event take; `ITERS` only repeats a
round. Two places of a finger and no place give every kind of move; the buttons
are one of each kind (none, a plain one, the combination that is the wheel, the
one tested apart, and a code that means nothing). Three clients compete for two
slots: a slot and its descriptor are used again, and one client is too many.
Three keys, one of them past the end of `ascii_map`: one can be overwritten by
another. Two processes race for the lock; a third would meet what the second
does. A buffer of 3 and a text of 5 characters stand for 20 and 26: one full
buffer, one that is not, and the end of the file; the two writing threads have
texts of different lengths, as in the code. `PROC_COUNT` is the code's, and two
interrupts reach children before and after they have set their handler. The
screen has 8 cells instead of 2000, in the same order: timer, a line for typing,
a message of two characters at the end.

Fairness. A call that was made goes on (`WF` of `Step`): the allocator never
waits for anybody. For the processes: the kernel runs every process that can
run, one `WF` per child and one for `main`, and delivers a signal it was asked
to deliver. In `TabletDriver` queued work is carried out, and a tablet that is
in use goes on sending reports (the `WF` of `Complete("ok")`, on which
`ReportsKeepComing` depends). In `programs` every thread, process and client
that can run does, and the server too; nothing is assumed of interrupts, signals,
SIGKILL, reports and users. No fairness is assumed of semaphores among waiting processes, of
`sbrk`, of forks succeeding, or of the user.

Deadlock is checked except in the runs `buddy2_any`, where `undefined` and an
exhausted break may end a behaviour, `tablet`, where a fault ends it, and
`programs`, whose programs end; there `WinEndsUnless`, `WaitEnds` and
`ParentHearsAll` take the place of the check.

## 4. What is proved

TLAPS proves the following for all values of the constants, from the
assumptions declared in the modules (sizes are powers of two, requests fit a
word, numbers of processes are natural numbers).

* `BuddyTree_proofs`: the block arithmetic. `bucket_for_request` has at most
  one answer (`OneBucket`), so `free_1` finds the bucket `malloc_1` took;
  `node_for_ptr` and `ptr_for_node` are inverse on block starts (`NodeOfPtr`);
  parents and children lie where their blocks do (`ParentOf`, `ChildrenOf`).
  The same module has the lemmas on the free lists, and blocks as sets of units,
  without a state. Two blocks
  that share a unit are nested (`Geometry`). `Sound(F, H, S, l)` says of free
  blocks `F`, blocks in hand `H`, bits `S` and a pool of bucket `l` that `F` and
  `H` have nothing in common, that together they tile the pool, that each bit is
  exact, and that no two buddies are free. The lemmas `SoundTake`, `SoundGive`,
  `SoundSplit`, `SoundMerge`, `SoundGrowFree` and `SoundGrowUsed` say what each
  move of the allocator makes of a sound state; at most one bit changes in each, and only
  the node above the block can notice.
* `BuddyMalloc1_proofs`: `TypeOK` and `MemoryObtained`. Neither is inductive:
  a list entry is in range only if its list contains starts of blocks of its
  own bucket, and a block is backed only if the block being split is backed as
  far as the list node of its right half. `IInv` adds where free blocks lie
  (`FreePlaced`), where held ones do (`LivePlaced`), and what the call in
  progress works on (`MallocPlaced`, `FreePlacedCall`).
  The second half is about the blocks: `BlocksDisjoint`, `PoolCovered`,
  `SplitBitsExact`, `FullyMerged`, `ListsServe`, and `ImplementsHeap`, for every
  depth of the tree. `BInv`, relative to `IInv`, is that the lists, the headers and
  the block of the call in progress are `Sound` for `split` and `bucket_limit`, and
  that no list has an address twice. A step of the program is one of the moves
  above plus one operation on a list. That the block of the call counts as in hand
  is what makes `BInv` inductive: the bit is flipped before the header is written,
  and after it is given up. The five properties follow from `BInv` alone. For
  `Heap` a refusal has to be justified too: `Searched` says that the lists the
  search has passed are empty, so every free block is smaller than the one sought,
  and in a pool as large as the heap an aligned region of that size which touches
  no held block would be made of free buddies that were not merged
  (`FreeRegion`). The refinement is proved under `NoWrap`, that no request plus
  header exceeds a word; `buddy1_wrap` shows that it fails otherwise.
* `BuddyMalloc2_proofs`: `TypeOK` and `MemoryObtained` of version 2, without any
  assumption on the order of frees or on the other user of the break. The proofs of
  version 1 do not carry over: once a field of `node_status` has overflowed into
  its neighbour, `free_2` may take a block for one of another size. `IInv` therefore
  says only of addresses and indexes that they are of the level of their bucket
  (`FreePlaced`, `LivePlaced`, `MallocPlaced`, `FreePlacedCall`), and that nothing is
  free or held before the first call (`Fresh`). An addition to a byte is shown to
  leave a byte whatever it carries (`AddToBytes`).
  Its second half is what the two bits of a node mean, as lemmas about
  any sets of blocks. `Kept(f, F, K, M, E, l)` says of free blocks `F`, blocks in hand
  `K`, the marked ones `M` among these and a pool of bucket `l` that `F` and `K` tile the
  pool with no two buddies free (`Tidy`), and that the field `f` of each block is 2 if
  it is marked USED and else the number of its halves that are in use, in whole or in
  part. `E` is the block `free_2` is about to clear, whose field is out of date.
  `Above`: above the pool all fields are 0, but for the one over the root, which is 0 or
  1 while anything is in use: only a root taken whole raises it, not one doubled while in use. There is a lemma for each move: `KeptTake`, `KeptSplit`,
  `KeptMark`, `KeptFree`, `KeptClear`, `KeptGive` and those on merging and doubling. One
  field changes in each, and `DigitAdd` says that an addition to a packed byte changes
  no other field as long as it stays within its own.
* `BuddyMalloc2_blocks_proofs`: `BlocksDisjoint`, `PoolCovered`, `StatusTellsSize` and
  `ImplementsHeap` of version 2, for every depth of the tree, whatever `sbrk` and the
  other user of the break do, provided the callers `KeepsOne`: they hold a block
  whenever they free one, and ask for none as large as the heap. For others the code is
  wrong, as `buddy2_root` and `buddy2_whole` show, and the induction fails at
  the step they show: the last `free_2` lowers the field over the root even when
  it holds 0, and so borrows from its neighbours in the byte. For callers that `KeepsOne` the two claims of those runs,
  `UnusedRootIsFree` and `Defined`, are proved too. `BInv`, relative to `IInv`, is that the
  fields are `Kept` for the lists, the held blocks and the block of the call, that no
  list has an address twice, and that what is popped or unlinked is there. That the
  walk of `malloc_2` over the ancestors finds no status to raise is a consequence
  (`KeptBothUsed`), as is that `bucket_for_alloced_pointer` stops at the size given
  (`FoundSize`): of the nodes at the address of a held block its own is marked, and
  those below hold 0. The refinement adds `Searched`, as in version 1.
* `ProducersConsumers_proofs`: `TypeOK`, `MutualExclusion`, `ReadsFilledSlot`,
  `RemovedWhenUnused`, and that producers never get more than `EMPTY_NUM` items
  ahead. `IInv` spells out what the semaphores are worth when nobody is inside
  (`Quiet`) and, for the child inside, at each of its steps (`Busy`). Under the
  assumption `Fits` (all that the producers make fits the buffer, because the
  code never wraps a position) also `SlotsInBounds`, and that the program
  implements `BoundedQueue`: the queue is the items from `rpos` to `wpos`, it
  grows at the store of `wpos` and shrinks at the read. The argument counts:
  `wpos` is the number of rounds whose producer has stored it (`Counted`), and
  an item is in its slot before `wpos` passes it (`Placed`).
* `ReadersWriters_proofs`: `TypeOK`, `CountersExact`, `WriterAlone`,
  `NoLostUpdate`, `WaitsForSomeoneInside`. `IInv` adds that the two ACTIVE
  semaphores are never positive together (`OneKind`), that those of WAIT keep their
  first values between two steps (`WaitsAsSet`), and that a writer between
  load and store has loaded the current value (`Loaded`); exclusion follows by
  counting (`Alone`), and so does that a semaphore which keeps a child out counts
  somebody who is inside (`SomeoneInside`).
* `TabletDriver_proofs`: `TypeOK`, `OpenPolls`, `UrbHasTablet`, `OneReportAtATime`, for
  any number of work items. `IInv` adds that only a device that exists is open
  (`OpenHasDevice`) and that the urb is with the device or with one item
  (`OneToken`): an item hands it on when it ends, and `open` takes it only when
  there is no item.
* `Programs_proofs`, a part for each of the smaller programs:
  * `OneDaemon`, for any set of processes. `DaemonInv` adds that who is past
    `flock` holds the lock alone or is in `unlocked` (`HoldsLock`), and that a process
    in `unlocked` means a failure that nobody noticed (`FailureNoted`): without it a
    second process could write the file of the first (`NamedInFile`).
  * `TextStands`, for a screen of any size. `ScreenInv` adds where `DI` can be
    while the message is printed: behind the cursor or above the text, since a
    handler leaves it next to what it wrote itself.
  * `NoKeyLeftPressed` and `MovesAddUp`, for any number of places, any buttons and
    a pad of any size. `ReportsInv` says that a button pressed is the one the
    static `held` names, and that the place kept for a finger is where it was last.
  * `TableIsExact`, for any clients and any size of the table. `ServerInv` adds that
    a client has one connection and a connection one slot (`OneConnection`), that
    the table holds the open descriptors (`TableHolds`), and, between `pselect` and
    the end of the turn, that a bit still set belongs to a descriptor with
    something to receive (`SetIsFresh`): the set is a copy that gets old, and a slot
    is used again only by `accept`, which comes first.
  * `PressedIsPrinted`, for any keys. The tasklet's data is the scan code itself, the
    work items read a variable the next interrupt overwrites: `TaskletInv` and
    `WorkInv` say of each step of the handler which of the two the bottom half still
    to run will find. The two modules have a specification each (`TaskletSpec`,
    `WorkSpec`): only one of them is loaded.

  * `NothingLost` and the type of the streams, for texts and buffers of any length
    (`NoCharacterLost`). `StreamsInv` says of the programs that read that the part of
    the file before the position has been shown, is held by a part or is in a buffer
    (`NoneSkipped`), that there is exactly as much of it as was read (`AllCounted`;
    both together exclude a repetition), and that what a part has shown, holds and
    has buffered is in order (`Ordered`). Two buffers over one descriptor need no
    more: at the end both are empty. Two descriptors need the turn
    (`Alternates`) or the mutex (`Excluded`). For the programs that write it says
    that a buffer holds a beginning of the thread's text (`WriterPlaces`) and what the file
    holds when none, one or both of the threads have closed it (`Truncates`, `Appends`).
  * `ParentHasHeard`, for any number of children and of interrupts, whichever children
    are killed: a parent that reads has waited for every child and closed its own end,
    so that `read` cannot wait, and one that has ended has read everything. `ForkInv`
    counts: as many children are waited for as `wait` has returned (`WaitsCounted`). It is the
    safety that `ParentHearsAll` rests on.
  * The Windows program, for any number of threads and of rounds. `WinInv` says
    that the mutex is with the one reader between its wait and its release
    (`MutexHeld`), that each counter is the number of threads between its increment
    and its decrement (`WinCounts`), that `value` is at most the number of stores made
    (`ValueStored`), that a set `workingWriter` belongs to a writer at work (`OneWorks`), and that
    a reader who waits was seen by a writer: the event was set since, or a
    writer is still on its way to set it (`WillBeWoken`). Then the last writer cannot leave
    a reader behind unless `stopRead` has reset an event that was set
    (`OnlyAnErasedSignalStrands`), and a reader so left is never woken, since it holds
    the mutex (`TheStrandedStay`). It is the safety that `WinEndsUnless` rests on.
  * The programs side by side, as the run `programs` has them: `TypesOK`
    (`TypesAlways`), and all the invariants of that run (`AllKeepTheirPromises`). `SideInv` is
    the conjunction of the programs' invariants; the two bottom halves share
    the keyboard, so that only the one that runs keeps its own.

`TypeOK` of version 1, `ProducersConsumers`, `ReadersWriters` and
`TabletDriver`, and `CountersExact` of `ReadersWriters` (a semaphore counts who
is inside), are proved and no longer part of a run.

The proofs found two steps that were not what they were meant to be: in `Eof` of
`SharedStreams` and `InterruptArrives` of `ForkExec` a CASE had arms whose guards
overlap. TLC takes the first arm that applies, TLA+ leaves the choice open; both are an IF
now. `NothingLost` and what a read returns used `SelectSeq`, whose recursion no proof
reaches; they now say the same of the places on the screen (`InOrder`) and with
`SubSeq`.

Only model-checked: liveness (`CallReturns`, `ChildrenExit`, `SigintEnds`,
`ReportsKeepComing`, `WinEndsUnless`, `WaitEnds`, `ParentHearsAll`): the prover
does not reason about fairness. Every invariant, every action property and every
refinement that a passing run checks is stated by a theorem.

## 5. Not modelled

The alignment and content of user data, the printing of the tree
(`print_tree`, `buddy_debug_print_tree_2` only read), the parsing of command
lines, sleeps, the values of errno, failures of `semget`, `shmget`, `shmat` at
start (the program exits before any child exists), and a SIGINT that arrives
before the handler is installed (the program dies). Of the tablet driver: power
management (an interface that is suspended shows as a completion with an error,
then unbinding), the second interface, which has a tablet of its own and shares
only the queue and the statics of `irq_touch`, and failures of `probe`, which
leave nothing behind. Starvation of writers is
possible in `lin_readers_writers.c` and no property excludes it: a `semop` that
waits leaves no trace in `WAIT_WRITERS`, so the test of readers for waiting
writers has no effect.

Of the smaller programs: what two fingers do to the wheels (arithmetic on two
reports), the places and the pressure of the pen, the maxima of the axes and
`debug.c`; the datagram server of `8_sockets/src/unix`, which keeps nothing between
two messages, and the texts the servers send; what the two programs `3_exec.c` starts
compute from what they read; the tables, the switches of mode and the counting of
memory of the assembly program, which are hardware set-up, its letters and
colours. `7_vfs`, `2_file_tree`, `3_kernel_modules` and `4_proc` have no state of
their own: they register objects in the kernel, or read and print.

## 6. Plan

Every component that is listed as modelled has its runs and its theorems, and each
safety property of the passing runs is proved for all values of the constants.
What may be added is outside of both: the datagram server, should it ever keep
state, and the second interface of the
tablet, whose reports share the statics of `irq_touch` with those of the first.
Liveness stays with TLC.
