# A verification of av6

av6 is a small SMP kernel for AArch64: processes with fork/exec/exit/wait, a
FIFO scheduler, spinlocks, a slab allocator, ASIDs, a kernel log drained to a
serial console, and interrupt threads on a GICv3. These TLA+ modules sit beside
its source. They model the parts where CPUs, interrupts and failures interleave,
and the boot code that decides what memory there is.

TLC checks every module on a small instance. TLAPS proves twenty theorems for
any number of CPUs, processes, threads, readers, ASIDs and pages.

## The parts and how they interact

Firmware hands the boot CPU a device tree. `dtb_init()` reads CPUs, RAM and
devices from it, `kvminit()` maps the RAM, `kinit()` puts its pages on the free
list (`Boot`). The slab allocator takes pages from that list and calls back into
reclaim when it is empty (`Slab`). `smp_init()` starts the other CPUs (`Panic`),
each of which ends in `scheduler()` (`Proc`). Processes are made from pids,
stacks and pages (`ProcAlloc`), have page tables over the same pool (`Uvm`) and
run under an ASID (`Asid`). Interrupts preempt them and wake the thread that
serves the UART (`Intr`), which fills the ring that `console_read()` empties
(`ConsoleInput`). Everybody prints through the log (`Kmsg`, `Console`), and a
panic stops the CPUs, whatever locks they hold or wait for, unless one stays for ever
where it takes no interrupt (`Panic`).

| Module | Source | What it is |
| --- | --- | --- |
| `Runq` | `kern/proc.c` | the run queue as a sequence, shared by `Proc` and `Intr` |
| `Proc` | `kern/proc.c`, `arch/trap.c` | process table, scheduler, sleep and wakeup, fork, exit, wait, kill |
| `ProcAlloc` | `kern/proc.c`, `arch/pmap.c` | pids, kernel stacks and objects of `allocproc()` and `freeproc()` |
| `AddrSpace` | (abstract) | what a process may expect of its memory |
| `Uvm` | `arch/pmap.c`, `kern/exec.c`, `kern/proc.c` | page-table trees, sbrk, fork, exec, exit; implements `AddrSpace` |
| `Asid` | `arch/asid.c` | the rolling-generation ASID allocator and the TLBs |
| `Slab` | `vm/slab.c`, `vm/kalloc.c` | slabs, magazines, depot, reclaim, free list |
| `Dmap`, `Physmem`, `Dtb` | `arch/pmap.c`, `vm/physmem.c`, `libkern/fdt.c`, `arch/dtb.c` | pure algorithms of the boot, as operators |
| `Boot` | `kern/main.c` and the above | composes them: device tree to free list |
| `Log` | (abstract) `include/sys/kmsg.h` | what the kernel log promises |
| `Kmsg` | `kern/kmsg.c` | the two rings; implements `Log` |
| `Console` | `dev/console.c`, `kern/printk.c` | composes `Kmsg` with the draining of the log |
| `ConsoleInput` | `dev/console.c` | the line discipline |
| `Intr` | `arch/trap.c`, `kern/intr.c`, `arch/timer.c` | interrupts, their threads, preemption |
| `Panic` | `kern/panic.c`, `kern/spinlock.c`, `arch/smp.c` | panic, spinlocks, CPU start |

`MC*.tla` and `*.cfg` are the instances for TLC. `ProcInv`, `ProcProofs`,
`ProcAllocProofs`, `AsidInv`, `AsidProofs`, `ConsoleInputProofs`, `IntrProofs` and
`PanicProofs` hold the proofs. `ProcInv` and `AsidInv` have an inductive invariant
and the lemmas for part of the actions, the module that extends each has the rest
and the theorems.
`PROJECT.json` maps every definition to the lines it models.

## How state and actions correspond to the code

Variables have the names of the C variables and fields where TLA+ allows. `pc`
names the point a process, CPU or thread has reached; the actions are the
stretches between two such points. Definitions marked "Mutant" are variants with
a plausible mistake; no specification uses them. `PROJECT.json` pairs them with
the property they break.

**Proc.** A step runs from one lock acquisition to the next: taking `wait_lock`,
`ptable_lock` or a `p->lock` is a step of its own, a release belongs to the step
before it. `runq_lock` and `pid_lock` protect one operation each, which is one
step. System calls run with interrupts masked, so a process is preempted in user
mode only. `cand[c]` is the local variable `p` of `scheduler()`: the window
between taking a process from the queue and locking it is there.

**ProcAlloc.** Each resource has a lock of its own, so taking or returning one is
a step. Every step may be refused. `tlb` holds the translations of the stack
window some CPU may have cached. The walker fills speculatively, so one enters as
soon as its entry is valid, in a `kstack_alloc()` that is unwound as well, and
leaves by `tlbi_vaae1is_range()` only. `unwound` is a history variable: the slots at
which an unwinding may have left some.

**Uvm** refines **AddrSpace**. A page table is private to its process, so a system
call is one step. What other processes do to the pool meanwhile is `left`: the
number of allocations that succeed before `kpage_alloc()` starts to fail. Every
value of it is tried, so memory runs out at each allocation in turn. The
refinement mapping reads `memory[p]` from the tree below `pagetable[p]`.

**Asid.** A context is the pair of generation and number. The two relaxed loads of
the fast path, its cmpxchg, and each xchg of `flush_context()` are separate steps.
The TLB is as full as the architecture allows ("maximal TLB"): whatever the walker
may have loaded from the table in TTBR0 is taken to be loaded. What the two loops of
`bitmap_find_zero()` return is stated as a relation (`FindZero`): a free number with
none before it in the order of the search. `Lowest` of `ProcAlloc` does the same
for `bit_ffc()`.

**Slab.** Each acquisition of a cache lock is a step; `kmem.lock` is a leaf. The
stack of calls `kmem_cache_free` → `slab_grow` → `kpage_alloc` → `kmem_reclaim` →
`kmem_cache_free` is in `op`. `NoOp` is its empty value.

**Boot.** Nothing else runs yet, so a node of the tree, `kvminit()` and `kinit()`
are a step each. The structure block is a sequence of tokens. `Physmem` and
`Dmap` are recursive functions over regions and addresses. The properties
compare their results with sets of pages computed from the machine itself.

**Kmsg, Console.** `kmsg_lock` is held inside each call of `kmsg.c`, so each call
is one step and the log moves between any two steps of a drain. `Kmsg` keeps both
rings with their wrapping indices; the refinement mapping to `Log` reads the
records out of them.

**ConsoleInput.** `cons_lock` is given up in `sleep()` only. That `sleep()` and
`wakeup()` leave no gap is what `Proc` shows. The indices are naturals: the code's
64-bit ones do not wrap in practice, and 2^64 is a multiple of the ring's size.

**Intr.** A trap runs in a context: the interrupted thread or a CPU's scheduler.
`stage[x]` is its progress in `trap_irq()`. `ithread_loop()` tests `pending` in one
step and sleeps in another, with `ithread_lock` held and interrupts off in between.
Sections under the process locks are single steps.

**Panic.** One lock stands for those the report needs. `acquire_spinlock()` is
split at the swap, the check of `panicking` and the store of the owner, and
`release_spinlock()` at the two stores. `smp_init()` starts CPU `i` and waits for
it with interrupts masked, up to a deadline that may pass.

## The runs

| Run | Instance | States | Shows |
| --- | --- | --- | --- |
| `proc_safety` | 3 CPUs, 3 procs | 80,005 | lock order, run queue, exit/wait hand-off, freed objects unreachable |
| `proc_live` | 2 CPUs, 3 procs | 142,866 | `wait()` returns, a RUNNABLE process runs |
| `asid_rollover` | 2 CPUs, 2 procs, 4 ASIDs, 3 generations | 1,139,620 | no stale translation, distinct ASIDs, rollover finds a number |
| `boot_memory` | about 5,000 machines, 2-byte pages | 86,702 | the tree is read right, segments, map and descriptors are exact |
| `console_log` | 2 threads, 2 descriptors, 3 bytes of text, 4 records | 314,493 | `Kmsg` implements `Log`; each record is shown or counted; adding prolongs no drain |
| `console_input` | 2 readers, ring of 2, 4 characters | 1,065,138 | screen equals input, no lost wakeup, every ^D ends one read |
| `intr_cycle` | 2 CPUs, interrupt thread and one user | 24,416 | one party deactivates, priorities balance, input is served |
| `panic_ends` | 3 CPUs | 150,846 | one reporter, the lock excludes, the message gets out, all park |
| `slab_two_caches` | 2 CPUs, 3 caches, 2 pages | 533,961 | objects conserved, slabs on the right list, no circular wait |
| `uvm_spaces` | 2 procs, 13 pages, 3 levels | 2,694 | pages owned once; `Uvm` implements `AddrSpace` |
| `procalloc_owned` | 2 threads, 2 processes, 5 pages | 62,507 | resources owned once, pages conserved, stacks apart but for what an unwinding leaves |
| `slab_own_lock` | 1 CPU, 3 caches, 3 pages | violated | see Finding |

The bounds are the smallest at which the cases of interest happen:

- `proc_safety`: init, a parent and its child; a third CPU for one that dequeues a
  process which two others are putting to sleep and waking.
- `proc_live`: the child exits on one CPU while the parent scans, sleeps or wakes up
  on the other. Processes other than init are interchangeable, so one of them stands
  for all. That no wake-up of init is lost is `NoLostExit`, of every process.
- `asid_rollover`: two CPUs may hold back two numbers, so that four with the
  reserved one leave exactly one. `MaxGen` ends dispatching after a rollover of a
  rollover.
- `boot_memory`: blocks of two pages in blocks of two make every alignment occur.
  Two entries per region list overflow with three banks.
- `console_log`: two descriptors and three bytes let either ring fill first and
  make texts wrap. Four records overwrite two, so that a replay loses records more
  than once. `MaxSeq` ends the adding, hence `LoopsWindDown` is no liveness property:
  it bounds what a loop has left by a measure that others cannot increase and that each
  turn decreases, however many records follow.
- `console_input`: a ring of two wraps and fills; four characters hold a line, an
  edit and a ^D.
- `intr_cycle`: with a quota of one a character that arrives during the drain is
  left behind. The user thread occupies a CPU.
- `panic_ends`: one CPU reports, one parks and one is still starting.
- `slab_two_caches`: with two pages either cache empties the free list while the
  other holds a page that reclaim can recover.
- `uvm_spaces`: 13 pages hold two spaces and part of a third. Sizes off page
  boundaries (`MaxSize` 9, pages of 2) are included.
- `procalloc_owned`: two slots share one L3 table; five pages are that table and two
  stacks, or one stack and the start of another that is unwound. A slot is reused any
  number of times.

Symmetry is used in safety runs only. `MCUvm` tells states apart by a `VIEW`: the
shape of the trees, what their leaves hold, the number of free pages and the value
of the invariant. Page numbers play no part in either property.

Deadlock is checked except where the system really stops: `Boot` ends with the
machine running or in a panic, `ConsoleInput` when the bounded input is used up,
`Uvm` when every process has exited. `proc_live` leaves it to `proc_safety`, which
has one CPU more.

### Fairness

- `Proc`: strong fairness of each CPU's steps and of its preemption. A CPU runs on;
  the timer interrupts user mode. Waiting for a spinlock is retried for ever;
  `spinlock.c` itself promises no order, so strong fairness assumes that no CPU
  loses every race for a lock.
- `Intr`: CPUs run on and timers keep ticking (weak). Signalled interrupts are
  taken, and an interrupted context gets on at last (strong): the interval is much
  longer than a handler.
- `Panic`: CPUs run on, deadlines pass (weak). A CPU comes to a stretch with
  interrupts on in which it takes the SGI, or to the head of `scheduler()`
  (strong). Panics and new work are choices. A CPU that stays for ever where it takes
  no interrupt is excluded by this; `panic_stop_others()` gives up on it after its
  deadline, as the scenario `panic_wedge` shows.

## What is proved

`tlapm` checks all of it; the assumptions are the named ASSUMEs on the constants,
which say that the sets of CPUs, processes and NULL are apart, that counts are
positive, and for `Asid` that there are more ASIDs than CPUs: when every CPU has one,
one other than the reserved number is left (av6 has 256 or 65536).

**Proc** (`ProcInv`, `ProcProofs`): `TypeCorrect`,
`OneCpuPerProcess` (`RunsOnce`), `RunQueueExact` (`RunqExact`), `SchedAssertions`
(`SchedHoldsOnlyOwnLock`), `LockOrderKept` (`LockOrder`). None of these is
inductive: that a woken process is on no CPU follows only from who holds its
`p->lock`, which depends on the point the holder has reached. `CoreInv` therefore
ties every lock to the points at which it is held (`PlockInv`, `WaitLockInv`,
`PtableLockInv`, `IdleInv`), the state of a process to the point its code has
reached and to whether a CPU runs it (`OnCpuInv`, `OffCpuInv`), and the object an
operation works on to what may happen to it (`ForkInv`, `ReapInv`, `KillInv`).
There is a lemma per action; `Move`, `Unlock`, `EnterSched` and `WakeSleeper` are
the shapes they share.

`FreedIsUnreachable` (`FreeIsUnreachable`) and `NoExitIsLost` (`NoLostExit`) are
about the tree of processes and need a second invariant on top, `FamilyInv`.
`NoLostExit` speaks only of states in which `wait_lock` is free; `FamilyInv` says what
`exit()` and `wait()` have done while they have it. Whoever lives is on the list of
all processes and no unused object is, and a process past handing on its children has
none (`TableInv`). A `wait()` that has found children but not yet fallen
asleep has every ZOMBIE among them still to visit (`Scanning`). An `exit()` wakes init
before the parent, and by the time it becomes a ZOMBIE its parent is not asleep
(`Waking`). Somebody who sleeps has a child; a ZOMBIE among them is possible for init
only, while an `exit()` that gave it one is still on its way to wake it (`SleepInv`).

**ProcAlloc** (`ProcAllocProofs`): `PidsAndSlotsOwnedOnce` (`OwnedOnce`),
`PagesAreConserved` (`PagesConserved`) and `StacksStaleOnlyFromUnwind`
(`StaleOnlyFromUnwind`).
Ownership needs that nobody holds pid 0 (`PidsOwned`), since `pid_free()` would
give it away. The window needs the converse of the property (`WindowInv`): a slot
with no stack behind it is unmapped, so that a new stack overwrites no page, and
uncached but for what an unwinding left below the top page (`LeftByUnwind`), so that a
new stack meets no other old translation.

**Asid** (`AsidInv`, `AsidProofs`): `NeverStale` (`NoStaleTranslation`), `DistinctAsids`
(`RunningAsidsDistinct`) and `RolloverSucceeds` (`RolloverFindsOne`). That a TLB is
right for the process that runs depends on what every number has been used for
since the CPU's last flush. The invariant says that a CPU which owes no flush has
entries of current contexts only, or of dead tables whose number nobody has in this
generation (`CleanInv`). It says that a number reserved for an older generation is
not given out in this one (`NumberInv`). A CPU runs under its active slot, or its
reserved slot once a rollover has drained the other (`RunInv`). A slot that is not
drained makes the generation the fast path read current (`GenInv`): this is why its
cmpxchg suffices. That a number is left after a rollover follows from the assumption: at
most one per CPU is carried over.

**ConsoleInput** (`ConsoleInputProofs`): `EchoMatchesInput` (`ScreenIsInput`),
`NoSleepOnInput` (`NobodySleepsOnInput`) and `EofsAreSeen` (`EveryEofIsSeen`). The
indices count the characters ever stored, so the terminal can be compared with the
ring one index at a time (`EchoInv`): those below `r` are what was taken, those from
`r` to `e` are in their slots. A store disturbs none of them, because indices less
than the ring's size apart have different slots (`SlotDistinct`) and `r`, `w` and `e`
stay in order and in reach (`RingInv`). A reader between its test and `sleep()` still
has `cons_lock` (`HolderInv`), so that nothing is committed before it sleeps
(`WaitInv`). ^D is taken exactly by a call that has copied nothing (`CountInv`).

**Intr** (`IntrProofs`): `OneDeactivation` (`OneOwesDeactivation`) and
`PrioritiesBalance` (`PriorityIsBalanced`). The invariant adds that a thread is on
one CPU, queued once or asleep (`SchedInv`), that one on no CPU is in no trap
(`OffInv`), and that a trap keeps what the UART's filter said (`TrapInv`): without
the first two, a migrating thread could take its trap to another CPU.

**Panic** (`PanicProofs`): `LockExcludesUntilPanic` (`LockExcludes`) and
`OneCpuReports` (`OneReporter`). The invariant adds that whoever reports is
`panic_cpu`, that the lock word is set while a CPU is inside or is the noted
owner, and that `smp_init()` has not started the CPUs from `i` on.

Each inductive invariant was model-checked before it was proved, on the instances
above, `FamilyInv` also on two CPUs and four processes and the one of `ConsoleInput`
on a ring of three and five characters; the runs list only the properties that follow
from it.

Only model-checked: liveness, both refinements, and the properties of `Slab`, `Uvm`,
`Boot` and `Console`. Liveness is out of the prover's reach. `Uvm`, `Dmap`, `Dtb`,
`Physmem` and `Kmsg`, on which `Console` is built, compute with recursive definitions
or folds, about which induction would be needed. So does the count of objects over
the lists of `Slab`; its `NoCircularWait` needs no induction and has no proof yet.

## Finding

`slab_own_lock`: `kmem_cache_free()` of a normal cache takes a magazine from
`magazine_cache` under its own lock. If `magazine_cache` must grow and no page is
free, `kpage_alloc()` calls `kmem_reclaim()`, which skips caches whose lock this
CPU holds, but drains the depot of another cache. `drain_magazine()` frees the
empty magazine to `magazine_cache`, whose lock this CPU holds: the KASSERT of
`spinlock.c:70` fails. One CPU, two caches and three pages are enough.

## Observations

Met while modelling; the models follow the code.

- `cpus[0].online` is never set: only `mpmain()` sets it. `panic_stop_others()`
  does not wait for the boot CPU or count it, although `panic.c:52` says "Park the
  other CPUs before the log is touched". The same holds for a CPU that is still in
  `mpmain()`. `PanicEnds` holds anyway: they park later.
- `gic_wait_rwp()` (`gic.c:181`) computes its deadline from the frequency instead
  of the counter.
- A process that is flagged by `kill()` returns to user mode through `trap_irq()`
  and `forkret()` without a check; `usertrap_sync()` has one (`trap.c:236`).
- `killed()` is read before `sleep()` takes `p->lock`. A `kill()` between the two
  flags a process that then sleeps until the event it waits for.
- `exit()` frees the page table that TTBR0 still holds (`proc.c:475`): it stays
  installed until the process leaves the CPU, although `pmap.c:933` says that "a freed
  one must never stay installed".
- `kstack_alloc()` undoes a half-made stack without a TLB invalidation
  (`pmap.c:412`), although its entries were valid in a window that every CPU has
  mapped and the comment of `kstack_free()` (`pmap.c:434`) wants stale entries
  "dropped across the inner-shareable domain before the slot is reused". The next
  process in the slot may meet a translation to a page that was given back, on each
  page of its stack but the top one. `StaleOnlyFromUnwind` says that nothing else
  leaves one.

## Not modelled

- `copy.c`, `copy_user.s`, `fmt.c`, `string.c`: functions on bytes without kernel
  state. `trap_sync()` decoding, `vectors.s`, `entry.s`, `swtch.s`, `mte.c`, the
  register programming of `gic.c`, `timer.c` and `uart.c`: architecture state.
- `syscall.c`: argument fetching and the bounce buffers of read and write. The
  calls themselves are actions of `Proc`, `Uvm`, `Console` and `ConsoleInput`.
- `kmem_cache_create()`, `kmem_cache_destroy()` and `kmalloc.c`: caches exist from
  the start in `Slab`.
- ELF header checks and the layout of the arguments in `exec.c`.
- The nesting count of `push_off()`, `try_acquire_spinlock()`.
- Weak memory: steps are sequentially consistent, except that the two loads of the
  ASID fast path come in either order.
- Tests and user programs.
