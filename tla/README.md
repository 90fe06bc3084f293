# TLA+ verification of the EVL (Xenomai 4) port to the SpacemiT K1

This directory holds TLA+ specifications of the code in this repository, TLC
configurations which model-check them on small instances, and proofs that TLAPS
checks for every value of the constants. File names below are relative to the
repository; `evl/` stands for `src/kernel-overlay/include/evl/`.

## The system

The repository is an overlay: headers of the EVL core with most of its inline
logic, the RISC-V half of the interrupt pipeline, one interrupt controller
driver, and the shell scripts that fetch, configure, build and flash everything.
The `.c` files of the EVL core are *not* in the tree. What they do is modelled
only where the headers rely on it, from the comments and the calls in the
headers; `PROJECT.json` marks every such definition `external`.

| Component | State | Operations | Hard part | What makes it correct |
|---|---|---|---|---|
| Rescheduling core (`evl/sched.h`, `evl/irq.h`) | shared and local runqueue flags, mask of CPUs owed an IPI, preemption count | set a request, `evl_schedule()`, interrupt entry and exit, preemption on and off | lockless tests, remote wakeups, in-band migration, nested interrupts | no request is lost; no switch under a handler or with preemption off |
| EVL spinlock (`evl/lock.h`) | raw lock, preemption count, interrupt mask | lock, trylock, unlock, irq forms | two steps per macro with interrupts in between | exclusion; the holder is never replaced; the count follows the nesting |
| Run queue and SCHED_FIFO (`evl/sched/queue.h`, `evl/sched/fifo.h`, `evl/list.h`) | one sorted list, or one list per level with a bitmap and a count; base and current priorities | enqueue, requeue, dequeue, pick, change or boost a priority | the place of a thread depends on a priority that changes | highest first, each level in turn; bitmap and lists agree |
| Flags and wait queues (`evl/flag.h`, `evl/wait.h`) | `raised`, the wait list, wake reasons | wait, raise, pulse, flush, clear | condition tested and slept on in a loop that drops the lock | no raise lost or taken twice; waits end |
| Crossing (`evl/crossing.h`, `evl/file.h`) | reference count, completion, interrupt work | down, up, pass, reinit | last reference against the passer, over rounds | nothing touches the crossing once passed; the passer returns |
| Other scheduling classes (`evl/sched.h`, `evl/sched/idle.h`, `weak.h`, `param.h`) | two classes and three priorities of each thread, class counts | set a policy, boost, ceiling, drop a boost, forget a thread | overlapping boosts and policy changes | classes, priorities, queue and counts agree |
| Timers, clocks, tick (`evl/timer.h`, `evl/clock.h`, `evl/tick.h`) | timer states, a queue per CPU, the date each device is set to | start, stop, move, tick, remote shot | status and base read without a lock; devices of other CPUs | each timer is on one queue or about to fire; no shot is late; periodic ticks keep their grid |
| Threads (`evl/thread.h`, `evl/sched.h`, `evl/wait.h`) | thread and runqueue locks, `EVL_T_WCHAN` | pin, lock two, put and requeue | lock order over three kinds of locks; work put off until a lock is dropped | no cycle of CPUs that spin; a waiter with an old priority is requeued |
| Elements and work (`evl/factory.h`, `evl/work.h`) | reference count, device, index, stages of the work | get by handle or device, put, call in-band, flush, cancel | lookups against the last put; requests on their way | an element outlives its users; a flush waits for all it found |
| Networking and polling (`evl/net/socket.h`, `evl/poll_head.h`) | receive memory, list of watchers | charge, uncharge, watch, signal | check, then add; list tested without its lock | bounded excess; no watcher sleeps on a packet |
| RISC-V pipeline (`arch/riscv/include/asm/`, `asm-generic/irq_pipeline.h`) | stall bit, hard mask, log | save, restore, enable, disable, lock a stage, play the log | two levels of interrupt state in one word, interrupts anywhere | in-band code sees the promise of plain interrupt masking; what is logged is handled |
| RISC-V INTC driver (`drivers/irqchip/irq-riscv-intc.c`) | enable registers, domain, firmware nodes | probe (DT, ACPI, Andes), map, mask, unmask, dispatch | failures in the middle of probing; custom causes | no freed node is handed out; a hart traps with what it unmasked |
| Kernel build (`00b-deploy-overlay.sh`, `02-configure.sh`, `03-build-kernel.sh`) | tree, `.config`, cached version, `Image`, modules | deploy, configure, build | interrupted and repeated runs, changed trees, builds by hand | a build that ends well has the right `Image` and modules |
| SDK build (`scripts/build/04-build-sdk.sh`) | makefiles, their backups, renamed directories, stamps, lists in memory | hide, patch, configure, make, restore on EXIT | runs that fail, are killed and run again | what a run changes it undoes; the pristine files are never lost; make sees the right ones |
| SD image (`flash/make-full-sdcard-img.sh`) | the output file, loop devices, mounts, the trap | copy, attach, grow, install, patch the boot files, clean up | failures at any command, leftovers of killed runs | a finished image boots; what is left behind has a known cause |

Interactions: `evl_set_resched()` is the way every wakeup (flags, timers,
mutexes, any CPU) reaches the scheduler; `evl_exit_irq()` and
`evl_enable_preempt()` are where requests that could not be honoured at once
are; spinlocks are built on the preemption count; flags are built on wait
queues, work and polling on flags; files and network devices on crossings. The
interrupts that timers and IPIs rely on go through the RISC-V pipeline, which
gives them to out-of-band handlers at once and to in-band ones when the stage is
not stalled; the pipeline masks and unmasks them in the registers of the INTC
driver. The image script takes what the kernel build left in the build
directory.

The complete list of components, with what is left out and why, and the list of
hazards with the properties that cover each, are in `PROJECT.json`.

## Modules

| Module | What it is |
|---|---|
| `EvlResched` | the rescheduling machinery on several CPUs |
| `EvlReschedProof` | its invariants, and those of `EvlSpinlock`, proved for any CPUs and locks |
| `EvlSpinlock` | extends `EvlResched` with the locks of `evl/lock.h` |
| `CrossingBarrier` | abstract: what a crossing promises |
| `EvlCrossing`, `EvlCrossingProof` | the crossing, atomic instruction by instruction; its invariants and its refinement of the barrier |
| `LinearSchedq`, `MlqSchedq` | the two builds of `struct evl_sched_queue` as operators on a queue |
| `FifoPolicy` | abstract: SCHED_FIFO as one line of threads per priority |
| `SchedFifo`, `SchedFifoProof` | the FIFO class on either queue, driven by the core; its invariants and its refinement of the policy |
| `FlagPromise` | abstract: what a flag promises |
| `EvlFlag` | flags on `evl_wait_event_timeout()` |
| `EvlTimer` | timers on two CPUs, their ticks and devices |
| `SchedClasses` | policies, boosts and ceilings of threads |
| `EvlThread` | the locks of threads, runqueues and wait channels |
| `EvlElement` | references to an element, and its in-band work |
| `EvlSocket` | receive memory of a socket, and those who poll it |
| `CoreThreadsProof`, `CoreObjectsProof` | the invariants of `EvlThread` and `SchedClasses`, of `EvlSocket`, `EvlElement`, `EvlFlag` and `EvlTimer`; the refinement of `FlagPromise` |
| `SequenceLemmas` | least and greatest numbers, insertion in and removal from a sequence: lemmas of the proofs about queues |
| `RiscvIntc` | the interrupt controller driver on several harts |
| `StallPromise` | abstract: what disabling interrupts promises |
| `RiscvPipeline` | extends `RiscvIntc` with interrupts on the boot hart, in both builds |
| `RiscvProof` | the invariants of the driver and of the pipeline, and its refinement of the promise |
| `BuildDir` | abstract: what the build directory offers, `BuildPromise` |
| `KernelBuild` | the three scripts that deploy, configure and build |
| `SdImage` | the image script, run after run |
| `SdkBuild` | the SDK build script, run after run |
| `ScriptsProof` | the invariants of `KernelBuild`, `SdImage` and `SdkBuild` |
| `MC*` | instances for TLC |

Definitions whose comment begins with "Mutant of" are variants with a plausible
bug; no specification uses them. Each property of each run is violated when one
of them takes the place of the definition it is a mutant of (`PROJECT.json`,
`mutants`).

### EvlResched, EvlSpinlock

A CPU runs one thread, out-of-band or the in-band kernel, and at most one
interrupt on top. Sections under `rq->lock` with interrupts off are one action.
`evl_schedule()` is three: it fetches `this_rq` (`FetchRq`), reads the flags of
*that* runqueue (`TestRq`), then calls `__evl_schedule()` (`EnterSchedule`).
Interrupts, wakeups from other CPUs and in-band migration (`InbandPreempt`,
which may bring the task to another CPU with the old pointer) come in between.
`__evl_schedule()` is external: it sends the IPIs the CPU owes, then honours
RQ_SCHED unless preemption is disabled, in which case the request stays.

`outranked[c]` is a fact about the run queue, not a field: a thread is runnable
on `c` which should replace the current one. `SwitchThread` is the step that
clears it.

In-band preemption happens on return from an interrupt and only with a zero EVL
preemption count: `evl/lock.h` calls taking an EVL lock in-band without stalling
the stage a bug. This matters: the interrupt which brings the in-band switch
about goes through `evl_exit_irq()` first, and so honours what the preempted
task was about to look at.

In `EvlSpinlock` each macro is two steps, preemption and raw lock, in the order
of the code. Locks are numbered and taken in increasing order. Its run leaves
out the operations of `EvlResched` the locks do not use (explicit interrupt
masking, `evl_schedule()` out of the blue).

### EvlCrossing

`evl_up_crossing()` is two steps, the decrement and `irq_work_queue()`; so is
`evl_pass_crossing()`, the decrement and the wait. The interrupt work is queued
at most once. A file (`evl/file.h`) uses a crossing as it is:
`evl_get_fileref()` is `Down` and `evl_put_file()` is `Up`.

### SchedFifo

`scalable` is `CONFIG_EVL_SCHED_SCALABLE`, chosen by `Init` and constant in each
behaviour, so that one run checks both builds. The queue operations are
operators on the value of the queue. The linear list compares the *current*
priority of its members, as the code does; the multi-level queue indexes with
it. The sections of the core which call them (wake up, hold, yield, pick, change
a base priority, boost) are external and follow the comments of `evl/sched.h`; a
thread leaves the queue under its old priority before the priority changes.
`FifoPolicy` is refined through `line`: the members of each level, in order.

### EvlFlag

What runs under `wchan.lock` is one action; the waiter sleeps without it. A
`finite` timeout bounds each sleep, not the call: a waiter that finds the flag
taken sleeps again for its whole (relative) timeout. `BoundedWaitEnds` states
what is left: the wait ends unless the flag is raised again. A wait cut short by
a broadcast returns 0 like one that took the flag; the model tells the two apart
("bcast"), callers cannot.

### EvlTimer

A base is a queue of timers, sorted by date; `scalable` chooses between the
sorted list and the tree with a cache of its first node (`head`). What runs
under the lock of a base is one action. What `evl_stop_timer()` and
`evl_prepare_timed_wait()` read without the lock (the status, the runqueue) is a
step of its own, `op` being what they go on to do: the timer may have been
started, fired or moved by then. The tick handler drops the lock around each
timer's own handler. `shot` is the date the clock device of a CPU is set to; a
timer that becomes the first of another CPU needs `timer_ipi`. `now` advances at
any time up to `MaxDate`. `start_date`, `interval` and `periodic_ticks` are the
fields of the code, from which `evl_update_timer_date()` computes the next date.
Clocks other than the monotonic one, the setting of their time, statistics and
`consumed_ticks` and overruns are left out.

### SchedClasses

A record of the scheduling fields per thread. Each step is one of the sections
of the core that pin the thread: who calls them is external, the class
operations they call (set a parameter, track a priority, ceil, declare, forget)
are those of the headers. The functions of the weak class are declared in
`weak.h` only; they are modelled after the comments on the callbacks in
`evl/sched.h`.

### EvlThread

A CPU runs one operation with interrupts off and takes its locks one after the
other: a wait channel, then one thread or two in the order of their addresses,
then a runqueue. `pin` and `unpin` are `evl_get_thread_rq()` and
`evl_put_thread_rq_check()`: the note `EVL_T_WCHAN` is taken while the thread is
pinned; the channel is looked up (`look`) and locked (`requeue`) after that,
when the thread may already have left it.

### EvlElement, EvlSocket

An element is found by its handle (`evl_get_element_by_fundle()`) or through its
device, where `ReadDrvdata` and the attempt on the count are two steps. Its work
is *safe* or not, chosen by `Init`; a request is in the interrupt work, on the
work queue, or running. A flush takes note of the requests on the work queue
only after the interrupt work is done.

In `EvlSocket` `evl_charge_socket_rmem()` is a test and an addition; a handler
queues its packet, then tests the list of watchers without the lock and signals
under it. A watcher registers, then tests the queue, then sleeps.

### RiscvIntc, RiscvPipeline

`machine` is what firmware describes: a device tree with either kind of
controller, or ACPI tables. Allocating the firmware node, creating the domain
and setting the handler may each fail. `unmasked` is a history variable: what
the callers last asked for. Registers are sets of bits; the bit of a cause is
computed as in the code, width included, so that two causes may collide.

`RiscvPipeline` runs three contexts on the boot hart: the in-band task, an
in-band handler, an out-of-band thread, each with its nested critical sections
of all the kinds the headers offer. `pipelined` is `CONFIG_IRQ_PIPELINE`, chosen
by `Init`. The pipeline core (`kernel/irq/pipeline.c`) is external: it logs
in-band interrupts, runs out-of-band handlers, and plays the log on the way out
when the stage is not stalled. In each build the model implements
`StallPromise`, with `masked` mapped to the stall bit, or to the status
register.

### BuildDir, KernelBuild, SdImage

`KernelBuild` has one kernel tree and one build directory, on which the three
scripts run in any order; each stops at any step, by a failure or a kill (they
set no trap). In between the user checks out another tree (`ChangeTree`) or
builds by hand, which may leave a version with a '+'. `promise` is what the user
who read the messages believes: "built" once 03 said "Build Complete", "evl" if
02 had verified the configuration of this tree. Options are two: those of EVL on
or off.

`SdImage` takes the build directory in any state that satisfies `BuildPromise`
(`Rebuild` has it as a guard), and `KernelBuild` is proved to keep it: neither
module needs the other one's steps. The output is named after the day, so that a
second run of a day writes over the first one, and an image of an earlier day
(`shelf`) may be the next base. Loop devices and mounts are the kernel's and
outlive the script: a detached device stays attached while it is mounted, and
goes with its last mount. `WriteBack` is what a mount left by an earlier run may
still do to the file that a later one writes: `FinishedImageBoots` says nothing
of such a run (`alone` is FALSE). `abandoned` collects the devices of runs that
ended where nothing undoes what they did. The scripts run one at a time.
`BasesAssumption` is what the script takes for granted of a base: a root file
system that its configuration names by UUID is on it, and `env_k1-x.txt` names
the kernel as Bianbu does, if at all.

### SdkBuild

Each step of the script that changes a file is an action, and so are the note a
loop makes in `_HIDDEN_CMAKE_DIRS` or `_PATCHED_MK_FILES` *after* each change,
each move of the trap, and `Kill`, which leaves the disk and loses the lists. A
makefile is the set of the sed expressions applied to it, a Qt directory the
number of `.buildroot_hidden` suffixes it carries (the pattern of `find` matches
hidden names, so a later run adds one). `Exit` is a command that fails or the
end of the script. The constant `Midway` tells whether it may come between a
change and its note (a failing `sed`, SIGTERM, SIGHUP). `found` is a history
variable: what the run found when it set its trap. `repo` and `make` are
external; a `repo init` that fails may leave `.repo`, after which no run gets
any further. Left out: two runs at the same time, and a user who edits the same
files during a run.

### MCObjects, MCInterrupts, MCScripts

Components that share no state are checked by one run: their instance EXTENDS
all of them. In `MCObjects` and `MCScripts` a variable `focus`, constant in each
behaviour, tells which one moves; the others stay in one of their initial
states. Interleaving them would multiply the states and show nothing, since no
action of one reads or writes a variable of another, the build directory
excepted (see above). In `MCInterrupts` the driver and the pipeline are one
specification.

## Runs

| Run | Bounds | Shows |
|---|---|---|
| `crossing` | 6 operations, any number of rounds | the barrier is implemented, fairness included; the passer returns |
| `resched` | 2 CPUs, nesting 2 | no request lost, no IPI forgotten, no switch where it must not happen |
| `resched_live` | 2 CPUs, preemption never disabled | an outranked thread is replaced |
| `spinlock` | 2 CPUs, 2 locks, nesting 2, all lock forms | exclusion; the holder keeps its CPU |
| `spinlock_live` | 1 CPU, 2 locks, nesting 2 | requests raised under locks are honoured after them |
| `spinlock_try_count` | 2 CPUs, 1 lock | *violation*: see Findings |
| `sched_fifo` | 3 threads (2 user, 1 core), 5 priority levels, both queues | the queues are coherent and implement SCHED_FIFO |
| `flag` | 3 waiters, all timeout kinds | the flag keeps its promise, fairness included |
| `objects` | timers: 2 on 2 CPUs, one of them the in-band tick, both queues, dates 0 and 1; classes: 2 threads, a user and a core one, 4 levels; locks: 2 CPUs, 2 threads, 2 runqueues, 2 channels; element: 2 users; socket: 2 handlers, 2 watchers, a limit of 2 packets | timers are accounted for, no shot is late, ticks keep their grid; classes agree; no CPUs spin in a cycle, requeuing is not forgotten; elements outlive their users, flushes wait; memory is bounded, no poll is missed |
| `interrupts` | 2 harts, every machine, failures anywhere; then on the boot hart one in-band and one out-of-band line, sections nested to 2, both builds | no freed node is handed out, causes are as asked; the interrupt state follows the sections, disabling interrupts means what it should, what is logged is handled |
| `scripts` | SDK: 2 makefiles with 1 and 2 expressions, 2 directories, 2 kills, `Midway` false; kernel: 3 versions, one with '+'; image: 6 build directories, 5 base images, 2 loop devices; any number of runs | the trap of the SDK build undoes what its run did, no pristine text is lost, make runs when it should; a finished kernel build holds together; a finished image boots, leaks have a known cause |
| `sdk_source_clean` | the SDK part of `scripts`, 1 kill | *violation*: see Findings |

Why the bounds are enough to be interesting: two CPUs give every pair of a waker
and a target, both directions at once, and a migrating in-band task between
them; the proofs cover more CPUs. A nesting of two distinguishes the last enable
from the others. Five levels and three threads give a level below and above two
equal ones, levels reserved for the core, and both ends of the array. Three
waiters allow one to take the flag, one to find it gone and one to time out at
once. Two timers, one of which changes CPUs, give every order of two dates on
two queues, and the remote shot both ways; a date of 1 with an interval of 1
allows a tick that is late. Two users let one look an element up while the other
drops it. Two handlers exceed the limit of a socket together, as none does
alone. Two nested sections give each kind inside each other kind; a cause below
the width of a register and one of Andes reach both ways of masking. Three
versions give a directory that `ls` sorts before the right one, and one with
'+'. The six build directories are one of each kind `KernelBuild` can leave;
each was checked to be reachable in it. The base images differ by what the
script tests for: partition table, `/boot` content, UUID, environment,
`extlinux.conf`, free space. Two loop devices let a run work beside one left
behind. Two kills let a run of the SDK build meet what a killed rerun of a
killed run left. No variable is cut by a state constraint: the guards bound the
nesting (`MaxNest`, `MaxSections`), the kills of the SDK build (`MaxKills`) and
the clock (`MaxDate`), everything else is finite by itself. The runs spend no
property on types: the type invariants of the modules with proofs are theorems.

Deadlock is checked in every run.

### Fairness

- `EvlResched`: interrupts end; a thread in `evl_schedule()` gets on with it
  (strong fairness: interrupts come again and again); sections with preemption
  or interrupts disabled end; an IPI is taken by a CPU that keeps unmasking
  interrupts. Nobody is obliged to wake a thread up or to interrupt.
- `EvlSpinlock`: the holder releases, the macro finishes. Under contention on
  two CPUs this does not make a spinner succeed (the lock may be free only while
  the spinner is interrupted): the queue of the raw lock is outside this tree,
  and no property says it does. `spinlock_live` is therefore about one CPU.
- `EvlCrossing`: operations in flight leave, the interrupt work runs, a
  completed waiter runs.
- `EvlFlag`: a thread woken up runs, timers fire. Nobody has to raise.
- `RiscvPipeline`: the pipeline core gets on with its work (weak fairness: it
  runs with interrupts masked, nothing stops it). Sections end, handlers return
  and the out-of-band thread leaves (strong fairness: interrupts come in between
  again and again). No device has to raise an interrupt.

The other modules have no liveness property and state no fairness.

## Findings

`spinlock_try_count`: `__evl_spin_trylock()` disables preemption and does not
enable it again when the raw lock is busy (`evl/lock.h:106-110`). A failed
attempt leaves the count of the thread raised, so that the thread is not
preemptible any more although it holds no lock. The header says that the count
"allows evl_spinlock_t locks to be nested safely" (`evl/lock.h:75-77`), and no
comment asks the caller of a failed trylock to enable preemption.

`sdk_source_clean`: the comment of the patch step says that "The original files
are backed up and restored on EXIT so the source tree is clean"
(`04-build-sdk.sh:267-268`). A run killed with a makefile patched leaves its
backup; the next run finds that backup, reports "Already patched" and does not
put the makefile on the list of its trap (281-284). That run, and every later
one, ends through its trap and leaves the makefile patched.

With `Midway` true, `UndoneAtExit` does not hold either (no run is kept for it,
the number of suffixes being unbounded then): a `sed` that fails after the
backup was made exits before the makefile is on the list (285-290), and a
directory renamed just before SIGTERM is not on its list yet (230-231), although
the comment on the trap says "so restores always run" (309).

Other disagreements met while modelling, for which no run is kept:

- The boot environment (`make-full-sdcard-img.sh`): a `bootargs=`, `extraargs=`
  or `othbootargs=` line makes step 4 run its `sed` on the whole file (490-502),
  which takes `nosplash` and the `plymouth` options out of the `commonargs` that
  step 3 wrote; the comment that follows, "Re-add nosplash and
  plymouth.enable=0" (503-504), has no code. `BootParameters` asks for these
  options only where there is no such line. A file without `knl_name` is
  reported as "already set to Image" (465).
- The modules (126-141): a directory of another version that sorts first makes
  the script refuse for ever, and running `03-build-kernel.sh`, as the message
  asks, does not remove it. The check is on the name of the directory, so that
  modules half installed pass it: `KernelFits` asks for complete modules only
  where the build promised them.
- An image that was not finished has its final name already.
- A console mentioned in a comment of the inittab counts as one that has a
  getty.
- The header of `00b-deploy-overlay.sh` lists files the overlay does not have
  (`arch/riscv/Kconfig` and `traps.c` among them); the script patches two files
  by truncating them first: one torn by a kill is never healed.
  `00-setup-env.sh:248` names a script, `01-apply-patches.sh`, that is not
  there.
- `02-configure.sh` warns about missing EVL options and ends well;
  `03-build-kernel.sh` does so about a '+' and does not look at `.config` again
  after the tree was changed. This is why `promise` tells "built" from "evl".
- `flash-sdcard.sh` (217-221) copies an `extlinux.conf` in which nothing
  replaced `ROOT_PLACEHOLDER`.

## Proofs

`tlapm` checks every step; nothing is assumed but the `ASSUME`s of the
specifications, which TLC evaluates in the runs. Most give the types of
constants (bounds are natural numbers, some sets are finite). The others:

- `ClassesAssumption`: the range of priorities of user FIFO threads is within
  the one of the core, and a class weight is above all priorities, as in
  `evl/sched/queue.h` and `evl/sched/fifo.h`.
- `WidthAssumption`: the custom causes of Andes begin at a multiple of the width
  of a register, above the standard ones, and an `unsigned int` has room for
  them. Their values are not in the tree; the run takes those of the kernel.
- `FwspecsAssumption`: interrupts are asked for one at a time, which the code
  does not check (`riscv_intc_domain_alloc()` tests the first of `nr_irqs` and
  maps all); and standard causes are below the width of an `int`, which is what
  the mask of the Andes callbacks is computed in.
- `VersionsAssumption`, `LoopsAssumption`: 0 is neither a version nor a loop
  device. `TimerAssumption`: `None` is no timer, intervals and gravity are natural
  numbers.
- `BasesAssumption`: every base image can be used (see SdImage above).
- `CmakeAssumption`: `host-cmake` is not one of the packages whose makefile is
  patched.

- `EvlReschedProof`: `TypeOK`, `ReschedNotLost`, `IpisGetSent` and the action
  property `SwitchOnlyWhenAllowed`, for any set of CPUs. None of them is
  inductive. The invariant `IInv` says of each CPU (`CpuInv`): RQ_IRQ is set
  exactly while a handler runs; a CPU that owes an IPI has RQ_SCHED in its local
  flags and its target has it in the shared ones; a CPU that owes one, or has
  RQ_SCHED for a reason of its own, is *attending*, which means bound to go
  through `__evl_schedule()`; and every shared request is covered by the CPU
  itself, an IPI on its way, or another CPU that owes one. Every action is shown
  to preserve it through a few lemmas by kind of step (raise a request, move the
  thread, change the preemption count, take or leave an interrupt, call
  `__evl_schedule()`). On top of it, `Exclusion` and the action property
  `HolderKeepsCpu` of `EvlSpinlock`, for any CPUs and locks, try forms included.
  `LockInv` says that a lock has at most one holder and that the locks a thread
  holds, spins on or is leaving are at most its preemption count, which a failed
  trylock can only raise; a thread is replaced only when its count is zero.
- `EvlCrossingProof`: `TypeOK`, `QuietOncePassed`, `OneOpeningPerRound` and the
  safety part of the refinement of `CrossingBarrier`, for any finite set of
  operations. The invariant relates `oob_refs` to the number of operations
  inside plus the reference of the passer, and says where the single opening of
  a round is: an operation, the queued work, or the completion.
- `SchedFifoProof`: `MlqCoherent`, `RunnableLinkedOnce`, `BestRuns` and the whole
  refinement of `FifoPolicy`, for any finite set of threads, any number of levels
  and both builds of the queue. `FifoIInv` says through `QueueOK` what a queue
  stands for: in the linear build a list without duplicates, of the ready
  threads, sorted by decreasing current priority; in the multi-level build lists
  without duplicates of the threads of each level, a bitmap of the levels in use
  and their count. That makes `MlqCoherent` and `RunnableLinkedOnce`
  consequences, and `BestRuns` follows with `RunnableServed` (a runnable thread
  is current or ready). The central lemma is about the sorted list: a priority
  splits it at two bounds, before the first lower one and after the last higher
  one, which exist because a set of naturals has a least element. Adding at the
  head or the tail of a priority then inserts at one of the bounds and keeps the
  list sorted. `LinesOf` reads the same line of threads per priority from either
  build, and each operation changes it alike (`LinesOK`), so that one argument
  serves both: a release maps to `Join`, a hold to `Leave`, a yield or a tick to a
  `Move` within a priority, a change of priority to `Move`, a pick to `Turn`.
- `CoreThreadsProof`: `NoLockCycle` and `RequeueOwed`, for any finite set of
  CPUs, and `ClassesAgree`, for any finite set of threads and any priorities.
  `ThreadIInv` says which locks each operation holds at each place (`InOrder`:
  channel, threads by address, runqueue) and that a lock has one holder; from
  that, a set of CPUs that spin has one whose next lock is the greatest in the
  order, and nobody in the set can hold it. `ClassIInv` says that a thread is
  new or *settled*: its fields satisfy `EffectiveSettings` and `InRightQueue`,
  with the states a boost or a policy may leave.
- `CoreObjectsProof`: `RmemBounded` and `PollNotMissed`, for any finite sets of
  handlers and watchers; `OutlivesUsers` and `FlushWaits`, for any finite set of
  users. The memory *committed* counts the handlers that passed the test but did
  not charge yet (`RmemCommitted`); a watcher that tests the queue or sleeps is
  registered. For an element, `FlushOrdered` places every awaited request on its
  way, `Teardown` says what is over at each stage of the disposal.
  Of flags, `TypeOK`, `NoSleepOnRaised`, `TimeoutsRespected` (a timeout is
  reported only to who asked for one) and the safety part of the refinement of
  `FlagPromise`, for any set of threads. The strengthening is that a call in
  progress has no outcome yet and that only a thread with a timeout is woken up
  by one.
  Of timers, `TimersAccountedFor`, `NoLateShot` and `TicksOnGrid`, for any timers,
  CPUs, intervals, gravity and bound on the clock, in both builds of the queue.
  `TimerIInv` says of each CPU (`Placed`) that its queue holds the timers it should
  in the order of their dates, and that its device does for all of them (`Timely`);
  of each timer (`Running`) that its status says where it is, and that a queued one
  is on its grid; and that the flag of the tick handler is set as long as the
  handler runs a timer or owes the in-band kernel a tick (`TickFlagged`). Four
  lemmas are about a queue: what its first timer is, that only the dates of its own
  timers matter, and what inserting and removing one does (`TqFirst`, `TqDates`,
  `TqEnqueue`, `TqDequeue`); two are about the device (`ProgramLocal`,
  `DeviceShot`): programmed for a timer only when it became the first one, locally or
  through an IPI, it does for the whole queue. A periodic timer has a next tick
  because its interval is not zero (`NextTickFound`), within a range that has to
  account for its gravity.
- `RiscvProof`: `HwnodeLive` and `CausesAsAsked`, for any harts, requests and
  widths, under every step of the pipeline. `IntcIInv` gives the two registers
  of each hart as functions of what was unmasked, and says that the domain does
  not change once something is mapped in it. `StateMatchesSections` and the safety
  part of the refinement of `StallPromise`, for any depth of sections and any
  tasks and handlers, in both builds. `StateMatchesSections` is about the
  innermost section only, so it is not inductive: closing a section restores what
  it saved. `PipeIInv` says of *every* open section that its saved flags are those
  of the place where it was opened, that whoever runs returns to what it came
  from and who is on top of whom, and that the CSR and the stall bit are those of
  the innermost place.
- `ScriptsProof`: `BuildPromise`, for any versions. The invariant (`KInv`) says
  that nothing is promised while 03 runs, that from `Image` to its end the
  version of the image is a plain one, and that a configuration counts as
  verified only as long as it is an EVL one and the tree has the options. And
  `LeaksExplained`, for any loop devices, base images and build directories:
  `DInv` says, by place in the script, which mounts use `LOOP`, whether it is
  attached and whether the trap knows it, every other device being abandoned.
  `FinishedImageBoots`, for any usable bases and any builds, needs `FInv` on top
  of `DInv`: what the script has written to the output at each place, read from a
  build directory that keeps `BuildPromise` and does not change during a run
  (`Progress`); that every file which may become a base is usable
  (`FilesUsable`), which the script's own images are; and that an output nobody
  else has mounted stays whole (`OwnFile`, `Whole`), since the device of a run in
  progress is not an abandoned one (`NotAbandoned`). And of the SDK build, `OriginalKept`, `UndoneAtExit`, `SuffixesFromKills` and
  `ReadyToMake`, for any packages, expressions, directories and number of kills;
  `UndoneAtExit` and `SuffixesFromKills` under the hypothesis `~Midway`, the
  others without. The invariant says what the lists and loops have done at each
  place in the script (`ListsDone`), and accounts for every directory and makefile
  by what was found and what is noted or in the hands of a loop (`DirsTracked`,
  `FilesTracked`).

Only model-checked: liveness (`PassReturns`, `ReschedHappens`,
`ReschedAfterUnlock`, `BoundedWaitEnds`, `LoggedIsHandled`, the fairness of the
refinements), which is out of the prover's reach.

## Plan

The order in which the modules were written: the rescheduling core and its
locks, the crossing, the run queue, flags, the SDK build; then the RISC-V
controller and pipeline, timers, classes, locks of threads, elements, sockets;
then the kernel build and the image, and the proofs beside each. What would come
next:

1. IPIs between harts, on top of `RiscvPipeline` and `EvlResched`.

## Not modelled

- The logic in `.c` files that are not in the tree: kthreads, mutexes,
  semaphores, monitors, heaps and caches, observables, stax, the quota and
  temporal partitioning classes, routing, ARP and UDP. Their headers have
  structures, prototypes and predicates on one word. They make most of the lines
  of the headers, which is why the map covers a small share of them.
- User interface headers (`include/uapi/`, of which `asm-generic` is copied from
  Linux), system call numbers, structure layouts, tracepoints: no behaviour.
- In the modelled headers: statistics and runtime accounts, clock accessors and
  setting a clock, the saving of timer registers, debug checks, lockdep.
- `00-setup-env.sh` installs packages, clones a tree and writes `env.sh`, once.
  `make-boot-img.sh` and the flashing scripts copy files or call `dd`, in a
  straight line, and keep nothing between two runs.
- In the image script: the content of the initramfs, passwords, display and
  login scripts of the rootfs. In the SDK script: the build tools it installs
  and the cleaning of `PATH`.
- Two scripts at the same time, or a user who edits the same files during a run.

The status and the note of each component are in `PROJECT.json`.
