# Formal model of the tmnt kernel

This directory holds TLA+ models of the tmnt teaching kernel (x86, one CPU,
three terminals), which lives under `src/student-distrib`. They are checked
with TLC and partly proved with TLAPS.

## The system

The kernel runs up to `NUM_PROCESSES` = 6 user processes on `NUM_TASKS` =
`NUM_TERMINALS` = 3 scheduling slots ("tasks"), one slot per terminal.

* **Process table** (`process.h`, `sys_call.c`).
  * `pid_availability[6]` marks used PIDs.
  * `FIRST_AVAILABLE_PID` scans the table for the lowest free PID.
  * PCB `p` sits at a fixed address `PCB_ADDRESS(p)` and holds:
    * `parent_pid`, the parent's saved stacks and `parent_pcb`;
    * the terminal;
    * the argument string;
    * an 8-entry `fd_array` (0 is stdin, 1 is stdout, 2..7 are opened
      files).
* **System calls** (`sys_call.c`).
  * `sys_execute` picks a PID. PIDs below 3 are base shells and get no
    parent; any other PID gets `global_pid` as its parent. It then:
    1. parses the command;
    2. opens the file through `sys_open`;
    3. checks the ELF magic;
    4. maps the user page;
    5. loads the program and closes the fd;
    6. fills the PCB and stdin/stdout;
    7. points the current task at the new PCB;
    8. sets `global_pid`;
    9. IRETs into the program. It never returns.
  * `sys_halt` closes fds 2..7 and frees the PID.
    * For a base shell (`parent_pid == -1`), it re-executes `shell`.
    * Otherwise it restores `global_pid`, the user page and the task's
      PCB/PID from the parent, and jumps back into the parent's
      `sys_execute`.
  * `sys_open` and `sys_close` manage `fd_array`.
  * `sys_read`, `sys_write`, `sys_getargs` and `sys_vidmap` check bounds and
    forward the call. They change no kernel state.
* **Scheduler** (`scheduling.c`).
  * `start_scheduler` marks slot 0 started and executes the first shell.
  * `schedule()`, on every PIT tick:
    1. saves the stacks;
    2. advances `current_task` round-robin;
    3. remaps video and the user page;
    4. if the slot was never started, marks it started and executes a
       `shell` from inside the interrupt;
    5. otherwise restores `global_pid` and switches stacks.
* **Terminals and keyboard** (`terminal.c`, `keyboard.c`).
  * There are three terminals, each with a video buffer, a line buffer and
    an input status.
  * The keyboard handler writes into the *active* terminal.
  * `terminal_read` spins until a newline ends input.
  * `switch_terminals` (alt+F1..F3) swaps video buffers and mappings.
  * `ctrl_c` halts the running process.
* **Virtual RTC** (`rtc.c`). The 1024 Hz interrupt raises each slot's
  `rtc_interrupt_occurred` at the frequency stored in its PCB.
* The i8259 PIC, the mouse and mode X graphics are port I/O.
* User programs (`src/syscalls`, `src/fish`) are the environment.

The parts interact as follows.
* `schedule()` calls `sys_execute` to start a slot.
* `sys_halt` calls `sys_execute` to restart a base shell.
* `sys_execute` calls `sys_open`/`sys_close`.
* `ctrl_c` calls `sys_halt`.
* The RTC handler reads the PCBs that `sys_execute` creates.

## Modules

| module | models | status |
|---|---|---|
| `Kernel` | PID table, PCBs, fd arrays, task table, `sys_execute`, `sys_halt`, `sys_open`, `sys_close`, `start_scheduler`, `schedule` | done |
| `MCKernel` | constants for TLC: 4 PIDs, 2 slots, 3 fds | done |
| `KernelProofs` | TLAPS proofs about `Kernel` | type correctness proved |
| `KernelInvProofs` | TLAPS proofs of `Kernel`'s safety invariants | `RunningContext`, `FreshPcbClean` proved |
| `Terminal` | the three terminals of `terminal.c` and the video remap of `schedule()` | done, except `ctrl_l` and the cursor |
| `MCTerminal` | constants for TLC: 3 terminals, a 4-byte buffer, with the mapping to `Consoles` | done |
| `ProcessStacks` | what process management promises: per-slot stacks of processes | done |
| `KernelRefinement` | the mapping from `Kernel` to `ProcessStacks` | done |
| `MCKernelRefinement` | constants for TLC: 3 PIDs, 2 slots, 3 fds | done |
| `KernelRefinementProofs` | TLAPS proof that `Kernel` implements `ProcessStacks` | `KernelRefines` proved |
| `KernelRtc` | `rtc_interrupt`, `pcb_all_started` and the PIT counter, composed with `Kernel` | done |
| `MCKernelRtc` | constants for TLC: 2 PIDs, 2 slots, `MAX_HZ` 2 | done |
| `KernelSlotProofs` | TLAPS proofs that processes stay with their slot's terminal | `ParentInSameSlot`, `SlotTerminal` proved |
| `KernelRtcProofs` | TLAPS proofs about `KernelRtc` | `RtcFreqReadSafe` proved |
| `TerminalProofs` | TLAPS proofs about `Terminal` | `TypeOK`, `ActiveFlagsMatch`, `DisplayIsolation` proved |
| `Consoles` | what the terminals promise for output: one image per console, one shown | done |
| `TerminalRefinement` | the mapping from `Terminal` to `Consoles` | done |
| `TerminalRefinementProofs` | TLAPS proof that `Terminal` implements `Consoles` | `TerminalRefines` proved |

### Terminal: state and actions

`Terminal` is a separate module from `Kernel`. It shares only the task
index: task `i` owns terminal `i` (`start_scheduler`), so `current` is both
`current_task` and the terminal of the running process. Kernel's process
tree is not needed by any terminal property. A process in a slot is reduced
to where it is in `terminal_read`: `rd[t]` is `"user"`, `"spin"` or
`"reset"`.

State, per terminal `t` (fields of `terminal_t`):
* `bufIndex[t]`, taken modulo `IndexMod` because it is a `uint8_t`;
* `buffer[t]`, the `input_buffer`. A typed character is a stamp, the number
  of its key press, and the filler byte `NEWLINE` is `NL`. A read can then be
  traced back to the keys it returned; the bag `delivered` counts them;
* `status[t]`: `Ended` (0) or `Busy` (any non-zero byte);
* `activeFlag[t]`, next to `active` (`active_terminal`).

Video: frames are numbered in units of `FOUR_K` above `BASE_VIDEO_MEM`, so
the screen is `0` and terminal `t`'s private frame is `t + 1`, as
`terminal_open` lays them out. `vid` is the frame the running task's video
page (both `VIDMEM` and `VIRTUAL_END`, which the code always maps together)
points at. `disp[f]` is the set of terminals whose output frame `f` holds.

Actions:
* `KeyChar`, `KeyNewline`, `KeyBksp`: the three editing cases of
  `terminal_interrupt`, on the active terminal. Backspace past the end of
  `input_buffer` writes, in struct order, `buffer_index` (it becomes the
  byte `NEWLINE`, `NLByte`), `input_status`, `active`, a padding byte and
  then the next terminal's fields (`stray`).
* `AltF(n)`: `alt_f1..3` with `switch_terminals`. The screen is saved into
  the old terminal's frame, the new frame is loaded, and the running task's
  page is remapped exactly as the code does it.
* `ReadStart`, `ReadCopy`, `ReadReset`: `terminal_read` in three steps,
  because the spin and the gap between `memcpy` and `reset_buffer` run with
  interrupts enabled.
* `Write`: `terminal_write` adds the running task to `disp[vid]`.
* `CtrlC`: `ctrl_c` ends the running task's input, resets the active
  terminal's buffer and halts the running process.
* `Tick`: the video part of `schedule()`.

Left out: `ctrl_l` (redraws from a static index that is always 0), the
cursor and the screen coordinates. Key echo (`putc_active`, whose code is
not in `src`) draws on the screen, which holds the active terminal's image;
no property depends on it.

### Kernel: state

* `pidUsed[0..NumProcesses]` is `pid_availability`. It has one extra cell:
  index `NumProcesses` is the word just past the array, which the scan in
  `FIRST_AVAILABLE_PID` reads and writes. Its initial value is whatever the
  build placed there, so `Init` chooses it nondeterministically.
* `pcb[p]` has these fields:
  * `parent`, where `-1` is `NoPid`;
  * `task`, the slot it was created in;
  * `fds`, where each fd is `[kind, inode]`. `kind` abstracts `flags` and
    `file_ops` (closed, stdin, stdout, file, dir, rtc). `inode` is the file
    the `inode` field names.
* `tasks[t]` is `[pid, started]`.
* `current` is `current_task`.
* `globalPid` is `global_pid`.
* `userPage` is the PID whose 4 MB page is mapped at `VIRTUAL_BEGIN`.
* `crashed` marks the two paths where the code falls through into undefined
  state. In both, `sys_execute` fails and returns into a caller that assumes
  it never returns:
  * a failed lazy start in `schedule()`;
  * a failed base-shell restart in `sys_halt`.

  The model stops there. The second path is unreachable: `sys_halt` frees
  the halting PID and closes its descriptors before it reruns the shell
  (`sys_call.c:42-59`), so that execute always finds a PID and an fd. The
  first is reachable only with the startup race: a bad-magic execute by
  the boot shell before the first tick leaks its fd, and with the table
  full the lazy start's open fails. TLC finds it with 3 fds.

### Kernel: actions

Each action is one whole handler.

* `Execute(cmd)`.
  * Commands: a program (`prog`), a plain file (`text`), a directory (`dir`),
    the RTC (`rtc`), a missing name, or the empty command.
  * It is a disjunct per outcome of `sys_execute`:
    * no PID;
    * empty or unknown command, or no free fd;
    * bad ELF magic: the PID is freed but the fd stays open;
    * success.
* `Halt`: `sys_halt`, including the base-shell restart, which reuses
  `ExecuteFrom`.
* `Open(name)` and `Close(fd)`: `sys_open` and `sys_close` on the running
  process's PCB.
* `Schedule`: `schedule()`. For an unstarted slot it includes the `shell`
  execute made in the interrupt, on behalf of the outgoing `global_pid`.

File contents are abstracted as follows.
* `prog` has ELF magic and `text` does not.
* A directory fd has its position reset, so its header read gives the
  directory's first dentry bytes, which are not ELF.
* An RTC fd's `read_file` reads through whatever inode the slot held. For
  a dir or rtc fd, `HeaderIsElf` therefore reads through the *stale* inode:
  * deterministically for `dir`;
  * either way for `rtc`.

  The file-system driver (`file_drivers.c`) is not in `src`. This reading
  of `read_file` is an assumption about it.

### ProcessStacks and the refinement

`ProcessStacks` states what process management promises, with no PID
table, descriptors or paging. Each slot runs a stack of processes:
* `Spawn(p)` (execute) pushes a fresh PID onto the current slot, with the
  running process as parent;
* `Exit` (halt of a child) pops back to the parent;
* `Respawn(q)` (halt of a root shell) replaces the root with a fresh root;
* `Switch` and `StartSlot(p)` are the tick, resuming or starting the next
  slot.
A new process always takes a PID no live process holds.

`KernelRefinement` maps `Kernel` onto it:
* `live` is the PIDs that are taken and whose PCB has stdin installed;
* `parent` is each PCB's `parent_pid`;
* `running[t]` is `tasks[t].pid`;
* `started` and `cur` are read from the task table.

Descriptors, `global_pid` and the user page have no abstract counterpart,
so `open`, `close` and a failed execute are stutters. A root's halt that
restarts the shell in the PID it just freed is `Respawn` of that same PID.
`Refinement == AS!Spec` is checked by the kernel_refinement run and proved
by `KernelRefines`.

### Consoles and the terminal refinement

`Consoles` states what the terminal manager promises for output (spec 2
and 3). There is one console per slot, and one of them is `shown`. Each
console has an `image`: the set of slots whose output it holds. It has
three actions:
* `Show(n)` changes only which console is shown;
* `Output` adds the running slot to its own console's image;
* `Preempt` moves `running` round robin.

`TerminalRefinement` maps `active_terminal` to `shown` and `current_task`
to `running`. The image of terminal `t` is `disp[Backing(t)]`: the content
of the screen when `t` is active, and of its own `video_mem` otherwise.
Under this mapping:
* `switch_terminals` is `Show(n)`. It saves the screen into the old
  terminal's frame before it loads the new one's, so every image moves
  with its terminal.
* `terminal_write` is `Output` when the video page maps the running
  task's own frame. It is a stutter when the page maps the active
  terminal's off-screen frame (the `terminal_video` finding). That frame
  is no terminal's image, and the next switch overwrites it. So the bug
  loses output but never shows it on the wrong console.
* `schedule()` is `Preempt`.
* The keyboard, read and ctrl+c handlers are stutters.

The mutant that leaves out the save memcpy breaks the refinement within
70 states.

### KernelRtc: the virtual RTC composed with the kernel

`KernelRtc` extends `Kernel` with the RTC state:
* `rtcFreq[p]` and `rtcPending[p]` are the PCB fields `rtc_freq` and
  `rtc_interrupt_occurred`;
* `rtcCounter` is `rtc_virtual_interrupt_counter`;
* `pitCounter` is `pit_interrupt_counter`;
* `pcbAllStarted` is `pcb_all_started`.

Its actions:
* `RtcInterrupt` is `rtc_interrupt` (`rtc.c:62-84`). For each slot it reads
  `rtc_freq` through `tasks[i].pcb`, a NULL pointer for a slot not yet
  started, in which case the read is any value. It uses the default rate
  until `pcb_all_started >= NUM_TASKS - 1` and raises the flag of the PCB
  the pointer names.
* `RtcExecute` and `RtcHalt` are `Execute` and `Halt` plus the snapshot
  `pcb_all_started = pit_interrupt_counter` of `sys_call.c:270`. A root's
  halt reruns execute, so it takes the snapshot too.
* `PitInterrupt` is `Schedule` plus the PIT count.
* `WriteRtc` and `ReadRtc` are the driver calls.

`read_rtc`, `write_rtc`, the virtual counter and the PIT handler are not in
`src`, so they are modelled from spec 4.4 (`spec_modelled` in
`PROJECT.json`). Whether the handler counts the tick before or after it
calls `schedule()` is unknown; a lazy start never returns into the
handler. The model leaves the order open as the variable
`pitCountsFirst`, chosen in the initial state and never changed.

Fairness: `WF` of `PitInterrupt` and of `RtcInterrupt`, since both are
hardware interrupts that keep arriving while the kernel runs. No fairness
is assumed for the driver calls.

### Timing assumption

`UserMayCall` allows user system calls only once every slot has started
(constant `StartupRace = FALSE`). The reason: a base shell blocks in
`terminal_read` until a line is typed, and the PIT starts the other slots
within the first two ticks (about 50 ms), far sooner than a person can
type. `StartupRace = TRUE` drops the assumption, and the `startup_race` run
shows what then goes wrong.

### Atomicity

Each system call and each tick is one atomic step.
* `schedule()` runs with interrupts masked (`cli_and_save`).
* `sys_execute` and `sys_halt` do not mask interrupts themselves. Whether
  the system-call gate does is set by the IDT code, which is not in `src`.
  This is listed as an uncovered hazard.

## Runs

All runs use `MCKernel`, with `NumProcesses = 4`, `NumTasks = 2` and
`FdArraySize = 3`.

| run | cfg | expect | checks |
|---|---|---|---|
| kernel | `MCKernel.cfg` | pass | `TypeOK`, `FreshPcbClean`, `RunningContext`, `ProcessTree`, `ParentInSameSlot`, `SlotTerminal`, `AllSlotsStarted` |
| startup_race | `MCKernelStartupRace.cfg` | violation | `ParentInSameSlot` with `StartupRace = TRUE` |
| exec_fd_leak | `MCKernelExecLeak.cfg` | violation | `FailedExecuteHarmless` |
| stale_inode | `MCKernelStaleInode.cfg` | violation | `ExecuteRunsOnlyPrograms` |
| pid_bound | `MCKernelPidBound.cfg` | violation | `PidsWithinPool` |
| terminal | `MCTerminal.cfg` | pass | `TypeOK`, `DisplayIsolation`, `ActiveFlagsMatch`, `ConsolesRefinement` (the terminals implement `Consoles`) |
| terminal_video | `MCTerminalVideo.cfg` | violation | `VideoIsolation` |
| terminal_replay | `MCTerminalReplay.cfg` | violation | `NoReplay` |
| terminal_index | `MCTerminalIndex.cfg` | violation | `InputWithinBuffer` |
| kernel_refinement | `MCKernelRefinement.cfg` | pass | `Refinement` (the kernel implements `ProcessStacks`) |
| rtc | `MCKernelRtc.cfg` | pass | `RtcFreqReadSafe` |
| rtc_null_pcb | `MCKernelRtcNull.cfg` | violation | `RtcWritesOnlyStartedPcbs` |

The terminal runs use `MCTerminal`: 3 terminals, `BufSize = 4`,
`IndexMod = 8` (twice the buffer, as 128 and 256 in the code),
`NLByte = 2` (a small in-bounds index, as 10 is for 128) and the shell's
`ReadLen = 1023`. `MaxKeys` bounds the editing keys of a run. It is 3 in
the passing run (3.7 million states, about 80 seconds with the refinement), which is below the
5 Enters an overflow needs; the overflow is the subject of `terminal_index`
(5 keys). Switches, ticks, reads, writes and ctrl+c are unbounded.

### Properties of the passing run

* **`ProcessTree`.** Following `parent` links from each slot's running PID:
  * the chain stays inside that slot;
  * it ends at the slot's root PID `t`, which alone has no parent;
  * chains of different slots are disjoint;
  * every live PID lies on some chain.

  It fails if a parent is chosen wrongly, if halt restores the wrong
  process, or if PIDs are reused while still live.
* **`RunningContext`.** `global_pid`, the mapped user page and the current
  task's PID agree, and that PID is live. This must survive halts, restarts
  and ticks in any order.
* **`FreshPcbClean`.** A free PID's PCB has fds 2.. closed. `sys_execute`
  does not clear the fd array of a PCB it reuses, so this is what stops a
  new process from inheriting open files.
* **`ParentInSameSlot`.** A live process's parent names the same terminal
  as the process. The parent is chosen by PID value (`sys_call.c:141`),
  so this needs the slots' root shells to take PIDs `0..NUM_TASKS-1`
  first. The startup_race run shows that it fails without that timing.
* **`SlotTerminal`.** The PCB of each started slot's running process
  names that slot's terminal. `terminal_read` and `terminal_write` find
  their terminal through that field (`terminal.c:119`). Execute sets the
  field from `CURRENT_TASK` (`sys_call.c:226`). In a lazy start
  `current_task` has already moved to the new slot while `global_pid`
  still names the outgoing process.
* **`AllSlotsStarted`.** Under weak fairness of `Schedule`, every slot
  eventually gets its shell.

Properties of the `terminal` run:
* **`DisplayIsolation`.** The screen holds output of the active terminal
  only, and each other terminal's frame only its own. It depends on the
  order of the two `memcpy`s in `switch_terminals`, on `schedule()`
  remapping by the flags, and on the misdirected remap of
  `switch_terminals` landing only in the frame that is not shown and is
  overwritten by the next switch.
* **`ActiveFlagsMatch`.** `terminals[t].active`, read by `schedule()` and
  `switch_terminals`, is set for exactly `active_terminal`. Backspace past
  the buffer can write the `active` byte; it only ever writes the active
  terminal's own, which is already set.

Property of the `kernel_refinement` run (3 PIDs, 2 slots, 350,724 states):
* **`Refinement`.** Every kernel behaviour is a behaviour of
  `ProcessStacks`. It fails if execute gives a PID that a live process
  still holds, if halt resumes anything but the parent, or if a new
  process gets the wrong parent.

Property of the `rtc` run (2 PIDs, 2 slots, `MAX_HZ = 2`, rates
`{1, 2}`, 1.77 million states):
* **`RtcFreqReadSafe`.** Once `pcb_all_started` passes the threshold, every
  slot has been started, so the handler's rate reads never go through NULL.
  It rests on `pcb_all_started` being a PIT count taken at execute time,
  and on `schedule()` starting one slot per tick. It holds whichever order
  the PIT handler uses.
Each property has a mutant that TLC must catch; see `PROJECT.json`.

### Bounds

* 2 slots and 4 PIDs give two roots, two children and the out-of-bounds
  cell. That is enough for:
  * a full table;
  * a child in each slot;
  * a base-shell restart;
  * the PID scan reaching the extra cell.
* 3 fds give one openable fd (index 2). That is enough for the exec leak,
  the stale inode and a full fd array.
* The run explores 350,724 distinct states in about 1.5 minutes.

The violations need only these sizes. A third slot adds no new control path
in `Kernel`. Terminal switching, where a third terminal matters, is
checked with 3 terminals in `MCTerminal`.

### Fairness

`WF_vars(Schedule)`: the PIT fires periodically, and `schedule()` is
enabled whenever the kernel has not crashed. No fairness is assumed for
system calls, because user programs may run forever without making any.

## Findings

1. **startup_race** (`sys_call.c:141`). The parent is chosen by PID value.
   A program executed before the slots have started takes PID 1 as a
   parentless root. A later shell then inherits a parent from another slot.
2. **exec_fd_leak** (`sys_call.c:204`). A bad ELF header returns -1
   without closing `exec_fd`.
3. **stale_inode** (`sys_call.c:386`). Opening a directory or the RTC
   leaves `inode` stale, so `execute .` can run the program last opened in
   that fd slot. This finding rests on the `file_drivers.c` assumption above.
4. **pid_bound** (`process.h:70`). The bound `number > NUM_PROCESSES` lets
   the scan read and claim `pid_availability[6]`.
5. **terminal_video** (`terminal.c:489`). When ALT+Fn is pressed while a
   task of a third terminal runs (or of the old one), `switch_terminals`
   maps that task's video page to the new terminal's private frame, not its
   own. Its output until the next tick is lost. One step from the start.
6. **terminal_replay** (`terminal.c:139`). `terminal_read` resets
   `terminals[active_terminal]`, not the terminal it read. Trace: type a
   key and Enter on terminal 0 while its shell reads, switch to terminal 1,
   let the read finish (it clears terminal 1), read again on 0, switch
   back and press Enter: the second read returns the first key again.
7. **terminal_index** (`terminal.c:278`). Enter increments `buffer_index`
   with no bound. A full line and two Enters without a read put it past
   `INPUT_BUFFER_SIZE`, after which `terminal_read` over-reads and
   backspace writes into the struct's other fields.
8. **rtc_null_pcb** (`rtc.c:80`). The write
   `tasks[i].pcb->rtc_interrupt_occurred = 1` sits outside the
   `pcb_all_started` test. At the first RTC interrupt after boot
   (counter 0, every divisor selects it), slot 1 has not started and
   `tasks[1].pcb` is NULL, so the handler writes to low memory.

## Proofs

`KernelProofs` proves `THEOREM TypeCorrect == Spec => []TypeOK` for all
constants satisfying:
* `NumTasks >= 1`;
* `NumTasks <= NumProcesses`;
* `FdArraySize > 2`.

`TypeOK` is inductive as it stands. The proof is `InitTypeOK` and
`NextTypeOK`, with one step per action. Each step rests on lemmas that type
the helpers:
* `FirstAvailablePid` and `FreeFd` return a member of their range or `-1`.
  Both are proved from a least-element lemma `LeastNat`, itself proved from
  `WellFoundedInduction`.
* `OpenedEntry`, `StdFds`, `ClosedFd`, `CloseAll` and `LoadedPcbs` preserve
  the fd-table shape.
* `ExecuteFrom` yields typed state on every path, whatever its failure
  continuation.

`KernelInvProofs` proves, assuming `~StartupRace` (the slots start before
any user program runs, the timing `PROJECT.json`'s startup_race finding
shows is needed):
* `THEOREM IInvHolds == Spec => []IInv`;
* `THEOREM RunningContextHolds == Spec => []RunningContext`;
* `THEOREM FreshPcbCleanHolds == Spec => []FreshPcbClean`.

Neither property is inductive alone. `IInv` adds what the argument needs:
* each started slot's live PIDs form a stack whose bottom is the slot's
  root PID and whose PCBs name their parent one below;
* while some slot is unstarted, the started slots are a prefix
  `0..current` and the next tick starts `current + 1`;
* stdin and stdout are open in every live PCB, and free PCBs are clean;
* a halting root's restart always finds its own PID free and the `shell`
  file openable, so the restart cannot fail.
Each action has a lemma (`ExecuteIInv`, `HaltIInv`, `OpenIInv`,
`CloseIInv`, `ScheduleIInv`), resting on lemmas about the helpers
(`FirstAvailablePidIs`, `FreeFdFirst`, `ExecuteFromOutcome`,
`RunningPcbStep`, `HaltParentStep`, `LazyStartStep`).

`KernelRefinementProofs` proves `THEOREM KernelRefines == Spec =>
Refinement` under `~StartupRace`, from three facts:
* `Init => AS!Init`;
* `IInv /\ IInv' /\ [Next]_vars => [AS!Next]_AS!vars`;
* `IInvHolds`.
The step lemma has one lemma per action:
* `ExecuteRefines` (stutter, descriptor-only stutter, or `Spawn` of the
  first free PID);
* `HaltRefines` (`Exit` to the parent, or `Respawn` of the root's own PID,
  via `HaltRootEffect`);
* `OpenCloseStutter`;
* `ScheduleRefines` (`Switch`, or `StartSlot` of the first free PID during
  start-up).
`IInv` supplies what the mapping needs: live PIDs are the stacks, the
running PID is live, and during start-up the next slot is unstarted.

`KernelRtcProofs` proves `RtcFreqReadSafeHolds == RtcSpec =>
[]RtcFreqReadSafe` under `~StartupRace`, for every
number of slots, processes and rates. The invariant `RInv` is `IInv`, the
RTC types and one more conjunct: while some slot is unstarted, both
`pit_interrupt_counter` and `pcb_all_started` are at most `current_task`.

The argument:
* during start-up each PIT tick is a lazy start that moves `current_task`
  up by one, while the counter moves by at most one;
* user calls, and with them every other snapshot, wait until all slots
  have started;
* `AllStarted` is stable because no abstract step un-starts a slot
  (`AllStartedStable`, from `NextRefines`);
* `current_task <= NUM_TASKS - 2` holds while a slot is unstarted, so the
  threshold cannot be reached then.

`TerminalProofs` proves, for every number of terminals and buffer size,
`ActiveFlagsMatchHolds` and `DisplayIsolationHolds` from the inductive
invariant `IInv == TypeCore /\ ActiveFlagsMatch /\ DisplayIsolation /\
VidSafe`. `VidSafe` says the running task's page maps to its own frame or
to the active terminal's unshown frame: the bug of `terminal_video` keeps
the second case alive, and it is exactly what makes the display invariant
survive it. The line-buffer variables play no part, so `TypeCore` types
only the switch and display state. Both invariants were checked by TLC
as run invariants before the proofs.

`TerminalProofs` also proves `TypeCorrect == Spec => []TypeOK`. `TypeOK`
bounds each `buffer_index` only to the uint8 range, through the wrap of
`++` and the backspace overrun that writes NEWLINE into the index byte. It
does not bound it by the buffer, which `terminal_index` shows failing.
`TypeOK` is inductive as it stands. There is one lemma per action; the delivered-key
bag needs the definition of bag addition.

`KernelSlotProofs` proves `ParentInSameSlotHolds` and `SlotTerminalHolds`
under `~StartupRace`, for all constants. Neither property is inductive
with `IInv` alone. Two facts are added, and TLC checked both as invariants
of the kernel run before the proof:
* `RootTerminal`: a root PID `p < NUM_TASKS` in use names terminal `p`;
* `IdleCell`: a used cell without a process keeps boot's `parent_pid` 0
  and terminal 0. This cell is the word past `pid_availability`.

The argument goes by action:
* Open, close and a failed execute touch only descriptors above stdout.
  Every cell keeps its use, its parent and its terminal (`FdsOnlyKeeps`,
  `ShapeStep`).
* A successful execute gives the first free PID the caller's terminal and
  the caller as parent. The caller is the running process of
  `current_task`, which names that terminal.
* A child's halt frees a PID that no other process names as parent. The
  parent it resumes is of the same slot.
* A root's halt reruns execute on the same PID, in the same slot
  (`HaltRootEffect`).
* A lazy start gives PID `current_task + 1` to slot `current_task + 1`, as
  a root with no parent. `LazyStartStep` of `KernelInvProofs` exports these
  per-cell facts, and `NewCellStep` turns them into the invariant.

`TerminalRefinementProofs` proves `TerminalRefines == Spec =>
ConsolesRefinement` for every number of terminals and buffer size, along
the standard argument. `Init` maps to the abstract `Init`. Under
`TerminalProofs`' invariant `IInv`, every step maps to an abstract step or
a stutter, with one lemma per action. The write step needs `VidSafe` from
`IInv`: a page that does not map the running task's image maps the active
terminal's off-screen frame. `BackingFrames` shows that frame is distinct
from every image's frame, and that distinct terminals' images lie in
distinct frames. TLC checked the refinement first, in the terminal run (3.7 million states,
about 80 seconds).

Only model-checked:
* the liveness property `AllSlotsStarted`, since TLAPS does not handle
  fairness or ENABLED;
* `ProcessTree`, which is stated through a recursive function of the parent
  chain; induction over it is not available to the provers. Its
  link-by-link content is proved as `ParentInSameSlot` and `SlotTerminal`:
  each parent link keeps the terminal, and the top of each chain names
  the slot. The rest stays TLC-only: chains end at the slot's root, the
  chains are disjoint, and every live PID lies on one.
* every violation, which TLC shows by a trace.

## Plan for later work

1. `execute` does not reset `rtc_freq` or `rtc_interrupt_occurred` of a
   reused PID (`sys_call.c:226`). A property would need to say which rate a
   new process should start with; spec 4.4 does not say.
2. `pit_interrupt_counter` is an `int` that the code lets wrap after 2^31
   ticks, and every execute copies it into `pcb_all_started`. The model
   saturates it at `MaxTicks`, because the PIT handler is not in the source
   tree, so no property can say anything about the wrap.
3. A liveness property for the RTC: a process reading `/dev/rtc` on a
   started slot eventually returns, under fairness of `RtcInterrupt`.
4. Composing `Terminal` with `Kernel` so that ctrl+c is `Halt` of the
   running slot, and a liveness property that a spinning read on the
   active terminal returns after Enter under fairness of the tick.
5. A bounded check of `FIRST_AVAILABLE_PID`'s loop against its set-minimum
   definition.

## Not modelled

* The i8259 PIC, mouse and mode X (port I/O).
* Argument parsing: the command is a member of a small set.
* `sys_read`/`sys_write` forwarding.
* `sys_getargs` and `sys_vidmap`, which only copy or return pointers.
* The file system driver, which is not in `src`.
* User programs.
