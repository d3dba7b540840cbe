# TLA+ models of the student-distrib kernel

This directory holds TLA+ models of the kernel in `src/student-distrib`: a small
x86 teaching OS with three terminals, six process slots, a PIT-driven
scheduler, a read-only file system, an RTC driver and a file-descriptor layer
behind the system calls. Each module is written from the C source, and
`PROJECT.json` maps every modelled definition to the lines it translates.

## The system and how its parts interact

| Part | Source | State | Operations |
|---|---|---|---|
| Process table | `system_call.c` | `task_slots[6]`, `tasks_running`, PCB per slot (parent/child ids, saved `old_esp/old_ebp/old_eip`, fd array), `exception_death` | `syscall_execute`, `syscall_halt`, `find_open_task`, `find_bottom_task`, `switch_running_task`, `syscall_vidmap` |
| Scheduler / PIT | `scheduler.c`, `pit.c` | `bootup_flag`, the terminal counter `i` | `pit_handler` → `scheduler(i)` |
| Paging | `paging.c` | the 128MB user page (which 4MB frame), the 148MB video page | `syscall_paging_setup`, `videomem_map/unmap` |
| Terminals | `keyboard.c` | `display_terminal_id`, per-terminal `keyboard_buffer`, `keyboard_buffer_size`, `allow_terminal_read` | `keyboard_handler` → `terminal_buf_add`, `terminal_backspace`, `switch_display_terminal` (Alt+F1..F3); `terminal_read/write` |
| Exceptions | `interrupt_table.h` | — | `HANDLE_EXCEPTION`: halt the task, or spin if task 0 |
| Fd layer | `system_call.c` | `pcb->fd[8]`: flags, fops table, inode, file_position | `fda_init`, `syscall_open/close/read/write`, halt's close loop |
| File system | `fs_module.c`, `fs_module.h` | boot block, dentries, inodes (read-only) | `read_dentry_by_name/index`, `read_data`, `file_read`, `dir_read`, open/close hooks |
| RTC | `rtc.c` | `virt_freq`, `rtc_inter_count` | `rtc_open`, `rtc_write`, `rtc_read`, `rtc_handler` |
| PIC | `i8259.c` | IRQ masks (and, in the chip, the request and in-service registers) | `enable_irq`, `send_eoi` |
| Interrupt path | `interrupt_table.c`, `pit.c`, `keyboard.c`, `rtc.c` | the CPU's IF flag, the handler frames | interrupt gates, `pit_handler`, `keyboard_handler`, `rtc_handler` |

How the parts interact:

- **PIT and scheduler.** The PIT interrupt calls `scheduler(i)`. When terminal `i` has no task, the scheduler makes it the display terminal (`switch_display_terminal`) and runs `syscall_execute("shell")`. That execute irets into the shell and never returns to `pit_handler`, so `i` advances only on ticks that start nothing.
- **Root tasks.** `execute` makes a task parentless (a *root*) iff its slot is below `TERMINAL_COUNT`. `halt` of a root re-enters the program at `old_eip`. Any other halt goes back to its parent.
- **Keyboard.** Alt+F*n* calls `switch_display_terminal`. It remaps the user page to `find_bottom_task(tid)` and sets `tasks_running` to that task.
- **Exceptions** halt the running task, or spin when `tasks_running` is 0.
- **Keyboard input** goes to the buffer of the *displayed* terminal. `terminal_read` (fd 0) spins on that terminal's `allow_terminal_read`, set by Enter, and then copies and clears the buffer with interrupts off.
- **RTC.** `rtc_handler` counts interrupts in a global. `rtc_read` zeroes the count and spins until `1024 / virt_freq` have arrived. `rtc_open` and `rtc_write` set the global `virt_freq`.
- **Interrupts.** Every IRQ vector is an interrupt gate, so a handler starts with IF clear. `keyboard_handler` and `rtc_handler` never set IF and acknowledge the PIC just before their iret. `pit_handler` does `cli`, `scheduler(i)`, `sti` and only then `send_eoi(0)`, so another interrupt can be taken in between. On the boot path the scheduler acknowledges the PIT itself, because the execute of the shell never returns.
- **File-descriptor calls** act on the fd array of `tasks_running`'s PCB and dispatch through the fops tables of the file system, the RTC and the terminal.

## Modules

- **`Kernel.tla`** models the process table, execute/halt, faults, vidmap, the display switch and the PIT scheduler.
  - **Variables.**
    - Kernel variables, kept under their C names: `task_slots`, `tasks_running`, `pcb` (parent, child, saved stack, program), `exception_death`, `user_page`, `vid_mapped`, `display_terminal_id`, `bootup_flag` and `pit_i` (pit.c's `i`).
    - `cpu`: the slot whose stack the processor is running on. This is what `old_esp/old_ebp` and the `iret`s decide.
    - `spinning`: an exception handler's `while(1)`.
    - `vid_owner`: a ghost recording who called vidmap.
  - **Helpers.** The kernel state passes through `switch_display_terminal`, `syscall_execute`, `syscall_paging_setup`, `videomem_map/unmap` (the present bit of the 148MB entry), `find_bottom_task` (a RECURSIVE walk of the child links) and `find_open_task`. These are operators on a record `K` and are applied in code order inside one action, so `PitTick` is scheduler's whole body: re-home, lookup, switch, execute.
  - **Actions.**
    - `Execute(prog)`: a running program calls execute.
    - `Halt`: the halt syscall.
    - `Fault`: `HANDLE_EXCEPTION`.
    - `Vidmap`.
    - `SwitchTerminal(tid)`: the keyboard's Alt+F*n*.
    - `PitTick`: `pit_handler`.
  - **Refinement.** `ChainSlots(t)` walks the child links from slot `t`, as `find_bottom_task` does, and `RunningChain` is the chain that holds `tasks_running`. These map the kernel onto `ProcessChains` through `PC == INSTANCE ProcessChains WITH ...`.
- **`ProcessChains.tla`** is the abstract specification of the process table. Each terminal owns a stack of process ids and one chain is running.
  - **Actions:** `Start(t, p)` begins the chain of an empty terminal; `Push(p)` is execute, `Pop` is halt, and `Switch(t)` is the display switch.
  - A root never pops: its halt restarts it, which is a stuttering step.
- **`FdTable.tla`** models one PCB's fd array (`fd`), whether the slot holds a live process (`live`), and the RTC's `virt_freq`, `rtc_inter_count` and a spinning `rtc_read` (`rtc_wait`).
  - **Actions:** `FdaInit`, `Open(name)`, `Close(i)`, `Read(i, n)`, `Write(i, v)` and `HaltCloseFds` (halt's close loop, the RECURSIVE `CloseAll`).
  - **RTC actions:** `RtcInterrupt` (`rtc_handler`) and `RtcReadDone` (the end of `rtc_read`'s spin). A read of an rtc fd zeroes the count and starts the spin. While it spins the process makes no other call.
  - **Helpers:** `file_read`, `dir_read` and `directory_read` are operators. `file_read` calls `ReadData!read_data` through an INSTANCE.
  - **Constants:** the file system is a set of constants. `Dentry` is the directory (name → type, inode), `InodeLen` gives the file lengths and `DirEntries` the number of named entries.
  - **Ghost:** `last` records the latest call's op, argument and return value, so properties can speak about return values.
- **`Interrupts.tla`** models the PIC and the interrupt path.
  - **Variables.**
    - `pic`: the two mask registers, as `enable_irq` computes them.
    - `irr`, `isr`: the controller's request and in-service sets.
    - `iflag`: the CPU's IF flag.
    - `stack`: the handler frames, each an irq and a program counter (`entry`, `sti`, `iret`).
    - `ctx` and `user_if`: what the process is doing (user mode, spinning in `terminal_read` or `rtc_read`) and the IF its user mode runs with.
    - The handlers' state: `key`, `ready` (`allow_terminal_read`), `disp`, `rtc_flag` (register C not yet read), `rtc_count`, `pit_i`, `bootup_flag`, and `booted` (the shells started).
  - **Controller.** `Servable` is the 8259's fully nested logic: the request is unmasked and of higher priority than every level in service. `send_eoi` is a specific EOI, and the EOI of a slave level also acknowledges the cascade.
  - **Actions.**
    - `PitRaise`, `RtcRaise` and `KeyPress(k)`: device requests.
    - `Deliver(irq)`: the CPU takes the highest-priority servable request through an interrupt gate.
    - `PitBoot`: the scheduler's boot path, from its `send_eoi(0)` to the shell's iret. `PitSchedule`, `PitEoi` and `PitIret`: the rest of `pit_handler`.
    - `KeyboardIrq` and `RtcIrq`: the two handlers, each with its EOI and iret.
    - `SysReadTerminal`, `TerminalReadCopy`, `SyscallReturn`, `SysReadRtc` and `RtcReadDone`: the process's reads.
  - **Timing.** The PIT (about 20 ms), the RTC and a typist are slow next to a handler. So a device raises a request only while the process runs (`Running`), and a pending request is taken before the process's next step.
- **`Dentry.tla`** models `read_dentry_by_name` and `read_dentry_by_index` as pure operators over a boot block (`boot_block_t`).
  - Names are C strings: a sequence of characters, with NUL after the last. A dentry's name field holds `MaxFilename` characters, NUL-padded, with no NUL when the name fills the field.
  - `strncmp` is `strncmp_eq`, and the loop over all `MAX_FILECOUNT` entries (growing `fname_length` before each comparison) is the RECURSIVE `Scan`.
  - The variables `lookup_name` and `boot_block` are the inputs of one lookup. `ReferenceLookup` is the first entry `read_dentry_by_index` gives whose name is the one asked for.
- **`Command.tla`** (extends `Dentry`) models the parse at the head of `syscall_execute`. That is the leading spaces, the name loop with its overflow test, the spaces after the name, the argument loop and the blank check, as `ParseCommand`. `SpecParse` is the parse the specification describes (section 4.1, step 1 and its scenarios). The variable `command` is the input.
  - `syscall_getargs` is modelled on the argument the parse stored in the PCB, for the input `getargs_n` (nbytes). It covers the unsigned `strlen > nbytes` test, the blank check, the `memset` that faults for a negative `nbytes`, and the `memcpy` of at most `ARGUMENT_SIZE` bytes. The result is the C string the caller can read from its buffer, or `Unterminated`. The uninitialised bytes after the argument's NUL in `argument_buf` never change that string, so they are left out. `SpecGetargs` is the specification's `get_arguments`.
- **`Keyboard.tla`** models the scan-code decoding of `keyboard_handler` (keyboard.c 108-195). The calls it makes are ghosts here; `Terminal` and `Kernel` model what they do.
  - **Variables:** `down` is the key-down column `scan_codes[k][3]` of the rows modelled (the Shift, Ctrl and Alt keys, CapsLock, F1-F3, Backspace and the letters a and l). The ghosts are `held` (the keys the user holds), `last_code` and `dispatched` (the call the latest interrupt made).
  - **Helpers:** `InRange` (the two range checks), `Record` (the press/release write), `Toggle` (the CapsLock flip), `CharOf` (the Shift/CapsLock choice of a column) and `Dispatch` (the if/else-if chain: Ctrl+L, Backspace, Alt+F1..F3, add).
  - **Actions:** `Press(k)` (also a typematic repeat), `Release(k)` of a held key, and `Stray(code)` for a code outside the table's range. Each sends its code through `keyboard_handler`.
- **`ReadData.tla`** models `read_data` as a pure operator. It keeps uint32 arithmetic (`% 2^Width`) and the block loop (RECURSIVE `CopyBlocks`), and checks the result against `ReferenceRead`, the intended meaning of a read.
- **`Terminal.tla`** models `keyboard.c`'s line discipline.
  - **Variables:** the per-terminal `keyboard_buffer` (an array of `MaxBuf` characters), `keyboard_buffer_size`, `allow_terminal_read`, `display_terminal_id`, and the phase of one reader of fd 0 (`reader`).
  - **Actions:**
    - `KeyChar(c)`: `terminal_buf_add`;
    - `KeyBackspace`: `terminal_backspace`;
    - `KeySwitch(t)`: Alt+F*n*;
    - `ReadStart(n)`: the call of `terminal_read`;
    - `ReadSpin`: its spin on `allow_terminal_read` ending;
    - `ReadCopy`: the copy-and-clear loop and the resets under `cli`.
  - **Ghosts:** `typed` is the line each screen shows, and `last_read` is what the last read returned and what it should have returned.
- **`MCKernel.tla`, `MCFdTable.tla`, `MCRoutines.tla`, `MCTerminal.tla`, `MCDevices.tla`** instantiate the modules with model values and small sets for TLC. `MCRoutines` checks the pure routines (`ReadData`, `Dentry`, `Command`), the keyboard decoding (`Keyboard`) and the terminal line buffers (`Terminal`, by `INSTANCE`) in one run. `MCDevices` checks one slot's fd layer (`FdTable`) and the interrupt path (`Interrupts`), both by `INSTANCE`. In each, the variable `unit` says which component a behaviour exercises. In a routine behaviour the initial state is one call of one routine, and the other inputs stay idle. Every other behaviour starts from its component's initial state and takes only that component's steps. The state space is therefore the sum of the components' state spaces, not their product. `MCFdTable` remains for the `fd_offset` run and `MCTerminal` for the `terminal_line` run.

## Runs

| Run | Expect | What it shows |
|---|---|---|
| `kernel_core` (`Kernel.cfg`) | pass | See below. |
| `kernel_roots` | violation | A shell's child executed before boot completes lands in slot 1 or 2 and becomes a root (`RootsAreShells`). |
| `kernel_kframe` | violation | Alt+F2 before terminal 1 has a task maps the kernel frame as the user page (`KernelFrameNeverMapped`). |
| `kernel_stack` | violation | A display switch changes `tasks_running` while the CPU stays on the interrupted task's stack (`RunsOnOwnStack`). |
| `kernel_excflag` | violation | A fault in a root task leaves `exception_death` set after the restart (`ExceptionDeathConsumed`). |
| `kernel_sched` | violation | The PIT never rotates between terminals once all three have shells (`EveryTerminalRuns`). |
| `routines` (`ReadData.cfg`) | pass | `read_data` is exact for every read that ends inside the file (`InFileReadExact`). `read_dentry_by_name` finds exactly the named entry for every non-empty name and directory (`DentryLookupExact`). Execute's parse gives the name and argument the specification gives, for every line (`ExecuteParseMatchesSpec`). The key-down table agrees with the keys held, F3's release included (`KeyDownMatchesHeld`). `terminal_read`'s copy never runs past `keyboard_buffer`, even with `nbytes` larger than the buffer (`ReadStaysInBuffer`). |
| `readdata_negative` | violation | `read(fd, buf, -1)` at offset 1 makes `read_data` call `memcpy` with length -1 (`CopyLengthNonNegative`). |
| `getargs` (`Getargs.cfg`) | violation | `getargs` returns 0 when `nbytes` is exactly the argument's length (no room for the NUL), and faults on a negative `nbytes`, where the specification's `get_arguments` fails (`GetargsMatchesSpec`). |
| `fd_offset` | violation | Reading 4 bytes of a 3-byte file returns 4 and moves the offset past the end (`FileOffsetWithinFile`). |
| `devices` (`Devices.cfg`) | pass | The fd layer and the interrupt path: see below. |
| `terminal_line` | violation | A read of fd 0 returns a line the user erased with backspace, or bytes left over from the previous line (`ReadReturnsTypedLine`). |

`kernel_core` checks every interleaving of execute, halt, faults, vidmap, terminal switches and PIT ticks. In all of them:

- the parent and child links stay consistent (`ChainConsistent`);
- the running task is a live leaf (`RunningIsLeaf`);
- no video mapping outlives the process that made it (`NoStaleWindow`);
- every terminal eventually gets a shell (`BootCompletes`);
- the process table refines `ProcessChains` (`ChainRefinement`). Every kernel step pushes or pops on the running terminal's chain, starts an empty terminal's chain, switches to a non-empty chain, or changes no chain, and no process is in two chains.

In `devices`, the fd behaviours check that:

- every open fd above 1 can be closed (`ClosableDescriptors`);
- a free fd is at offset 0 (`FreeDescriptorAtStart`);
- `virt_freq` is always a frequency `rtc_read` can divide by (`FdTypeOK`);
- a spinning `rtc_read` returns (`RtcReadReturns`).

The interrupt behaviours check that:

- a level is in service exactly while a handler for it runs before its EOI (`InServiceHasHandler`). So no path, the scheduler's boot path included, leaves a level in service, which would mask it and every lower-priority line;
- handlers nest only on a `pit_handler` frame that has already sent its EOI (`NestOnlyAfterEoi`). That window, after the `sti` and the EOI but before the iret, is the only place where another interrupt is taken;
- the scheduler starts a shell on every terminal (`ShellsStart`);
- an `rtc_read` waiting for interrupts returns (`RtcWaitEnds`), with the PIT and the keyboard interrupting in between.

For each property of a passing run, `PROJECT.json` names a mutant: a plausible bug in the mapped code under which TLC finds the property violated. The findings in `PROJECT.json` say what each violation means for the code.

## Bounds

- **Kernel violation runs: 5 slots and 3 terminals (the code has 6 and 3), programs `{Shell, Other}`.** Each counterexample is at most a few steps deep. The second program is needed to tell a shell root from another root.
- **`kernel_core`: 4 slots, 2 terminals, programs `{Shell}`.** `TerminalCount` is a parameter: every place the code hardcodes 2 or 3 for the terminals is written with `TerminalCount`. These bounds give 2 root slots and 2 child slots. A chain two tasks deep under one terminal (so `find_bottom_task` walks more than one link), a full table and the boot sequence through the last terminal are all reachable. With 5 slots and 3 terminals the state space is over 400,000 states and too slow for a routine run. The chain, leaf and video properties do not depend on which program runs. The refinement names processes by slot, so a child link overwritten by a new child shows up without a second program.
- **`FdTable`: 4 fds (the code has 8).** That is fds 0 and 1 plus two general fds, which is enough to fill the array and to reuse a freed fd.
- **`FdTable` file system: six names.** They are "stdin", "stdout", an rtc entry, the directory ".", a 3-byte file and a missing name. Reads are 4 bytes and RTC writes are 3 and 8, i.e. one invalid and one valid frequency.
- **`FdTable` RTC: `RtcBase` = 8 (the code has 1024).** Writes of 8 and the 2 Hz of `rtc_open` give waits of 1 and 4 interrupts. The count saturates at `RtcBase / 2`, the longest wait, so every comparison `rtc_read` makes is exact.
- **`Terminal`: 2 terminals, `MaxBuf` = 5 (the code has 128), one letter (`terminal_line`); `MaxBuf` = 4 in `routines`.** With 4, a line still fills the buffer and a read is longer than the buffer. These allow three characters per line and reads of 1 and `MaxBuf + 1` bytes. That is enough for a full buffer with its dropped Enter, a partial read that leaves a tail, and backspace after Enter. One letter tells a stale byte from the right one because the stale bytes include a '\n'.
- **`ReadData`: 4-byte blocks and a 6-bit word (the code has 4096 bytes and 32 bits).** Every block, clamp and wrap case of the C arithmetic occurs at this scale, since 2^Width is a multiple of BlockSize in both. The inputs are:
  - file lengths {0, 3, 4, 6, 9}, which are empty, within one block, exactly one block and across blocks;
  - offsets 0..10;
  - lengths 0..12 together with 61 and 63, i.e. -3 and -1 wrapped to the word. 6 bits keep the block loop at most 16 blocks deep, so the recursion stays shallow.
- **`Dentry`: name fields of 2 characters and 3 dentries (the code has 32 and 63), letters {a, b}.** The inputs are every boot block with 0..3 distinct names of 1..2 letters, and every name of 1..3 letters. These include:
  - a name that fills the field without a NUL;
  - a name one character too long;
  - a prefix of a name in the directory, and a name extending one;
  - unused zeroed entries after `dir_entries`;
  - the growth of `fname_length` reaching its cap within the scan.
- **`Command`: a 2-character name limit and a 2-character argument limit (the code has 32 and 128).** The inputs are every line of up to 6 characters over {a, b, ' ', '\n'}. So leading spaces, a name exactly at the limit and one past it, an argument cut at its limit, and a '\n' before, inside or after either part all occur. Each line is paired with every `nbytes` from -1 to `ARGUMENT_SIZE` + 1, so getargs meets a negative size, zero, the argument's exact length, and sizes past the buffer.

- **`Interrupts`: 3 terminals, an `rtc_read` that needs 2 interrupts, handler frames nested at most 2 deep.** The three terminals are the code's own. Two RTC interrupts make the wait span a PIT tick or a key. Nesting never goes deeper than 2, because only the post-EOI PIT frame admits another handler. That handler admits none, and no new PIT request is raised while a handler runs. The bound caps the model, but it never cuts off a step the code can take (38,981 states with the fd layer).
- **`Keyboard`: ten rows of the 61, every sequence of presses, releases and two stray codes (0x50 and 0xBE, one per range check).** The rows are all that the handler tests by name, plus two letters for the Shift choice. Every subset of keys can be held, so every combination the dispatch chain distinguishes occurs.

## Fairness

`Spec` in `Kernel.tla` assumes weak fairness of `PitTick` only. The PIT fires at a fixed rate whatever the programs do. `scheduler` sends the PIT's EOI before it runs execute (`scheduler.c:32`), so the iret into the new shell does not block later ticks. The shell re-enables interrupts when it reaches `terminal_read`'s `sti`. User programs, keyboard input and faults get no fairness, because they are not obliged to happen.

`FdTable`'s `Spec` (and `MCDevices`' `MCSpec`, on the fd steps) has weak fairness of `RtcInterrupt` and `RtcReadDone`. `rtc_init` enables the periodic interrupt for good, and `rtc_read` spins on the CPU: the scheduler does not preempt user programs (`kernel_sched`), so the spinning process sees the count as soon as it is reached.

`Interrupts`' `Spec` (and `MCDevices`' `MCSpec`, on the irq steps) has:

- strong fairness of `PitRaise` and `RtcRaise`. The timers keep running, but a request is raised only at a moment when the process runs, and such moments come again and again;
- weak fairness of delivery and of the handler steps. A handler runs to its iret once it has started;
- strong fairness of the process's steps. The process runs whenever no handler does.

Keyboard input gets none. The syscall linkage is assumed to set IF (`SyscallSti` = TRUE). That linkage is not in `src/`.

`Terminal`'s `Spec` has weak fairness of the reader's `ReadSpin` and `ReadCopy`, because the reading process is the one on the CPU. No property of the passing run depends on this fairness.

## Not modelled, and why

- **The ELF check and program loading.** These copy bytes. Their failures are execute returning -1 with no state change, which `Kernel` covers by not taking the step.
- **Execute's use of the lookup.** `syscall_execute` ignores `read_dentry_by_name`'s result and reads `file_check.inode` uninitialised (system_call.c:199). `Dentry` shows the lookup itself is exact, and `Kernel` takes a failing check as execute returning -1.
- **`terminal_open`.** It resets terminal 0's buffer, but it is unreachable: `syscall_open` always replaces the console table with the directory entry's table, or fails when there is no entry.
- **`rtc_close`, `file_write`, `dir_write`.** These return a constant; `FdTable`'s `Close` and `Write` give those results.
- **`clear_screen`, the other rows of `scan_codes`.** The first only prints. The other rows are characters that `Keyboard` would treat like the two letters it has; `Terminal`'s `KeyChar` takes a character directly.
- **CapsLock, and the call each key makes.** A CapsLock press sets its key-down cell, and the toggle immediately flips it back (keyboard.c:136), so CapsLock never engages. The comments at keyboard.c:150-165 say CapsLock gives uppercase. `Keyboard` models the handler as written: `CharOf` picks the character and `Dispatch` picks the call. No run states what call a key should make. A property written over the held keys would only restate `Dispatch`, given `KeyDownMatchesHeld`. A property of CapsLock as the comments describe it fails after one CapsLock press and one letter; it is recorded as a hazard, not as a run.
- **F3's row.** F3 (0x3D) writes row 61 of the 61-row `scan_codes`, one past the end. `Keyboard` gives that byte its own cell, which is faithful only while nothing else in memory writes it.
- **Which process reads fd 0.** `Terminal` has one reader of the displayed terminal. In `Kernel` the display switch changes `tasks_running` under the running program (`kernel_stack`).
- **`rtc_init`, `rtc_set_frequency`.** These only program the chip.
- **IF in a PIT-started shell.** The shell's EFLAGS are `pushf`'d under `pit_handler`'s `cli` (system_call.c:298), so it runs with IF clear. Interrupts then reach the CPU only inside a system call. `Interrupts` takes IF as the linkage leaves it (`SyscallSti`). `devices` assumes the linkage sets IF, because the linkage is not in `src/` (recorded as a hazard).
- **`i8259_init`, `disable_irq`, the rest of IDT setup (`interrupt_table.c`), the order of the driver inits in `kernel.c` (not in `src/`), `paging_init`, `flush_TLB`, `fs_init`, `lib.c` output.** These are port I/O, static tables, or the storing of pointers into the boot module. None of them changes state that a property tells apart. `disable_irq` is never called. `Kernel` relies on the PIT interrupt continuing to arrive, which it takes as the fairness of `PitTick`. `Interrupts` checks that assumption (`ShellsStart`).
- **`tests.c`.** These are boot-time tests.

## Further work

1. **Fd arrays per slot in `Kernel`.** Compose `FdTable`'s fd array and the shared RTC state into `Kernel` per slot. This would cover:
   - the root restart that leaks fds (system_call.c:59);
   - `rtc_open` by one process resetting another's rate (rtc.c:120);
   - fd calls acting on `tasks_running`'s PCB.
2. **`Terminal` with `Kernel`.** Compose the two so that the process spinning in `terminal_read` is a kernel task, and check which process gets a line (keyboard.c:280).
3. **`open("stdin")`.** It fails without a directory entry of that name (system_call.c:428). This is recorded as a hazard, and no run checks it yet.
