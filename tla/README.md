# TLA+ verification of seven

This directory holds TLA+ models of seven, the x86 emulator library in `src/`,
TLC configurations that check them on small instances, and theorems that TLAPS
proves for every value of the constants. `PROJECT.json` lists the runs, the
mutations each property catches, the source lines each definition stands for,
the hazards the properties are aimed at, and the theorems.

    tlc -workers 2 -config MCMemory.cfg MCMemory      # one run
    tlapm MemoryProofs.tla                            # one module's proofs

## 1. The system

| component | source | state it keeps | operations |
|-|-|-|-|
| page memory | `seven_core/src/memory.cpp`, `memory.hpp` | `pages_`, the TLB of raw `PageEntry` pointers, `tlb_epoch_`, `code_epoch_`, passthrough callbacks | map, unmap, reprotect, read, write (mapped, unchecked, fetch), snapshot, restore |
| MMIO regions | `memory.cpp` | region list, cached `[min, max)` bound, `next_hook_id_` | map_mmio, unmap_mmio, clear, snapshot, restore |
| access hooks | `memory.cpp` | hook list, two queues, dispatch flag, the summary that opens the fast paths | add, remove, access_allowed |
| fetch and caches | `executor.cpp` | decode cache, code page cache, both keyed by the code epoch | fetch and decode of one instruction |
| step | `executor.cpp` | RF, TF, SS shadow, pending debug reasons, DR6, violation record | step: up to eight attempts, fault hooks' verdicts, #DB delivery |
| run | `executor.cpp`, backend `start`/`stop` | the stop flag, counters | run, start in slices, request_stop, clear_stop_request |
| hook registry | `executor.cpp` | six hook lists, flags, a queue of changes, `dispatching_hooks_` | add, remove, clear, the dispatch functions |
| handlers | `seven_core/src/handlers`, `handler_helpers.cpp` | registers, flags, memory (through `Memory`) | one function per instruction code |
| Sogen backend | `sogen_backend/seven-emulator` | one `CpuState`, `Memory` and `Executor`, hook handles, device bindings | start, stop, register and memory access, map_mmio, hook adapters, delete_hook, serialisation |

`run` calls `step`; `step` fetches through the two caches, calls a handler from
the dispatch table and the hooks around it; a handler works on `CpuState` and on
`Memory`, which may call access hooks and devices. Hooks are host code: they may
map memory, change registers, register or remove hooks, ask for a retry, or
throw. The library has no threads of its own. The one thing shared between
threads is the stop flag, a plain `bool`.

What is hard here, and so what the models are about:

* **stale caches.** Three caches sit between an instruction and its bytes (TLB,
  code page cache, decode cache). Their only protection is a pair of epochs that
  every change of the memory has to move.
* **re-entrancy.** Callbacks change the very lists that are being walked, and may
  leave a walk by an exception.
* **restarting.** A fault hook may have an instruction tried again after the
  failed attempt already changed part of the machine.
* **debug state.** RF, TF, the shadow of an SS load, breakpoints and pending
  reasons interact over several instructions.
* **a racing stop.** `stop()` may land anywhere in `start` and `run`.
* **restoring.** A saved state holds regions but no callbacks and no hooks; ids are
  handed out again while old handles are still around.
* **boundaries.** Ranges that end at 2^64, limits of zero, carries out of the
  64-bit container, shift counts equal to the width, the most negative dividend,
  negative bit offsets, saturation, 16-byte blocks of wider vectors.

Every part, with the ones left out and why, is under "components" in
`PROJECT.json`.

## 2. Modules

| module | models | lines up with |
|-|-|-|
| `Mmio` | MMIO regions | one action per call; `mmio` is the vector in its order, `mmioMin` and `mmioMax` the cached bound |
| `Memory` | class `Memory` without hook lists | one action per call; `heap` holds the `PageEntry` objects so that a freed pointer can dangle and be reused |
| `PageTable` | what `Memory` promises: a table of pages and an epoch | abstract; no TLB, no objects, no access paths |
| `DecodeCache` | fetch stage of `step_impl` | over `PageTable`; `dcache`, `pcache` are the two arrays |
| `Executor` | `step`, `step_impl`, `try_recover_fault`, debug helpers | one action per exit of the attempt loop |
| `RunLoop` | `run`, backend `start`/`stop` | `pc` is where the running thread is; a second thread sets the flag in between |
| `HookRegistry` | hook lists of the executor | `stack` is the C++ call stack of dispatches in progress |
| `AccessHooks` | access hooks of `Memory` | the same for `access_allowed` |
| `FlagMath`, `Arith` | flag helpers and `eval_cond` at any modulus; masks, widths and the rest of the helpers | `handler_helpers.cpp`, `cmov_setcc.cpp` |
| `SeqFilter` | erasing by id from a vector of records | `std::erase_if` in `memory.cpp`, used by `AccessHooks` and `Mmio` |
| `Cpu` | registers, operands, memory access of handlers | `read_register`, `write_register`, `read_operand`, `write_operand` |
| `Alu`, `Flow`, `StringOps` | handlers: integer, stack and control flow, strings | an operator per handler family, from machine to machine |
| `BitOps`, `Decimal` | handlers: AND, OR, XOR and TEST, BMI, bit tests and scans, counts, CRC32, byte order, sign extension, BOUND, ARPL; decimal adjusts | the same |
| `Simd`, `SimdShuffle` | handlers: packed integers; packs, shuffles, vector moves, PCMPxSTRx | a register is a function from 64 byte positions; the operators keep the names of the C++ templates |
| `Vectors` | which of them a legacy, VEX or EVEX encoding reaches | the `KUBERA_` macros and `handled_codes.def` |
| `X87`, `X87Instructions` | handlers: x87 stack, arithmetic, comparisons, environment images; MMX moves | `cpu.fpu` is the part of `CpuState` they use; one operator per helper or handler, under its name |
| `Traps` | SYSCALL and INT with a backend hook | `hook_instruction`, `hook_interrupt`, the trap stage of `step_impl` |
| `Programs` | short programs on these handlers, with page faults repaired by a hook; what integer instructions should compute | the dispatch table, one pass of `step_impl`, a retry |
| `Machine`, `VectorPrograms`, `X87Programs` | the handlers beside the integer ones, and their properties | the rest of the dispatch table |
| `Backend` | device bindings, saved states, hook handles of the backend | over `Mmio`; `restart` is a new backend object that finds the old buffer |
| `MemoryProofs`, `ExecutorProofs`, `RunLoopProofs`, `HookRegistryProofs`, `AccessHooksProofs`, `BackendProofs`, `HandlerProofs` | theorems | extend the module they are about; `ExecutorProofs` is about `DecodeCache` too, `HandlerProofs` about `Programs` |
| `OperatorProofs` | theorems and lemmas about operators | over `FlagMath` and `SeqFilter`; also numbers in general: division, residues, truncated division |
| `MC...` | instances | values for the `.cfg` files |

`Memory` EXTENDS `Mmio`; `Memory` is shown to implement `PageTable`;
`DecodeCache` EXTENDS `PageTable`, so what is checked about the caches holds over
the abstract memory that the real one implements, and adds what a fetch meets before
the pages: the passthrough and the MMIO regions. `Backend` EXTENDS `Mmio` and
drives its regions through the backend's calls. `Programs` is over `Flow`, `Alu`, `Cpu`
and `Arith` and has two parameters: the programs with their starting machines
(`Scenarios`), and the handlers of all other instructions (`OtherHandler`). `Machine`
EXTENDS it and joins `StringOps`, `BitOps`, `Decimal`, `Vectors`, `X87Instructions` and
`Traps` into the operator that its instance gives for the second. What is proved about
`Programs` holds beside any such operator, so also beside this one, which is recursive
and works on bit strings, out of the provers' reach.

What the models abstract:

* Memory: a page holds a few bytes from `Byte`, the address space is `PageCount`
  pages and wraps as 2^64 does. A call is atomic, as the class is not thread-safe.
  An access hook is only a verdict in `Memory`; what hooks do to the lists is in
  `AccessHooks`.
* DecodeCache: an instruction is its mode and its bytes; its first byte decides
  its length. The decoder itself is external. What a device, or the process behind a
  passthrough, answers is an *image*: a byte for some addresses, a failed read for the
  others. A fetch takes the passthrough, else the first region that contains all its
  bytes, else the pages, as `Memory::read` does, and a fetch hook may refuse it;
  `read_code_page` never looks at regions. Devices and hosts answer otherwise whenever
  they like. The bound that speeds up the search for a region is in `Mmio`.
* Executor: an instruction is one of the kinds the step tells apart (plain, store
  to a watched address, SS load, REP, POPF, INT, IRET, trap, HLT, three ways to
  fail early). All vectors lead to one handler that holds an IRET; the stack takes
  `MaxFrames` frames, and a delivery beyond that fails, which is how delivery
  failures arise.
* Handlers: bytes have `ByteBits` bits; shift masks, register widths and the
  64-bit container follow from it. A memory cell holds one operand of a
  scalar instruction. A cell may lie across two pages: its first `FirstBytes` bytes
  (a constant) are on the first, and the permissions "rw-ro" and "rw-none" are those of
  a writable page before one that is read-only or missing. A store there that does not
  fit on the first page leaves its low bytes in memory and faults (`Torn`), as
  `Memory::write` does. Of other pairs of pages the operand sees the weaker permission.
  A hook that repairs a fault maps both pages alike. Vectors keep one byte at each
  address and are torn between any two of them. Encodings that differ only in where operands come
  from share an operator. Two quantities do not scale with the byte and are
  constants: the width of the index fields of BEXTR and BZHI (`FieldBits`, 8 in the
  code) and the polynomial of CRC32 (`CrcPoly`). The decimal adjusts work on real
  8-bit bytes.
* x87: a number is a count of halves, or an infinity, or NaN; a product must be a whole
  number of halves, a quotient too or else it is opaque, like the results of libm. Zero
  has no sign and nothing is denormal. The status, control and tag words keep their
  bits. In memory every part the code stores by itself (a number, a word, the
  significand and the exponent of an 80-bit number, two decimal digits) fills one
  address and lies on one page, an image 12 addresses and with the vector registers 24, and a decimal
  number has `BcdBytes` = 2 bytes of digits where the code has 9. Which stack registers
  the decoder (external) reports for the implied operands of FPREM, FCOMPP, FST ST(i)
  and FSTP ST(i) is assumed as the handlers need it.
* Backend: a device stands for a pair of callbacks, a handle for a `hook_object`;
  the host makes no call from inside a callback (that is in `HookRegistry` and
  `AccessHooks`).

## 3. Runs

All runs finish within five minutes with two workers.

**memory** (`MCMemory.cfg`). Three pages of one byte, so that an access of two
bytes crosses pages; one TLB slot, so that every lookup of another page evicts;
two `PageEntry` objects for two mappable pages, so that a freed object is reused
by another page. The last page can never be mapped, because rounding its end up
wraps. Epochs are bounded by `MaxEpoch`. Objects are symmetric. Checked:
`TlbCoherent` (lookup_page answers what `pages_.find` would), `WalksStopAtEnd` (a page
walk whose end wraps fails before the last page and copies nothing there or from address
0 on; it says nothing of accesses that the passthrough or an MMIO region answers, whose
end `find_mmio_region` compares as it wrapped), and the refinement `ImplementsPageTable`.

**backend** (`MCBackend.cfg`). Eight addresses, regions that overlap, touch and end
at the top, where base + size is 0; two interchangeable devices, two of the four
ranges registered through the backend, four ids of `Memory` (enough for two regions
and two hooks before a restore hands the ids out again), two hooks. The calls go to
`Memory` directly (layer "core": every order of map, unmap, clear, snapshot and
restore) or through the backend (map_mmio, the hook calls, serialize_state,
deserialize_state, a new backend that restores an old buffer).
`BoundsNeverHide`: the cached bound never excludes an address of a region.
`RegionIdsUnique`: also after a restore of old ids into a fresh object.
`RestoredDevices`: after a restore an access reaches the device registered last for
the saved range, and is answered only if there is one. `HandlesOwnHooks`: a handle
stands for the hook it was made for, and every installed hook has a handle that can
delete it; the exception (a handle older than a restore) is in section 6.

**decode_cache** (`MCDecodeCache.cfg`). Two mappable pages of two bytes,
two-byte instructions inside a page (fetched by pages) and across two (fetched by
`Memory::read`), two modes, caches of one entry (maximal conflicts), epochs up to 3. One
region at a time, which covers both instructions, with a device that answers everywhere or
only for the first of the two, and the same two images for the process behind a
passthrough; restores bring back any list of regions. `StaleOnlyWhenSuspect`: a usable
entry of either cache is what a fetch with empty caches would deliver, except after one of
the four changes the epoch does not show, and then only until a new epoch begins.
`suspect` is a history variable set by exactly those four: a write cut short;
`deserialize_state`; a passthrough that is installed, removed or answers otherwise; and a
fetch that meets another region than before, none, or another answer of the same device.
Mapping, unmapping, clearing or restoring regions where no code is fetched is not among
them. Fetch hooks come and go, and refuse as they like.

**decode_torn_write** (violation, `MCDecodeTorn.cfg`). The same for a memory of
its own pages, without passthrough, devices and deserialisation: `DecodeFresh` fails,
because `Memory::write` returns at the first missing or protected page, after it stored
the pages before it and before it moves the epoch.

**executor_debug** (`MCExecutorDebug.cfg`). All programs of three instructions,
with no breakpoint, one in the program, or one on the exception handler (entering
it raises the next exception until the stack is used up). No hook retries.
`DebugReasonsAccounted`: a single step or data breakpoint that occurred is in DR6,
pending, or was dropped by a fault in the shadow of an SS load, and nothing is
pending that did not occur. `PendingOnlyInShadow`. `BreakpointsExact`: an execute
breakpoint is reported before its instruction runs, once, and not under RF or in the
shadow of an SS load.

**executor_hooks** (`MCExecutorHooks.cfg`). Programs of two instructions, all
verdicts of fault, trap and instruction hooks, two attempts where the code has
eight. `ViolationIsLastStep`, and the liveness property `StepReturns`.

**executor_rf_retry** (violation, `MCExecutorRfRetry.cfg`). With a fault hook that
retries, `SuppressedStepNoBreakpoint` fails: RF is consumed by the first attempt.

**run_loop** (`MCRunLoop.cfg`). Counts 0, 1, 4, slices of 3, every kind of step
result, a second thread that requests a stop between any two reads of the flag.
`RetiredWithinLimit`, `RunNotifiesOnce`, `StopWithinOneInstruction`, and the
liveness property `StopEndsCall`.

**run_loop_stop** (violation, `MCRunLoopStop.cfg`). `StopPreemptsStart` fails: a
stop that lands between the call of `start` and its `clear_stop_request` is lost.

**hook_registry** (`MCHookRegistry.cfg`) and **access_hooks**
(`MCAccessHooks.cfg`). Up to three (four) hooks, registered, removed and cleared by
the host and from inside callbacks, callbacks that throw. `MutationsTakeEffect` and
`AccessChangesTakeEffect`: the lists with the queued changes applied are what
the changes applied at once would have left. `SummaryCoversHooks`: no hook is
hidden by the summary that opens the fast paths. `WalkedListsStable`,
`WalkedHooksStable`: no vector changes under a loop that walks it. Both runs have
`Depth = 1`: no callback starts another dispatch (see section 6).

**handlers** (`MCMachine.cfg`). 55,573 programs of one to five instructions on
three-bit bytes (operands of 3, 6, 12 and 24 bits), every value of a byte and the
edges of the wider operands, memory operands that are unmapped, read-only, writable
or across two pages of which only the first is writable (after its first byte,
`FirstBytes` = 1, so that operands of every width but a byte are torn), 32 addresses. Three bits are the fewest for which the low half of a byte
(AF), the sign and the carry differ and the shift masks cut below, at and above
the operand's width. Vectors have the real number of bytes (16, 32 and 64) in three
registers, filled with the edges of each lane width in every relative position. x87
programs start with TOP at both ends of the file and inside it, with an empty, nearly
empty, nearly full and full stack, all exceptions masked and none.
`MCScalar` holds the scalar programs, `MCVectors` the vector programs and `MCMachine` the
x87 programs and the instance.

* `ArithmeticExact`, `ShiftsExact`, `MulDivExact`, `BitsAndDigitsExact`,
  `BranchMatchesComparison`, `StackRoundTrip`, `IntegerRegisterRule` and
  `StringOpsExact` compare the handlers with definitions on integers, sets of bit
  positions, decimal numbers and bit strings that share nothing with the formulas of
  the code.
* `RetryIsTransparent`: a program that ran into page faults a hook repaired, or into
  data breakpoints in a REP loop, ends exactly as on a machine where every access was
  allowed. Outside it are the programs that cannot be repeated (`Restartable`): those that
  move a register or set a flag they read before the access that faults, and those that
  store into an operand across two pages what they computed from it, because the retry
  reads what the refused store left there. An instruction that only stores there
  (MOV, STOS) is inside. `FaultFootprint` says what the attempt that faulted
  had already changed when the hook sees it, for every handler, those that cannot be
  repeated included: of memory, at most the low `FirstBytes` bytes of operands across two
  pages, and what stores of the same instruction that succeeded had written.
* `TrapResumes`: where execution goes on after a hooked SYSCALL or INT.
* `VectorsExact`, `VectorDestinationRule`, `VectorRoundTrip`, `StringCompareExact`:
  the lanes; the bytes past the vector, masked lanes and everything an instruction
  may not touch; programs that take a register apart and put it together again
  (interleave and pack, a shuffle and its inverse), which fail when blocks are mixed
  up; string comparisons against sets of matching positions.
* `X87Exact`: sequences of up to three stack instructions leave the stack that a
  reference without TOP, tags or physical registers computes, also around the wrap of
  the file, across masked overflow and underflow, and at an exception that stops a
  program; FIST in every rounding mode, comparisons, unmasked exceptions.
  `X87RoundTrip`: loads and stores, exchanges, FXSAVE and FXRSTOR, moves between MMX and
  vector registers undo each other; FSAVE and FNSTENV where the two orders agree.

`CHECK_DEADLOCK FALSE` is set where a run ends by its bounds (epochs, hook ids) or
by its program (handlers). Executor, run loop and backend runs are checked for
deadlock.

**Fairness.** `StepReturns` assumes weak fairness of the attempts inside a step, and
nothing about the host: once a step has begun, the calling thread goes on with
it. `StopEndsCall` and `StopPreemptsStart` assume weak fairness of the thread inside
`start` or `run`: the operating system schedules it. Neither assumes that any
hook answers in any particular way, that an instruction ends in a particular way,
or that a stop is ever requested.

## 4. Proofs

All are by induction on steps; constants are arbitrary within the named
assumptions of the modules. Eight modules hold theorems. Every safety invariant and the
refinement of a run is proved, except for the `handlers` run, of which
`ArithmeticExact`, `ShiftsExact`, `MulDivExact`, `StackRoundTrip`,
`BranchMatchesComparison` and `IntegerRegisterRule` are.

* **MemoryProofs**, for every number of pages, page size, TLB size, set of objects and
  bound. `TypeCorrect` and `TlbIsCoherent` rest on
  `IInv == TypeOK /\ SlotsCurrent /\ PagesDisjoint`. `TlbCoherent` alone is not
  inductive: a slot of an older epoch is harmless now, but a slot of a *future*
  epoch would come alive at the next flush, so `SlotsCurrent` also says that no
  slot is ahead of `tlb_epoch_`. `PagesDisjoint` holds because `pages_`
  stores its entries by value; the proofs need it said, because a write through one page
  must not change another. The walk of an access over several pages, which
  fills slots as it goes, is a recursive function; the lemma `WalkKeepsSlots`
  carries the invariant through it. `NoWalkWraps` adds `LastFree`: the last page
  is neither mapped nor in a held snapshot, because rounding a range up to it wraps, so a
  walk that would go on at address 0 has failed before (`LastFreeStopsWalk`).
  `MemoryImplementsPageTable` is the refinement, one lemma per operation: the
  initial states map to initial states and `NextRefines` maps every step to a step of
  the page table or to a stutter. It needs `IInv`: a write that goes through the TLB
  is the abstract write only because the slots are coherent, and changes one page
  only because objects are not shared. `NullAssumption` (Null is not a page object)
  is the one assumption it added.
* **ExecutorProofs**, for programs of any length and any retry bound. `StepTypeCorrect`
  and `NoDebugReasonLost` rest on `DInv == ExTypeOK /\ ProgramOK /\ Accounted /\
  ShadowSteps`: what is owed equals what is pending also between attempts, and a single
  step in the shadow of an SS load is already pending. Without the last part the
  instruction after the load could swallow one. `ViolationRecordExact` needs that no
  record is left while attempts go on (`VInv`). `BreakpointsReportedOnce` has the
  hypothesis that no fault hook retries; with one it is false (finding 2).
  `NothingPendingOutsideShadow` has the hypothesis that hooks only let an instruction
  pass, as in the run: a hook that ends a step leaves what was pending pending.
  The module also instantiates `DecodeCache`: `CachesStaleOnlyWhenSuspect`, for every size
  of the two caches, any pages, modes, regions and images (`AddressAssumption`: there is a
  page and it has a byte). `CInv` says more than the property: epochs of entries never exceed `peak`, the
  highest epoch so far, and while nothing is suspect `epoch = peak`. Otherwise an
  entry of an epoch that `deserialize_state` took back could come alive again.
* **RunLoopProofs.** `RunIsBounded`, `OneNotificationPerRun`, `StopIsPrompt`, for any
  counts and slice. `RInv` follows the loop: before an instruction the counter is
  below the limit and bounds what was executed, and an instruction in flight began
  before the request.
* **HookRegistryProofs** and **AccessHooksProofs**, for any number of hooks and waiting
  changes. `NoMutationLost`, `NoAccessChangeLost` and `SummaryAlwaysCovers` hold for any
  nesting of dispatches and with callbacks that throw. The invariants (`RInv`, `HInv`) say
  that the flags or the summary are those of the lists *as they are*, also in the middle
  of a dispatch, when the lists are behind what was asked for; and that the ids that
  wait for removal are below `next_hook_id_`, so that no removal hits a hook added
  later. `WalksNeverDisturbed` and `WalkNeverDisturbed` have the hypotheses of the runs,
  `Depth = 1` and no execution hook that changes the registry; without them both are
  false (section 6). Their invariant `WalkInv` ties the frame on the stack to the
  dispatch flag.
* **BackendProofs**, for any address space, ranges, devices, ids and number of hooks.
  `NoRegionHidden` and `NoIdGivenTwice` rest on `RegionsInv`: ids are distinct also in the
  saved buffer, which outlives the list it was taken from, `next_hook_id_` is past
  the ids of the list, and the bound covers every region. `HandlesStayExact` rests on
  `HandlesInv`: ids in use are below the counter that hands out the next, and two
  handles in use never share one, for each kind of hook (`Owned`). That `nextId` can go
  down in `deserialize_state` is why handles older than it are excepted.
  `RestoredDevicesAnswer` rests on `DevicesInv`: the resolver finds what the host mapped
  last, and the regions are exactly those of the buffer the resolver knows. The
  sort of the snapshot is an insertion, so that it can be shown to lose and duplicate
  no region.
* **OperatorProofs.** `AddCarryExact`, `SubBorrowExact`, `AddOverflowExact`,
  `SubOverflowExact`, `ConditionsMatchComparison`: CF, OF and the conditions are exact for
  every even modulus m, in a container that is as wide or has a bit to spare.
  `AuxCarryExact`, `AuxBorrowExact`: so is AF, for every weight of which m is an even
  multiple; a number splits at the weight in one way, and the bit at the weight of the
  result differs from those of the operands by the carry. This covers
  8, 16, 32 and 64 bits in a 64-bit container, where the `handlers` run has small
  bytes. The module also has the lemmas the others share: smallest and largest
  elements, division, division of signed numbers (`FloorUnique`, `SplitUnique`,
  `TruncatedDivision`: rounding toward zero through magnitudes is what C++ does), and what
  `DropIds` does (its elements, order, composition).
* **HandlerProofs**, for every number of bits in a byte, every memory, and all programs and
  starting machines there are: `ScenariosAssumption` only says that machines are well
  typed and that integer instructions are what the decoder can make. The other assumption
  is `PowersAssumption`, which says what `^` means up to the container, because the provers
  know no exponentiation. From it `Moduli` derives what the proofs need of the operand
  widths: each modulus is even, the square of the one before, and divides the container.
  `ArithmeticIsExact`, `ShiftsAreExact`, `MulDivIsExact`, `PartialRegistersKept` and
  `BranchesFollowComparison` are about programs that fault and are retried, so they need
  to know what a failed attempt leaves. `ProgramInv` (theorem `ProgramsWellFormed`) keeps
  the program and the starting machine as the decoder made them. `FirstInv`
  (`FailedAttemptsHarmless`) says that before each attempt of the first instruction the
  machine *resembles* the start: same registers and RIP, at most other
  permissions, other flags only where an attempt to store into memory may have set
  them, and the same memory, except that of a destination across two pages a refused
  attempt may have stored the first part (`MemoryResembles`). That is not implied by the properties, which look at finished programs only, and
  without it a retry could start anywhere. `SingleInv` (`OneCompleteAttempt`)
  follows: the program ends with one complete attempt on a machine that resembles the
  start. `ResemblingMemory` says when its memory is that of the start exactly: at the first
  attempt, for instructions that do not store what they read, and when no operand lies
  across two pages. This is where the exactness theorems need `Restartable`. `CompareInv` is the same for CMP and its consumer. What one attempt does is a
  lemma per handler (`...Outcome`): it fails and leaves all but the flags and part
  of a torn destination, or it gets
  through with the value and flags the integers give. The flags are those of
  `OperatorProofs` at the moduli of the widths. The halves of a product or of a dividend
  are its residue modulo the square of the modulus; IDIV divides magnitudes; and a
  quotient does not fit exactly if the dividend is at least `limit` divisors long.
  `ShiftsAreExact` is about single bits, (x div 2^j) mod 2, and the handlers compute with
  quotients and products; what connects them is that a number put above k low bits has
  its own bits moved up by k and the low ones below (`AtHigh`, `AtLow`). SAR is a quotient
  of the signed operand, whose sign is a block of ones (`OnesBits`). ROL and ROR place
  two shifts side by side and turn by a count modulo the width (`ResidueShifts`). RCL and
  RCR turn the ring of operand and carry one bit at a time: a recursive function on 0..k,
  with the place of each bit after k turns by induction on k (`TurnsBits`).
  `StackPairsUndo` rests on `StackInv` (theorem `StackStepsOnce`): a program of two stack
  instructions that has not been repaired has executed each of them at most once, the
  second on the machine the first left. A push then moves the pointer down and a pop up
  by the same amount modulo the address space, at every pointer, and the slots of a frame
  do not overlap because the address space has more addresses than a frame has bytes.

Induction over data. The induction theorems of the library take an operator, which the
provers cannot instantiate. `NatsByInduction` and `SeqsByInduction` take the *set* of
the numbers or sequences that have the property instead, and are proved from the
well-foundedness of < on Nat. For a recursive function (`DropIds`, `AfterOps`,
`SortedRegions`) they show that a function with that recursion exists; that it is what
CHOOSE picks gives its equations.

Only model-checked. Liveness (`StepReturns`, `StopEndsCall`, `StopPreemptsStart`) needs
fairness and ENABLED.
The rest of the `handlers` run is stated in `Machine`,
`VectorPrograms` and `X87Programs`, which reach RECURSIVE operators (`StringOps`) and
Bitwise (`BitOps`, `Simd`), so no theorem can stand over them: `BitsAndDigitsExact`,
`RetryIsTransparent`, `FaultFootprint`, `StringOpsExact`, `TrapResumes`, and the vector and
x87 properties. `FailedAttemptsHarmless` is the part of the two about retries that covers
the integer instructions of one access. The type invariants `TypeOK` and `ExTypeOK` are
proved and need no run of their own; `MmioTypeOK`, `DCTypeOK`, `RunTypeOK`,
`RegistryTypeOK` and `AccessHooksTypeOK` document the states of their modules.


## 5. Findings

1. `decode_torn_write`: `memory.cpp:266` against the comment at line 232 that the
   decode cache stays correct.
2. `executor_rf_retry`: `executor.cpp:682`, RF is lost on a retried attempt; the
   repository's RF test covers a step without a fault.
3. `run_loop_stop`: the backend's `start` clears a stop that came just before; its
   comment says that a request can preempt execution.

## 6. Observations

Behaviour met while modelling that contradicts no statement in the repository, or
is outside the properties:

* A callback that starts a dispatch of its own (`Depth = 2`), or an execution hook
  that changes the registry (`Mutators` with "execution"), changes a vector under
  the loop that walks it: the inner dispatch clears `dispatching_hooks_`, and
  execution hooks are walked without setting it.
* A hook that throws leaves `dispatching_hooks_` set; changes stay queued until the
  next dispatch that applies them.
* Deleting a handle that is older than the last `deserialize_state` removes the access
  hook that got the same id since (`lost` in `Backend`). Access hooks are not part of
  a saved state; they are gone after a restore while the executor's hooks stay.
* Mapping a device at a range that is mapped already leaves the older region
  answering until a restore, because `find_mmio_region` takes the first. Of two
  overlapping regions the other one may answer after a restore, because the snapshot
  is sorted by base. No document says which has priority.
* `restore_registers` leaves the opmasks, the SS shadow and the pending debug reasons
  of the running machine in place.
* A syscall hook that wants to go on at the syscall itself cannot say so: RIP one
  instruction before it is, after the adjustment, taken for a hook that left RIP alone.
* A step that gives up after eight retries returns `execution_limit`, which `start(0)`
  takes for the end of a slice: a fault hook that always retries makes it spin until
  a stop.
* EVEX moves and packs do not look at the opmask. VMOVLPS and VMOVLPD loads go to the
  high half. The equal-ordered comparison does not match a needle that runs past the
  end of a full string. A vector operand that straddles pages reports its first
  address, whichever page is missing, and a vector store that fails has stored
  the bytes before. VEX and EVEX SHUFPS and SHUFPD, the other EVEX shuffles and EVEX
  comparisons have handlers that no listed code reaches.
* PUSH, PUSHA, PUSHF, CALL and INT move RSP before the store that may fault, and
  `restart_instruction` does not bring it back; POP m and IRET move RSP before a
  later access. ADC, SBB, RCL and RCR on memory set the flags before the store, so
  that a retry reads the new carry. A read-modify-write instruction (ADD, INC, XADD,
  XCHG, CMPXCHG, SHL, BTS) whose operand lies across two pages has stored the first part
  when the second page refuses, and reads the mixture when it is retried: INC of such an
  operand counts twice in the first part. `Restartable` in `Programs` names all these; they
  are outside `RetryIsTransparent`, which shows that all other modelled handlers
  can be repeated.
* XADD of a register with itself leaves the old value: the handler writes the old value
  over the sum (`xadd.cpp:14`), where the sum should be what remains. The 8-bit MOV to r/m reads
  its destination first, so a write-only page faults on the read. MOV moffs, acc
  loads where it should store. All three are modelled as they are.
* `deserialize_state` replaces the memory by one whose epochs start over while the
  executor keeps its caches. Installing, removing or writing behind a passthrough
  moves no epoch. Neither does `map_mmio`, `unmap_mmio`, `clear_mmio_regions` or a device
  that changes what it answers: code that runs from a region stays cached.
* `read_code_page` does not look at regions: an instruction well inside a mapped page is
  fetched from the page, one near its end from the region that covers it.
* x87: FLDCW and FLDENV refuse, with a page fault, the control word that a reset leaves
  (\h37F has the reserved bit 6). FSAVE and FNSTENV store the tags by physical register,
  FRSTOR and FLDENV take them by the place in the stack, so registers come back rotated
  unless TOP is 0 or all are alike. FSAVE and FNSTENV do not look whether their writes
  succeed, and FRSTOR does not for the registers. FSINCOS and FPTAN have replaced ST(0)
  when they find the stack full. FFREEP ST(0) always underflows. FLD from memory onto a
  full stack reports Invalid without a stack fault, FLD ST(i) a page fault, and it
  copies an empty register. FSUBR, FPREM and FSQRT report Precision for exact results.
  FYL2X with a masked invalid operand does not pop. FNCLEX leaves the stack fault bit.
  MMX registers are apart from the x87 registers. FXRSTOR clears the upper halves of
  the vector registers. All are modelled as they are.
* A far call pushes in an order RETF does not pop in (not modelled).

## 7. Plan

Modelled, in this order: Mmio, Memory and PageTable, DecodeCache, Executor, RunLoop,
HookRegistry, AccessHooks, the scalar handlers, bit manipulation and decimal adjusts,
the vector handlers, x87 and MMX, trap hooks, the backend's devices and handles. Proved:
Memory and its refinement, DecodeCache, Executor, RunLoop, HookRegistry, AccessHooks,
Mmio, Backend, the flag helpers and the integer handlers.

What is left to prove, in the modules there are: the remaining type invariants (`MmioTypeOK`,
`RegistryTypeOK`, `AccessHooksTypeOK`, `DCTypeOK`, `RunTypeOK`) from the invariants above;
that `SortedRegions` sorts; the x87 stack (a push and a pop undo each other for every TOP).


## 8. Not modelled

* Floating point in vector registers: `simd_fp.cpp` is an IEEE data path without state of
  its own, out of a model checker's reach. Of x87: the values of libm functions, rounding
  to the precision of 80 bits, denormals, the sign of zero and MXCSR. PMOVMSKB and
  MOVMSKPD collect more bits than a register of three-bit bytes holds.
* `uint_wide.h`, a vendored wide integer; the decoder (external); statistics and stderr
  tracing; MSR, CPUID and RDTSC values; examples and tests, which serve as
  documentation of what the code promises.
* Far CALL, JMP and RETF, SYSRET, SYSENTER, error codes and 16- and 32-bit interrupt
  frames, CMPXCHG16B: they depend on descriptor tables and modes that `Cpu` does not
  have. Legacy MOVHPS and MOVHPD loads: their operands depend on the decoder.
* In the backend: register access, the contents of `save_registers`, basic block
  summaries, the classification of violations, the trace hooks, the invalid-opcode
  hook.
