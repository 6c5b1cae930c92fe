# A TLA+ model of the GNU Common Lisp kernel

GCL is a Common Lisp whose kernel is some 60,000 lines of C (`src/gcl/o`, `src/gcl/h`)
under a library and a compiler written in Lisp (`src/gcl/lsp`, `src/gcl/cmpnew`).  It runs one
thread.  What makes it hard is that signal handlers run *Lisp code* on top of whatever that
thread was doing: handlers allocate, collect garbage, open their own critical regions, are
interrupted in turn, and leave by `throw`.  The model starts there, and goes on to the data
structures such handlers may catch half-made.

Paths below are relative to `src/gcl`.

## Inventory

| Component | State | Operations | Interacts with |
|---|---|---|---|
| Signal delivery (`o/usig.c`, `o/usig2.c`, `h/object.h`) | `signals_allowed`, `signals_pending`, `in_signal_handler`, the kernel's mask and alarm, the C stack | `main_signal_handler`, `invoke_handler`, `raise_pending_signals`, `BEGIN_NO_INTERRUPT`, `END_NO_INTERRUPT`, `CHECK_INTERRUPT` | interrupts everything; raised by the allocator; reset by `unwind` |
| Frame and binding stacks (`o/frame.c`, `o/catch.c`, `o/bds.c`) | frame stack, `nlj_active`, special bindings | catch, unwind-protect, throw, dynamic binding | saves and restores `in_signal_handler`, resets `signals_allowed` |
| Hash tables (`o/hash.d`, `lsp/gcl_hash.lsp`) | slots, size, entry count, limits | make, gethash, hash-set, remhash, clrhash, maphash, extension | keys' hash codes; allocation of the new body |
| Allocator (`o/alloc.c`) | type managers, free lists, page table, hole, contiguous blocks | `alloc_mem`, `add_pages`, `malloc`, `set_tm_maxpage` | runs pending handlers; calls the collector |
| Collector (`o/gbc.c`, `o/sgbc.c`) | mark bits, page types, write-protected pages | `GBC`, `sgc_start`, `sgc_quit`, the fault handler | must not move blocks in a handler |
| Fast links (`o/funlink.c`) | link words, link array | `call_proc`, `use-fast-links`, redefinition | function cells |
| Packages (`o/package.d`, `o/symbol.d`) | symbol tables, use lists | intern, export, unintern, use-package, gentemp | critical regions that allocate |
| Arrays (`o/array.c`) | displacement lists | make, adjust, displace | relocation by the collector |
| Reader, printer, streams, pathnames, numbers, sequences, evaluator, loader, compiler, Lisp library, vendored systems | | | see `PROJECT.json` for the reason each is left out |

### What is hard

* **Interleaving.**  A signal is delivered between any two C instructions; a handler's own
  activation can be interrupted, and its after-part may never run because it throws.
* **Stale copies.**  `raise_pending_signals` works from a copy of `signals_pending`; `listqA`,
  `vpush_extend`, `hash-set` and `maphash` read a word, call something that may run a handler or
  Lisp code, and use the word.
* **Regions that leak.**  A no-interrupt region keeps the outer level in a C local; leaving it
  other than by its end loses that value.
* **Delay and retry.**  A signal that arrives at a bad moment is a bit plus `alarm(1)`.
* **Edges.**  Tables of size 0, thresholds of 0 and 1, one free slot left, a removed slot that
  must not look like an unused one.

What makes each component correct:

* *signals*: levels and flags return to their base values after any mixture of returns and
  throws; a delayed signal reaches its handler; no relocation while a handler runs at a random
  instruction;
* *hash tables*: a finite map, whatever the sizes; the probing invariant the source calls
  "Condition 3"; an exact count; a free slot for every store; a walk that sees every entry;
* *allocator*: a cell is free, or being handed out, or in use; a handler never hands out a cell that the
  code it interrupted has read;
* *collectors*: only what the program cannot reach is taken back, with the stratified collector on or
  off; each free cell is on one list;
* *control*: the frame stack, the bind stack and the forms being evaluated agree however a form is
  left; cleanup forms run once; bindings are undone with the frames passed;
* *packages*: a name means one symbol in a package, and goes on meaning it unless the program asks
  otherwise; use lists and used-by lists mirror each other;
* *links, arrays* (not modelled): a link calls the function's current definition; displaced bodies
  follow their target.

## Modules

| Module | Models |
|---|---|
| `Interrupts` | signal delivery, regions, frames and throws |
| `MCInterrupts`, `InterruptsProofs` | its constants for TLC with a documented sentence the code breaks; its proofs |
| `Arena` | a free list, the sweep that refills it, and handlers between the allocator's instructions |
| `MCArena`, `ArenaProofs` | constants; proofs |
| `Heap` | what a collector promises: only unreachable cells disappear |
| `Collector` | the full and the stratified collector, with the write barrier; states that it implements `Heap` |
| `MCCollector`, `CollectorProofs` | constants; proofs, the refinement among them |
| `Control` | the frame stack, the bind stack, jumps, unwind-protect, and handlers |
| `MCControl`, `ControlProofs` | constants; proofs |
| `StackTheorems` | lemmas about stacks and about least and greatest numbers, used by two proof modules |
| `Package` | symbol tables, shadowing lists, use lists and the operations on them |
| `MCPackage`, `PackageProofs` | constants; proofs |
| `KeyedMap` | what a hash table promises: a finite map and the answers of its calls |
| `HashTable` | the table as implemented; states that it implements `KeyedMap` |
| `MCHashTable`, `HashTableProofs` | constants with two documented sentences the code breaks; proofs |

Three constants name what the code leaves open, so that what holds without it can be checked and proved,
and what fails with it can be shown by giving the constant another value:

* `Windows` in `Arena`.  `"inSafe"`: a signal at an instruction of a handler that runs at `sig_safe`.
  SIGUSR1's and SIGIO's handlers stay at the level they were invoked at, and `before_interrupt` saves
  nothing at `sig_safe` (`o/usig2.c:201`): with this window `NoCellTwice` fails in eleven steps.
  `"list"`: the handlers that `CHECK_INTERRUPT` runs inside `listqA` after it has read `tm_free`
  (`o/list.d:105-109`), and `"count"`: a handler between `tm_free = OBJ_LINK(p)` and `tm_nfree--`,
  whose throw leaves the count too large: with either `RunFits` fails.  `"tested"`: a handler between
  `listqA`'s test of `tm_nfree` and its region: while it runs two cells are saved and the rest may be taken, so
  that `RunFits` fails for a run of three.  `"count"` and `"tested"` hurt nothing but `RunFits`: the other
  properties are proved with both open.
* `Windows` in `Control`.  `"landing"`: a handler between the `longjmp` of `unwind` and the target's
  `nlj_active = FALSE`: a form it enters takes itself for the target, and `Quiet` and
  `HandlersBalanced` fail.  `"binding"`: a
  handler in `bds_bind` between the increment of `bds_top` and the filling of the slot: `BindingsUndone` fails,
  against the macro's comment (run `control_binding`); nothing else does, which is proved.
* `Slips` in `Package`.  `"unexport"`: unexporting a symbol that is not external (the test is commented out,
  `o/package.d:633`) makes a second internal copy, and `PresentOnce` fails although
  `info/chap-11.texi:1658` on says the call has no effect.  `"shadow"`: `shadow` of a symbol whose home is
  another package or of a string puts the argument itself on the shadowing list; `"make"`:
  `make-package` does not test the packages it is to use against each other, nor for KEYWORD, so that `Mirrored`
  fails too.  `NoConflict` and `LookupDetermined` fail with either; `PackageProofs` says what survives which.

### Interrupts

The C stack is a sequence of records, bottom first.  A `frame` is an entry of the frame stack
with the `in_signal_handler` it saved; a `region` or `read` is a dynamic extent that holds the
old `signals_allowed` in a local; `main`, `invoke` and `raise` are activations of
`main_signal_handler`, `invoke_handler` and `raise_pending_signals` with a program counter.
`Deliver(s)` pushes a `main` on *whatever* is on top, so handlers nest in all ways the mask
permits.  `Throw(i)` cuts the stack back to frame `i`, as `longjmp` does, and sets what `unwind`
sets; like `unwind`, it does not touch the signal mask.  Each action is one read or write of a
shared variable, or several that no handler can tell apart.

`before_interrupt` and `after_interrupt` are one step each here and what they save is left
out; `signals_pending |= m` is atomic.  SIGUSR2, SIGFPE and SIGPIPE are left out:
the first has no handler installed, the other two are delivered by the program's own actions.

History variables: `sent` bounds the signals from outside, `owed` is the set of signals whose
handler has not started since they were last sent.

### Arena

One type manager: `head`, `nfree`, `npage` are `tm_free`, `tm_nfree`, `tm_npage`, `link` and `isFree` are the
headers of the cells.  `stack` holds the program and the handlers on top of each other, each with its
program counter and the C locals of `alloc_from_freelist` (`p`, and `tem`, the link it has read) or of `listqA`
(`p` for `tail`, `n`), and with what `before_interrupt` saved for it.  `Take`, `Next1`, `Store`, `Count` and
`Fill` are the instructions of one allocation; `Interrupt` may come between any two.  `Collect` and `Grow` are
the two ways `alloc_mem` refills an empty list, with the order in which `sweep_phase` and
`add_page_to_freelist` chain the cells; `Held` is what the scan of the C stack finds of the saved cells.
`HandlerReturn` is `after_interrupt`, which throws the list of the handler away when it has saved fewer than
two cells; `Throw` is a jump out of any number of handlers, after which the saved cells are nobody's until
the next collection.

### Collector

A cell has one pointer, which stands for its contents.  Free lists are sets here: their order is `Arena`'s
subject.  `sgc_start` (`StartedWith`) picks pages with enough free cells, puts the other free cells aside
(`altFree`, `tm_alt_free`), protects every other page and forgets what was recent; `Link` is a store, whose
fault handler makes the page writable (`Touched`); `GbcOfSgc` marks from the roots and from the old cells of
writable pages and sweeps recent cells only; `GbcOfOthers` is the collection for a type outside SGC: it quits,
collects everything and starts again.  The refinement mapping to `Heap` is direct: used cells, roots, and the
pointers of used cells.

### Control

`code` is the C stack as a sequence of activations: forms (`catch` stands for `block` too, `tagbody`,
`errset`, `protect`, `let`) and handlers, each with how far it is.  `frs` is the frame stack up to `frs_top`, a
frame remembering which activation's `setjmp` it belongs to, `bds_top` and `in_signal_handler`.  `bds` keeps
the slots *above* `bds_top` as well: what earlier bindings left there matters.  `Unwind` is `unwind`: it looks for
the next frame that is the target or not a plain catch, undoes the bindings above it and jumps; the code after
a `setjmp` is `Begin` or `LandActive`, `Land`, `LandTagbody`, `LandProtect`, according to `nlj_active` and the
kind.  `bds_bind` is three steps (`Bind`, `BindSlot`, `BindValue`), `bds_unwind1` two.  A handler saves and clears
`nlj_active`, and what it saved is put back when it returns but not when it throws.

### Package

Tables and shadowing lists are bags of symbols, because the code conses and deletes without looking.  Each
operation is split by its outcome: `ShadowingPresent`, `ShadowingReplace` and `ShadowingAdd` are the branches of
`shadowing-import`, and so on.  A refused call changes nothing, and is no step.  `Find` follows the order in which
`find_symbol` looks: internal, external, inherited.

### HashTable

One slot per index with a key and a value, `Never` standing for a slot holding OBJNULL twice, and
`Freed` for one whose key was removed.  The probe loop of `gethash` is a set of distances
(`Reached`) and the choice of the least hit or free one.  The extension is not atomic: after
`PutGrow` sets the new size and an empty body, `CopySlot` moves one old slot at a time, and
`PutGrown` ends it and stores the new entry; the invariants hold at each turn.  Sizes are
computed as the code computes them, in integers: the inputs are small binary fractions, for which
the floating-point sums are exact (0.7 is taken as 7/10, and the code's single float rounds
to the same limits at the sizes used).  A walk is `WalkStart`, `WalkNext`, `WalkEnd`, with every other
operation possible between two `WalkNext` -- as part of the function `maphash` calls -- and
`WalkThrow`.  The walk's record carries what was in the table at its start and how often each key
was handed out, until the function does something `maphash` does not permit.

The hash function is a constant per behaviour: any function from keys to codes, for an
arbitrary test.  `KeyedMap` is the abstract specification; the refinement mapping takes the
entries of the old body while a copy is under way.

## Runs

| Run | Checks | Bounds |
|---|---|---|
| `interrupts_ctrl_c` | `LevelAtBase`, `InterruptNotLost`, `RetryArmed`, `InterruptServed`, `SignalsTransparent` | SIGINT and SIGALRM; 2 interrupts sent, stack 14 deep, 2 frames/regions/reads at once |
| `interrupts_user` | `TypeOK`, `HandlerFlag`, `LostOnlyByThrow` | SIGUSR1 as well, colliding names in GENTEMP; stack 9 deep |
| `interrupts_gentemp` | `LevelAtBase` is violated | names may collide |
| `interrupts_none` | `NoHandlerAtNone` is violated | an allocation in a region |
| `arena` | `TypeOK`, `NoCellTwice`, `SavedKept`, `PopUndisturbed`, `RunFits`, `ContentsKept` | 3 pages of a cell, added one at a time, 2 handlers on top of each other, lists of up to 3 cells; 260,000 states |
| `collector` | `TypeOK`, `ListsApart`, `BarrierHolds`, `NoDangling`, `ImplementsHeap` | 4 cells on a page of conses and one of structures, a page of a type outside SGC, one free cell is enough for a page to be chosen; 128,000 states |
| `control` | `TypeOK`, `FramesMatch`, `TargetStands`, `Quiet`, `CleanupsRun`, `BindingsUndone`, `HandlersBalanced` | 2 tags, a symbol with 2 values, 5 activations, 2 bindings; 1.9 million states |
| `control_binding` | `BindingsUndone` is violated | the same, with the window in `bds_bind` |
| `package` | `TypeOK`, `PresentOnce`, `ShadowingsPresent`, `NoConflict`, `LookupDetermined`, `Mirrored`, `HomeKnows`, `SameSymbol` | 3 packages, one of which may be KEYWORD, 2 symbols of one name, at most 2 copies of a symbol in a bag; 46,000 states |
| `hash` | `TypeOK`, `ConditionThree`, `CountExact`, `SetHasRoom`, `ActsAsMap`, `WalkVisitsAll` | 3 keys, 2 values, all hash functions onto {0, 5}, 3 kinds of table, sizes to 9 |
| `hash_full` | `NeverFull` is violated | a table made with `:size 0` |
| `hash_maphash` | `WalkMayUpdate` is violated | a table made with `:size 4` |

A stack of depth 14 holds a handler of SIGINT on top of one of SIGALRM on top of a raise in a
region, with room for the frames they throw to: every pair of activations meets in every order.
Two signals are enough for one to arrive at each step of the other's delivery.  In `hash`, code 5
takes the residues 0, 1, 2, 1, 0, 5, 5 modulo 1 to 7, so that keys collide, wrap around the end
and change their order as the table grows; the tables start at sizes 0, 1 and 2 with
thresholds at the edges (a ratio, 1.0, the size itself), where the entry limit is 0 or
exceeds the size, and grow several times before `MaxSize` stops them.  Keys and values are
symmetric because the set of hash functions is closed under renaming keys.

In `arena`, `before_interrupt` takes two cells away, so that three are the fewest with which the list goes on
behind them; a list of 3 is longer than what is saved; two handlers are the fewest with which one interrupts
the other while cells are saved twice; pages of one cell let every refill, with any number of cells held, go
either way (with two pages of two cells TLC finds 3.4 million states and no error, in several minutes).  In
`collector`, two conses and two structures let an old cell of each kind point to a recent one of the other, and
the page without room makes the collection that suspends SGC happen.  In `control`, five activations hold a
target, an unwind-protect between, a binding, a handler and the form that handler enters; two values are the
least for which an undone binding differs from one that is not.  In `package`, conflicts involve one package
using two others and one name meaning two symbols; a third symbol of the name or a second name adds nothing,
because the operations look at one name at a time and compare two symbols.

What the violation runs show is in `PROJECT.json` under `findings`.

### Fairness

`InterruptServed` is checked under `Fairness`: the C code of signal delivery runs on
(`WF(Delivery)`), and is not held up for ever by the retrying alarm, whose period is a second
(`SF(Progress)`); no-interrupt regions end; the kernel delivers a signal that stays
deliverable; and the timer, which is not synchronised with the program, does not find it inside a
region every time.  Nothing is assumed of Lisp code, which may loop without allocating, read, or stay in
a break loop for ever: the alarm alone must serve the interrupt.  The property excuses one situation,
`AlarmMasked`: another handler took over between the kernel's entry into SIGALRM's handler and the
handler's unblocking of it, and then called Lisp or threw; SIGALRM then stays masked.

## Proofs

`InterruptsProofs`, for any set of signals, number of signals sent and depth of the stack:

- `TypesHold`: `TypeOK`.
- `HandlerFlagHolds`: `HandlerFlag`.  It is not inductive: a throw sets the flag from the frame
  it lands on, and a handler that returns from the copy it made, so what frames and handlers *saved*
  must agree with what is below them.  `FlagInv` says that of every position of the stack, and each
  push, return and throw preserves it.
- `LevelRestored`: `LevelAtBase`, under the hypothesis `Collisions = {FALSE}`, which is what the
  run `interrupts_gentemp` shows to be necessary.  `LevelInv` says that an activation with nothing
  below it but frames and signal handlers that have yet to call Lisp saved a normal level, so that undoing
  the stack by returns or throws in any order puts a normal level back.
- `InterruptKept`: `InterruptNotLost`, under the hypothesis `UserSignals = {}`.  `KeptInv` says that
  an interrupt which no bit remembers is carried by an activation above which nothing runs Lisp or has come from
  SIGINT's handler: the activations above it are the alarm's, which cannot throw, so no throw discards it.
- `HandlersTransparent`: `SignalsTransparent`, without a hypothesis.  Code that was interrupted by
  `main_signal_handler` or `raise_pending_signals` and is resumed finds the level it had: what it *will* find
  is in `signals_allowed` or in the lowest activation above it that puts a level back, and every step keeps
  that.  `NestInv` says that on top of a `main_signal_handler` that has not called its handler there are only
  others like it, up to one that has: the level such an activation reads is the one it interrupted.
- `LostByThrowOnly`: `LostOnlyByThrow`, without a hypothesis: with a user's signals an interrupt can be lost,
  and this is the exact way it is.  The proof follows the carrier of a signal through every step: the
  entry, the bit, the copy, the call.  Its only invariant is `OwedInv`: the alarm is not sent from outside.
- `RetryAlwaysArmed`: `RetryArmed`, the safety half of `InterruptServed`, under `UserSignals = {}`.  `RetryInv`
  adds to it that the activation about to arm or to retry stands where no throw reaches it.

`ArenaProofs`, for any number of cells, pages, handlers and list lengths: every property of the run `arena`,
`RunFits` under the hypothesis `Windows = {}` and the others under `Windows \subseteq {"count", "tested"}`.  The free list is defined without recursion, as the least set that
contains the head and is closed under the links, and `Good` says that no two of its cells link to the same
one; `ListPop`, `ListPush`, `ListFrame`, `ListSet` and `WalkOnList` say what taking, putting back, writing elsewhere,
refilling and walking do to it.  The invariant has four parts besides the types.  `ListInv`: the list is free
cells, and `tm_nfree` counts them.  `OwnerInv`: cells taken and cells saved belong to one activation.  `RestInv`: each
interrupted activation has read what the handler above it saved, so that what it read is true again once that
handler has returned, whatever handlers above that one did; this is the reason for taking *two* cells away.
`ReadInv`: the activation that runs has read the list as it is.  The
count is exact when `Windows = {}`, which only `RunFits` needs.  `ContentsKeptHolds` follows from
the invariant step by step: every write of a link goes to a cell that is not in use.

`CollectorProofs`, for any cells, pages, types and roots: every property of the run `collector`.  The four
invariants together are inductive.  `BarrierHolds` is the one that carries the stratified collector: a
protected page does not point to a cell that the next collection could take.  From it the marks of a
collection that sees writable pages only cover what the roots reach among the cells it sweeps, which is also
what `CollectorsImplementHeap` needs of each step of `GbcOfSgc`.

`ControlProofs`, for any tags, symbols, values and depths: every property of the run `control`,
`BindingsUndone` under the hypothesis `Windows = {}`, which `control_binding` shows to be necessary, and the
others under `"landing" \notin Windows`: handlers may run inside `bds_bind` too.  `FrameInv` says that the frames are those of the forms whose body runs, in order (`FramesMatch`), and
that a jump's target is among them (`TargetStands`).  `BindInv` says that there is a bind-stack depth for each
activation, growing with the code, such that frames have saved the depth of their activation and
each let's slot holds what the let found: so that undoing the slots down to a frame's depth undoes
exactly the lets above it.  `SlotInv` says that a slot that names a symbol holds a value, even one half filled, so
that undoing it is well typed.  `CleanupsCorrect`, `BindingsCorrect` and `HandlersCorrect` are action properties
that follow from these; the last says that a handler which returns, rather than throws, has left the bind
stack, the frame stack and the jump flag as it found them.

`PackageProofs`, for any packages, symbols and names: every property of the run `package`, each under what it
needs of the callers.

| Theorem | Hypothesis |
|---|---|
| `TypeCorrect` | none |
| `PresentOnceCorrect`, `HomesCorrect` | `"unexport" \notin Slips` |
| `ShadowingsCorrect` | `Slips \subseteq {"make"}` |
| `MirroredCorrect` | `"make" \notin Slips` |
| `NoConflictCorrect`, `LookupCorrect`, `MeaningStays` | `Slips = {}` |

An operation changes one package's tables in one name; `Focused` says what such a change has to respect, and the
lemmas on it show once that nothing else is disturbed.  `HomePresent`, `UnmadeEmpty` and `NoSelfUse` are the
strengthening that makes the invariants inductive.  `OnceInv`, which is `TypeOK`, `PresentOnce` and `HomePresent`, is
inductive by itself, whatever the lists of packages are: `Settles` says what a step that settles who has
a name in one package leaves, and each operation on symbols is shown to settle or to touch no table.
`LookupCorrect` is also why `Find` may be written with `CHOOSE`: the cases in which the order of a list would
decide are the ones that `NoConflict` excludes.

`HashTableProofs`, for any keys, values, hash functions, and sizes, rehash sizes and thresholds that
satisfy `TablesAssumption` (what `MAKE-HASH-TABLE-INT` accepts): every property that the run
`hash` checks.  `TableInv` is the inductive invariant, a conjunction of named parts.

- `Shape` and `LimitInv` are arithmetic: `LimitsAfter` shows that an extension always enlarges
  the table and that its new limit stays below the new size, `Rounded` bounds the rounded thresholds.
- `ConditionThree` is inductive by itself given `Shape`; its lemmas rest on `Probing`: the probe of
  a key visits every slot exactly once.  This is why a body with a free slot has room for any
  key (`RoomIfNotFull`) and why a key has one slot at most (`OneSlot`).
- `CopyInv` says what the two bodies have to do with each other during an extension: without it a
  turn of the copying loop could overwrite an entry instead of adding one.
- `CountInv` extends `CountExact` to the two bodies; with `LimitInv` it leaves a free slot, `SetHasRoom`.
- `WalkInv` says that the walk has still to reach what it has not handed out.
- `TableIsMap`: `Init` implies `KeyedMap`'s, and a step from a state of `TableInv` to another is a step
  of `KeyedMap` or leaves the map and the reply alone (`MapStep`); the steps of a copy are the latter.

The theorems named are listed in `PROJECT.json`; `FiniteSetTheorems` gives the facts about cardinality
and `WellFoundedInduction` the least element of a set of distances.

## Only model-checked

`InterruptServed`: liveness is outside the prover's reach.  `RetryAlwaysArmed` proves the invariant it rests on: the
retry is always on its way; that it arrives is the fairness.  Every other property of a passing run is stated by a theorem.
The hypothesis of `InterruptKept` is needed: with a user's signal `InterruptNotLost` does not hold: at a read, SIGUSR1's handler may
run on top of SIGINT's `main_signal_handler` before that has looked at the level, and a throw
out of it discards the interrupt (`o/usig2.c:134` calls the place safe).

## Not modelled

`PROJECT.json` gives the reason for each component that is left out.  Most of the repository's 1.4 million lines are
vendored tools (binutils, gmp, the X and Tk interfaces), C generated from Lisp, and a compiler and a library that
are functions of their input.  Of the kernel, the model takes what depends on order, interruption and
history.  Within what is modelled:

* *Arena*: contiguous and relocatable blocks, the hole, `malloc`, `set_tm_maxpage`; one type only.
* *Collector*: blocks; pages that are always writable; the parameter that lets pages without free
  cells be chosen; the cells `sgc_start` allocates itself.
* *Control*: `lex_env` and `ihs_top`, which are saved and restored as `bds_top` is; overflows of the stacks; the
  instructions inside `frs_push`.
* *Package*: names and nicknames of packages, `rename-package`, `in-package`, the sizes and rehashing of the tables,
  handlers inside `intern`, duplicates in a `:use` list, a `make-package` that is given up halfway, a
  refused call that is started again with new input, operations on a deleted package.
* *Interrupts*: see its section; *HashTable*: handlers inside an extension or inside `hash-set`.

## What is left

In order of what it would add:

1. `HashTable` under `Interrupts`: a handler between the steps of `hash-set` and of the extension; `intern` likewise.
2. `FastLink`: links call the current definition; the link array's fill pointer over `alloc_relblock`.
3. `Pages` and `Contblock`: hole, reserve and page limits; contiguous blocks never overlap.
4. `Displace`: displaced arrays after `adjust-array`.
5. `sgc_start` step by step, with its own allocations.
