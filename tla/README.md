# Derivgrind in TLA+

Derivgrind is a Valgrind tool that adds algorithmic differentiation to compiled
programs.  It instruments the program under test so that, next to every
floating-point value, a *shadow* is computed: in forward mode the dot value, in
recording mode the index of the operation on a *tape*, in the bit-trick finder
two flags.  After a recording run, the separate program `tape-evaluation` walks
through the tape to obtain derivatives.

This directory models the parts of Derivgrind whose correctness depends on
state: the tape and everything that writes to it, the shadow statements that
carry indices and dot values through a program, the client code that issues requests (math
wrappers and macros), the handlers of bitwise operations in all three modes, the
evaluation of the tape, the shadow memory, and the difference quotient debugging
files.  Paths below are relative to the repository's directory `derivgrind/`,
which is Derivgrind proper; the rest of the repository is Valgrind and VEX.  Of these
the models only use the meaning of VEX expressions and operations (`VEX/pub/libvex_ir.h`);
the library flexible-shadow is external.  The definitions listed in `PROJECT.json`
cover about a third of the lines of `derivgrind/`, and next to nothing of the
whole repository.

## 1. Inventory

| component | state | operations | interacts with |
|---|---|---|---|
| tape, `bar/dg_bar_tape.c` | `nextindex`, buffers of `BUFSIZE` blocks and values, files `dg-tape`, `dg-values`, `dg-input-indices`, `dg-output-indices` | initialise, `tapeAddStatement(_noActivityAnalysis)`, `valuesAddStatement`, finalise; calls the debugger at `--record-stop` indices | called by instrumented statements, client requests, monitor commands |
| recording mode, `bar/dg_bar.c` | two shadow layers Lo and Hi of every register, temporary and memory byte | `dg_bar_writeToTape` after each operation, copies, defaults | tape, shadow memory |
| bitwise handlers, `bar/dg_bar_bitwise.c`, `dot/dg_dot_bitwise.c` | static result variables | AND, OR, XOR on indices or dot values; recognise sign tricks | tape |
| client requests, monitor commands, `dg_main.c`, `derivgrind.h` | `dg_disable[tid]` | get and set shadows, new index, index to file, `DG_DISABLE`, `mark` | tape, shadow memory |
| shadow memory, `bar/dg_bar_shadow.cpp`, `dot/dg_dot_shadow.cpp` | tree of leaves, distinguished leaf | Get, Set, Init | library flexible-shadow (external) |
| statement instrumentation, `dg_expressionhandling.c` | shadow temporaries | one shadow statement per VEX statement; CAS, guarded loads and stores, dirty calls | all modes |
| forward mode, `dot/dg_dot.c`, `dot/dg_dot_minmax.c` | one shadow layer of dot values | one shadow statement per statement, derivative rules | shadow memory |
| difference quotient debugging, `dot/dg_dot_diffquotdebug.c` | two buffers, two files, counter | initialise, add, finalise | forward mode, `dg_disable` |
| bit-trick finder, `trick/` | activity and discreteness flags, in the same two layers | propagation, warnings | shadow memory |
| tape evaluation, `eval/` | derivative vector, chunk buffer | forward, backward, stats, typegrind, text files | reads the files of the recording |
| client macros, `derivgrind-recording.h`, `derivgrind.h` | `dg_indextmp`, `dg_indextmp2`, `dg_valtmp`, `tbi`, once per translation unit | `DG_INPUTF`, `DG_OUTPUTF` | client requests |
| math wrappers, generated by `gen_replace_math.py` | locals of a call | call the original inside a `DG_DISABLE` bracket, record the call as one statement | client requests |
| language wrappers, `wrappers/` | temporary directories | run Derivgrind as a subprocess | files of recording and evaluation |
| operation handling, `gen_operationhandling_code.py` | none | emits the derivative rules of all modes | all modes |

What is hard about this system:

- **Interleavings.**  Valgrind serialises threads, but statements of different
  threads share the tape, while `DG_DISABLE` is a counter per thread.  A wrapper
  or macro is a sequence of requests, and each request ends a superblock.
- **Re-entrance.**  `tapeAddStatement_noActivityAnalysis` calls the debugger
  between the store of a block and the increment of `nextindex`; a monitor
  command given there calls the same function again.
- **Buffers at their limit.**  Tape, values and difference quotient buffers are
  flushed by modular conditions evaluated at different moments.
- **Data that travels.**  An index is written to the shadow as two halves, is
  copied around, and becomes an operand much later.  The tape is only useful if
  all of them still refer to earlier blocks.
- **Boundaries.**  Chunked traversal with unsigned arithmetic, empty tapes,
  ranges that cross shadow leaves.

Correctness, per component: the block under an index is the block of the
statement that was given the index; operands precede results; the files fit
together; a killed recording leaves a prefix; the evaluation visits each block
once and in order and computes the chain rule; shadow memory behaves as a flat
array; the instrumented program computes what the original one does, and the
shadow of a value is the index of the operation that computed it; sign tricks get
the derivative of the arithmetic operation they stand for, and the bit-trick
finder warns of all others; a call of a math function becomes one statement on its
own arguments and nothing inside is recorded; a macro declares the variable it was
given; debugging files hold one entry per result.

## 2. Modules

| module | models | state and actions |
|---|---|---|
| `Tape` | `bar/dg_bar_tape.c` | `nextindex`, `buffer_tape`, `buffer_values`, `dg_tape`, `dg_values`, `recording` carry the names of the code.  The first half of `tapeAddStatement_noActivityAnalysis` is `Stored`, the second `AdvanceIndex` |
| `Recording` | `dg_main.c` requests and monitor commands, `bar/dg_bar.c` statements, composed with `Tape` | one action per statement kind, client request and monitor command.  `frames` is the stack of calls interrupted by the debugger; `log` is a history variable |
| `ClientCode` | the wrappers of `gen_replace_math.py`, the macros of `derivgrind-recording.h`, brackets and thread ends | extends `Recording`: `pc[t]` is the next request of thread `t`, `call[t]` its call; each action is one request or statement of `Recording` |
| `TapeLog` | what the tape promises | an append-only sequence of blocks, of which the file holds a prefix |
| `RecordingProofs` | | proofs about `Recording`; it implements `TapeLog` |
| `ModLemmas` | | quotients and remainders, induction over intervals, and the functions defined by it |
| `ClientProofs` | | `ClientCode` implements `Recording`; brackets, calls and macros |
| `StatementProofs` | | proofs about `ShadowStatements` and `TaggedProgram` |
| `TapeEvaluation` | `eval/` | `pc` marks the phases of `main`; one step loads a chunk or visits a block |
| `EvaluationProofs` | | traversal, chain rule and statistics of `TapeEvaluation` |
| `ShadowMemory` | both shadow files | one step is one call of the recursive Get or Set |
| `FlatShadow` | what shadow memory promises | one array per layer |
| `ShadowProofs` | | `ShadowMemory` implements `FlatShadow` |
| `ShadowStatements` | `dg_expressionhandling.c`, `dg_original_statement`, the functions of `bar/dg_bar.c` | `tmp` and `guest` hold originals and shadows at the offsets of the code, `shadow` the two layers of shadow memory.  One action per kind of statement does the shadow statements and the original one |
| `TaggedProgram` | what the instrumentation promises | the same statements on cells that hold a value and an index |
| `ForwardStatements` | `dot/dg_dot.c`, `dot/dg_dot_minmax.c`, the same statements in forward mode | extends `ShadowStatements`: `dot_tmp`, `dot_guest` and `dot_shadow` hold the one layer of dot values.  One action does a statement in both modes; the history `derivative` is a forward evaluation of the tape, block by block |
| `ForwardProofs` | | both modes agree; extends `StatementProofs` |
| `BitwiseHandlers` | `bar/dg_bar_bitwise.c`, `dot/dg_dot_bitwise.c` | variables with bits, dot value and indices; `out` is `dg_bar_bitwise_out`.  One action is one operation of the program, handled in both modes |
| `TrickFinder` | `trick/dg_trick.c`, `trick/dg_trick_bitwise.c`, `trick/dg_trick_operations.c` as generated | extends `BitwiseHandlers`: `flags` per variable, `warned`.  One action is one operation, handled in all three modes at once |
| `TrickProofs` | | proofs about `BitwiseHandlers` and `TrickFinder` |
| `DiffQuotDebug` | `dot/dg_dot_diffquotdebug.c` | the counter, two buffers and two files |

`MC*` modules give constants their values.  Operators named as a *faulty variant*
are the definitions next to them with a plausible mistake; no specification uses
them.  They serve to confirm that a property notices the mistake.

Abstractions.  The two partial derivatives of a block are one member of `Diffs`
in `Recording`, which moves them and never computes with them; `TapeEvaluation`
computes with integers.  A variable of the program is one shadow that is read and
written as a whole.  A statement with its shadow statements is one step, since
Valgrind switches threads only between superblocks.  `VG_(write)` is assumed to
write everything.  8-byte variables in which client code keeps indices are
`IndexVars`; a request fills one or reads one, and client code may copy one to
another.  A buffer that `VG_(malloc)` has just returned holds
`Unwritten`, and a write beyond a buffer's end may hit the other buffer or
neither.  `nextindex` (64 bits) is assumed not to wrap.

In `ShadowStatements` all data has the size of one cell; programs are flat, as
Valgrind hands them to tools, so operands are constants or temporaries, and they
are run in any order.  An operation is a sum modulo `nVal`, a minimum or a maximum;
indices do not depend on what it computes.  `TaggedProgram` compares values in
a CAS.  The run `statements` and the refinement assume that a CAS does not meet
the expected value under another shadow (`MixedCAS = FALSE`); `statements_cas`
drops the assumption.  A dirty call other than the 80-bit loads and stores may return
data in a temporary, whose shadow the code resets, and may write to registers (`fxState`)
and memory (`mAddr`), where the shadows stay as they are.  The code's comment says of
these calls that they "do not handle AD-active bytes"; run and refinement assume that
what they overwrite there has no index (`DirtyOverActive = FALSE`).  Without that, a
CPUID on registers that held an active number leaves its index with the new contents:
`ImplementsTagged` then fails, and the stale index is harmless only because such
contents do not end up as floating-point data.  `addressesOfCAS` is modelled for
little-endian data, as on x86 and amd64.

In `ForwardStatements` inputs have the dot value 1, and additions, minima and maxima
are the operations with a derivative rule: they are exact on integers, and the last
two depend on values, so that the modes can disagree about them.  Both runs of the
program do the same original statements and share them; the outcome of a CAS, the
one statement whose effect depends on shadows, is kept for each mode and compared.
Values are ordered: there is no NaN.  An 80-bit store converts the dot value and a
load converts it back, which loses nothing.  With `MaxTies = FALSE` a maximum of equal
operands has equal shadows.  Otherwise `ModesAgree` fails: forward mode takes the
dot value of the second operand, as the processor takes its value, and recording
mode the first (`1.` and `0.` are exchanged for a maximum in
`gen_operationhandling_code.py`, which turns "less" into "greater or equal").
Nothing in the repository promises otherwise, and both are subgradients.

In `TapeEvaluation` a text file of seeds ends after a newline, right after its last
number, which `readFromTextFile` then drops, or with text that is no number
(`Endings`).  In the last case the extraction fails for ever without `eof`, and the
program ends up in the phase `pushing`.  The typegrind scan writes to `influencervec` at
special indices, far out of its bounds: `WildWrite` is the crash, `evaluate_for_typegrind`
the case in which nothing is hit that matters.  Nobody calls that function in the
repository so far.

In `ClientCode` the derivative formulas are opaque: a call of thread `t` has the
partial derivatives `Partial[t]`, and operations inside of wrappers have
`InnerDiffs`, which is how the properties tell them apart.  The original function
(`Original`) computes its result by an operation or hands an argument through, by a move
or a sign mask, with its index: in a bracket of the user's, where the wrapper sets no
index afterwards, the result keeps it.  Filling the static
array `tbi` of `derivgrind.h` and the request that reads it are one step.  Both
normally lie in one superblock (about 40 instructions, of at most 60), but nothing
enforces it: `PROJECT.json` lists this as a hazard.  A thread that ends passes its
id on to the next one, with the counter `dg_disable` of that id.  The run and the
theorem assume that no thread ends inside of its own bracket
(`EndInBracket = FALSE`); if one does, the next thread with the id is not recorded.

In `BitwiseHandlers` a half of a word has `Bits` bits, and is the set of the positions
of its ones; a number is a sign and a magnitude, of which the largest is NaN.  Inputs
are not NaN.  A history component of each number is its derivative, read off the bits
alone: a constant that leaves the magnitude of the other operand alone (or makes it
zero) determines the derivative of the result, anything else makes it unknown.  A NaN
that meets a number in an AND is the result of a comparison, hence a constant too; if
both are NaN, the first is.  At 0 both signs are right.  No claim is
made for XOR with 0, where the handlers drop the derivative although the result
equals the operand.  The handlers see bits and do not know the format of a word.
With `MixedFormats = FALSE`, operations are left out on which they are bound to
guess wrong (`Misread`): a pair of floats that meets a mask of a double, a double
whose halves look like masks of floats, and, since AND accepts variables as masks,
a double variable one half of which looks like one.  Forward mode is not held to
follow (`Follows`) where a constant has a dot value of -0, which it takes for a
variable, or where it reads a double constant as a pair.

In `TrickFinder` flags are one Boolean per half, since no operation modelled treats
the bits of a half differently.  Negation stands for all operations with a
derivative rule and the complement for all without.  In a bracket of `DG_DISABLE` the
finder does not warn (`dg_trick_warn`) and recording mode adds no statements, while flags
and dot values are computed as ever.  A history component of each number, `outside`, says
that no operation in a bracket led to it; `RecordedDerivative`, `RecordedValue` and
`SilenceMeansKnown` are about those numbers, the other properties about all.  80-bit numbers are left out; there
`dg_trick_x86g_amd64g_dirtyhelper_loadF80le_Lo` returns a constant with 14
hexadecimal digits, hence 56 bits, although its comment speaks of all 64 shadow
bits.

## 3. Runs

| run | question | result |
|---|---|---|
| `recording` | statements, client requests, brackets, marks, values and stops in any order: is block and value under an index that of its statement?  Do operands precede, are shadows always assigned indices, do the files fit together?  Do buffer and file refine `TapeLog`? | holds |
| `recording_mark_while_stopped` | and if the user marks a variable at a `--record-stop`? | violated |
| `client_code` | two threads in math wrappers, nested ones included, macros of translation units of their own, and brackets: is each call recorded with its own arguments and nothing else?  Is the block under an index that of its statement, although the threads share buffer and counter?  Does a macro declare its own variable? | holds |
| `client_statics` | and if both threads use the macros of one translation unit? | violated |
| `evaluation` | do both evaluations compute the chain rule, for every small tape and list of seeds?  Is each block visited once, in order, within the file, for every tape length?  Does the program end, if the text files hold numbers? | holds |
| `evaluation_typegrind` | does the typegrind scan find all suspicious results that influence the output? | violated |
| `shadow_bar` | does the tree of leaves implement flat arrays? | holds |
| `bit_tricks` | do forward and recording mode handle sign tricks as the arithmetic operation they stand for, whatever the operations before left in the shared result, and with brackets opened and closed anywhere?  Does the finder warn of all other uses outside of brackets, and of nothing else? | holds |
| `bitwise_float_pairs` | and if a pair of floats meets a mask that fills the word? | violated |
| `statements` | does the instrumented program refine `TaggedProgram`, dirty calls that write registers and memory included?  Is the dot value of forward mode always what a forward evaluation of the tape finds under the index of recording mode? | holds |
| `statements_cas` | does a CAS do what it tells the program it did? | violated |
| `diffquot_two_buffers` | do the debugging files hold all results, beyond `BUFSIZE`-many? | violated |

The violated ones are disagreements between the code and its comments or help
texts; `PROJECT.json` quotes both sides.

- *mark at a stop.*  The block of the interrupted statement is already in its
  slot when the debugger runs.  `monitor mark` stores its own block in the same
  slot and takes the index.  The interrupted statement then gets the next index,
  for which nobody has stored a block.
- *compare-and-swap.*  The instrumentation tests values and shadows and stores
  only if both agree; the old value, by which the program judges the outcome, does
  not know of the shadows.
- *typegrind scan.*  `evaluate_for_typegrind` marks only special indices and
  never an ordinary operand, so it examines the blocks of the outputs and no
  others.
- *statics of the macros.*  `DG_INPUTF` is four requests on static variables.  A
  second thread in the same translation unit may assign its own index to
  `dg_indextmp` in between, so that one index is declared twice, or that of a
  variable that never got it.
- *pairs of floats.*  An AND of two floats with the result of a packed comparison
  has a mask operand of 64 ones.  The handlers then take the operand for a double
  and write the lower index only; the upper place of the shared result keeps what an
  earlier operation left there.
- *difference quotient debugging.*  The buffers are indexed by the counter
  itself instead of the counter modulo `BUFSIZE`.

### Bounds

In `recording`, `BUFSIZE` is 2 and `MaxIndex` 4, so that flushes happen in the
middle of a run and the last buffer may be empty or partly filled when the program
ends.  `HALF = 3` gives nine indices and makes real indices need both halves.
`MaxDisable = 1` allows a counter of -1, 0 and 1: the code only compares with 0.
Stops are `<<3, 2, 2>>`: a call may stop twice, successive calls may stop, and the
list is not sorted.  One thread and one variable are enough there, because nothing
but `dg_disable` belongs to a thread; interleavings are the subject of
`client_code`: two threads with two calls each, up to 7 indices, and counters up to
3 for the user's bracket, the wrapper's and that of a wrapper it calls.

Chunks have 2 blocks and tapes 0 to 4, hence one to three chunks, with and without an
empty last one; `HIGH = 8` and special index 15 play 2^63 and 0xff..f.  Leaves have 2
bytes; a request of up to 3 bytes touches one or two, as do the requests of the code,
of at most 32 bytes, in its much larger leaves.  Statements work on three
temporaries, two registers that form a circular array, two addresses and two values;
with `HALF = 2` index 2 needs the upper layer, and a result and its operand can have
different derivatives.  `Bits = 3` has a sign and magnitudes 0
to 3, hence ordinary numbers, zeros and NaN; two operations in a row let a handler
find the result of another, and a number reach the finder's check with the flags of
an earlier operation.  Variables other than the input start at 0, and `Depths` lets the
counter of `DG_DISABLE` be 0 or 1: the code only compares it with 0.  Difference quotient buffers hold 3 results; the shortest
counterexample has 4, so all runs up to `BUFSIZE` results are fine.

### Fairness and deadlock

The recorded program may end at any time and need not do anything, so
`Recording` has no fairness and only safety is checked there.  The evaluation is a
sequential program: it takes its next step as long as there is one, hence
`WF_vars(Next)`.  No other specification states fairness: the other properties are about
safety.  Programs end, therefore the configurations switch off the deadlock check.

## 4. Proofs

`RecordingProofs` proves, for every buffer size above one, every set of threads
and variables, every list of stops and every option setting:

- `TypeCorrect`: `Spec => []TypeOK`;
- `TapeCorrect`: unless marks are given at stops, `Spec => []TapeHoldsLog`;
- `IndicesAssigned`: `Spec => []NoDanglingIndex`, even with
  marks at stops;
- `OperandsCorrect`: unless marks are given at stops,
  `Spec => []OperandsPrecede`;
- `ValuesCorrect` and `FilesCorrect`: without `--typegrind`,
  `Spec => []ValuesMatchTape` and `Spec => []FilesFitTogether`, even with marks at
  stops;
- `TapeLogImplemented`: with the tape in a file and no marks at
  stops, `Spec => ImplementsTapeLog`.

`TapeHoldsLog` is not inductive: it says nothing about where the file ends.  The
inductive invariant `TapeInv` adds that the history has one entry per assigned
index (`LogLength`), that the file ends exactly where the current buffer begins
(`FileLength`), that file and buffer separately agree with the history
(`FileBlocks`, `BufferBlocks`), and that at most one call is interrupted, whose
block still is in the slot of `nextindex` (`FrameBlock`).  The last part is what
`monitor mark` at a stop destroys.  `ModLemmas` holds the arithmetic of `%` the
steps need: the counter moves to the next slot, or back to slot 0 when the buffer
is full.

`NoDanglingIndex` is not inductive either: a block that waits in `frames` or
stands on the tape will be read later.  `IndexInv` adds that the blocks of the
history refer to earlier ones (`LogOperands`), that the blocks of interrupted
calls refer to indices below the current `nextindex`, whichever index they get in
the end (`FrameOperands`), and that declared inputs and outputs were assigned
(`FileIndices`).  It holds without a condition on the user; `OperandsCorrect`
follows from it together with `TapeHoldsLog`.

Values are added by a function of their own, which is called after the index was
assigned and flushes at its own condition.  `ValueInv` says where the values file
ends relative to the tape (`ValueLength`), and that file and buffer agree with the
history (`FileValues`, `BufferValues`).  It does without the order of blocks, hence
holds with marks at stops.  With `--typegrind` it does not: every statement then
returns index 0, for which no value is written.  For the refinement of
`TapeLog`, each step appends what it appends to the history; a flush moves the
file's end to a place before which all operands lie, by `LogOperands`.

The assumptions are `TapeAssumption` and `RecordingAssumption`.

The options `--typegrind=yes` and `--tape-in-ram=yes`, which no run sets, are
covered by these theorems.

`ClientProofs` proves, for any number of threads and calls, any buffer size and any
assignment of threads to translation units:

- `ClientTypes`: `ClientSpec => [](TypeOK /\ ClientTypeOK)`;
- `ClientImplementsRecording`: `ClientSpec => Spec`, so that all theorems about
  `Recording` hold for programs that use wrappers and macros; `ClientIndicesAssigned`
  is one instance;
- `NothingInsideRecorded`: if no thread ends inside of a bracket and `InnerDiffs`
  differs from the other partial derivatives (`InnerDistinct`),
  `ClientSpec => []NothingInside`;
- `CallsCorrect`: if no thread ends inside of a bracket, the tape is not one of
  `--typegrind`, and the wrappers' locals have names of their own (`NamesDistinct`),
  `ClientSpec => []CallsRecorded`.  In a bracket of the user's this says that the result
  has no index or that of one of its arguments;
- `DeclarationsCorrect`: if moreover no two threads use the macros of the same
  translation unit (`OneThreadPerUnit`), `ClientSpec => DeclaresOwnVariable`.  The run
  `client_statics` shows that it fails without this hypothesis.

`NothingInside` speaks of the history only.  The inductive invariant `BracketInv`
says what keeps the history clean: `dg_disable[t]` is the number of the user's
brackets plus the number of brackets opened by the wrapper, which depends on `pc[t]`
alone (`Open`), so it is positive at each operation inside.

`CallsRecorded` speaks of a call that returns.  `CallInv(t)` follows the call of thread
`t` from request to request: the shadows of its arguments keep the indices they had at
the call (`Arguments`) and did so when they were fetched into locals (`Fetched`), the
index of the new statement then is in a local, then in the result (`Result`), and the
brackets around it are balanced (`Brackets`).  One group of lemmas shows that each step
of `t` preserves `CallInv(t)`, another that a step of any other thread touches none of
the variables it mentions (`Touches`, `OthersKept`), as in a rely-guarantee argument;
entries of the history never change.  For macros, `MacrosInv` adds that the indices
being declared by different threads differ (`InputsDiffer`) and were not declared
before, because each was new when its thread asked for it.

The assumption is `ClientAssumption`, with which there is no `--record-stop`.

`EvaluationProofs` proves, for every tape of less than `HIGH` blocks whose operands
precede their results, every chunk size, all partial derivatives, and all text files
of seeds:

- `TraversalInOrder`: `Spec => []VisitsInOrder`;
- `ChunksWithinFile`: `Spec => []LoadsWithinFile`;
- `GradientsCorrect`: `Spec => []GradientIsChainRule`;
- `StatisticsCorrect`: `Spec => []StatsCount`;
- `EvaluationTypes`: `Spec => []TypeOK`.

That the tape is of this form is what `OperandsCorrect` and `FilesCorrect` show of a
recording.  `EvaluationInv` says how many blocks have been visited when chunk and
position have given values, in both directions (`Progress`), and what the chunk buffer
holds (`ChunkLoaded`).  `ResultInv` says what has been computed so far.  Forward
evaluation: a visited block has its derivative, another one its seed.  Backward
evaluation (`BackwardSoFar`): the derivative with respect to a visited variable is in
the vector, and that with respect to another one is the sum over the unvisited blocks of
their entries times their own derivatives (`Pending`).  One step moves the last summand
of `Pending` to the operands of its block: the proof is the exchange of the order of
summation between the forward definition of `Derivative` and the backward sweep.

The sums, the seeds and the derivatives are recursive functions.  That they satisfy
their equations is proved once (`RecursionExists`), from the existence of all finite
approximations; induction is over sets of numbers rather than over predicates
(`UpTo`, from the well-foundedness of `<`), so that the provers never have to
instantiate an operator.

`ShadowProofs` proves, for every leaf size, number of leaves, set of layers and size of
requests:

- `FlatShadowImplemented`: `Spec => ImplementsFlatShadow`;
- `ShadowTypes`: `Spec => []TypeOK`.

A request that crosses leaves takes several steps, and the flat array answers it in
one.  A Set counts as done when it is issued: the array is what the leaves hold,
overridden by what the Set in progress still has to write.  A Get counts as done with its
last call.  `ShadowInv` says that a Get in progress holds the contents of the memory from
its first address up to the current one (`GetInProgress`), and that a Set in progress
still has as many bytes as its range (`SetInProgress`).  The assumptions are
`ShadowAssumption` and `MarkAssumption`, which says that the marks for "no leaf" and "no
call" are no leaf and no call.

`StatementProofs` proves, for every program, every number of temporaries, registers
and addresses and every width of a half index:

- `StatementsTyped`: `Spec => []TypeOK`, whatever a CAS meets and a dirty call
  overwrites;
- `InstrumentationCorrect`: if no CAS meets the expected value under another
  shadow (`~MixedCAS`) and no dirty call overwrites a register or address whose contents
  have an index (`~DirtyOverActive`), `Spec => ImplementsTagged`, i.e. `ShadowStatements`
  implements `TaggedProgram`.

Here the type invariant is inductive and all the refinement needs.  Temporaries and
registers are sequences of three layers (original, lower and upper half); a state is
mapped to the cells whose value comes from the first layer and whose index is joined
from the other two.  `WriteCell` says that writing one place of each layer writes one
cell and no other, `AtomMap` and `ValueMap` that an operand or expression and its two
shadow expressions evaluate to the cell the tagged program computes.  Then there is
one lemma per kind of statement.  Circular arrays of registers need that the offset
of the shadow layers is a multiple of the length of the array (part of
`StatementsAssumption`): otherwise `GetI` would find a value and its shadow under
different numbers.  Two lemmas have a further hypothesis: `StepCas`, that equal values
have equal shadows (the run `statements_cas` shows what happens without), and
`StepDirty`, that what is overwritten has no shadow.

`ForwardProofs` proves, for the same range of programs:

- `ForwardIsRecording`: `DotSpec => Spec`, so that the theorems above apply;
- `ForwardAgrees`: if no CAS meets the expected value under another shadow, no dirty call
  overwrites data with an index and no maximum has equal operands with different shadows,
  `DotSpec => []ModesAgree`.

The inductive invariant `ForwardInv` adds to `ModesAgree` that the history has one
entry per assigned index and that no cell has an index beyond it (`Fits`), so that
appending a block leaves all other cells alone.  The state of recording mode is
looked at through the refinement mapping: the lemmas of `StatementProofs` say which
cell a statement changes, and one lemma per statement shows that the dot layer
changes in the same place.  The CAS lemma shows that forward mode, which compares
dot values, decides as recording mode does: equal indices have equal entries in the
history, and with `~MixedCAS` equal values have equal indices.  The assumption is
`ForwardAssumption`, besides those of `ShadowStatements`.

`TrickProofs` proves, for halves of any width above two bits, any set of variables,
inputs and masks, and any number of operations and of brackets of `DG_DISABLE`:

- `TrickTypes`: `TrickSpec => []TypeOK`, whatever formats meet;
- `TrickRecordedDerivative`, `TrickRecordedValue`, `TrickForwardDerivative`: if no word
  meets a mask of another format (`~MixedFormats`), `TrickSpec => []RecordedDerivative`,
  `TrickSpec => []RecordedValue` and `TrickSpec => []ForwardDerivative`;
- `TrickSilenceMeansKnown`, `TrickWarnsOfTricksOnly`: under the same hypothesis,
  `TrickSpec => []SilenceMeansKnown` and `TrickSpec => []WarnsOfTricksOnly`.

The run `bitwise_float_pairs` shows that the hypothesis is needed.  The invariant has
two parts.  `TypeInv` says that shared result, tape and shadows are proper: each index is
assigned and each statement refers to an earlier index.  `TraceInv` says, of the shadows
of each variable, that the index of a number leads to its derivative and to its value
(`Recorded`), that a dot value is one of its derivatives (`Forwarded`), that a single
float leaves the other half empty (`Narrowed`), that before the first warning the flags
say enough (`Telling`), and that before the first operation that is no sign trick they do
not say too much (`Discreet`).  `Recorded` and `Telling` spare numbers to which an
operation in a bracket has led.  The invariant is stronger than the properties where they
are not inductive: NaN must have no derivative but 0, since AND takes it for a mask
(`Ranged`, which holds of numbers from brackets too); an active double must be active in both halves, since the handlers may look at
one of them only (`Silent`); and a number with derivative 0 must not be active (`Modest`).

The proof goes from numbers to words to states.  On numbers, `Masked` computes what a mask
does to sign and magnitude, and `TurnsDecide` shows that the comparisons of the code, with
`<` in forward and `>=` in recording mode, agree with the change of sign wherever the
derivative depends on it.  `FineFirst`, `FineSecond` and `FineNone` (and `Flow...`,
`Flags...` for the other modes) treat the three outcomes of a handler.  Words need one
lemma per kind: `BarDouble` for doubles, `BarHalves` for pairs, where the upper result
must survive the lower handler, and `BarSingle` for single floats, where a 64-bit mask
must not be mistaken.  That a statement added to the tape leaves the meaning of all
earlier indices alone is `AlongAppend`, with `RecursionExists` of `ModLemmas`.  One lemma
per action then takes the invariants from state to state.  The assumption is
`BitwiseAssumption`.

Only model-checked: liveness (`Terminates`), which is out
of the prover's reach, and that the files of `DiffQuotDebug` are right up to `BUFSIZE`
results.  The violated properties are refuted by TLC's counterexamples.

## 5. Not modelled, and plan

What is left, in order of interest:

1. `EndToEnd`: `Recording` composed with `TapeEvaluation`, so that the derivatives read
   out are those of the recorded program.
2. Words with room for two indices in `ShadowStatements`: the upper halves of shadows,
   among them the uninitialised ones of 80-bit loads, and the 80-bit flags, shifts and
   conversions of the finder.
3. Short writes of the tape file; the round trip of the library caller.

Every safety property that a passing run checks is a theorem (`TapeHoldsLog` of
`client_code` by `ClientImplementsRecording` and `TapeCorrect`).  What would be worth proving
next is the composition of `OperandsCorrect`, `FilesCorrect` and `GradientsCorrect` in
`EndToEnd`.

Not planned: the derivative rules themselves (real arithmetic), translation by
Valgrind, option parsing, printing, build files, the language wrappers (straight-line
scripts around a subprocess), the Python bindings of the evaluation (which forward to
the class that is modelled), and the vendored Valgrind and flexible-shadow sources.
