# wispy-vm in TLA+

wispy-vm is a bytecode virtual machine for R7RS Scheme, written in Rust without
allocation outside one fixed heap, with a compiler, a prelude and a number of
primitives around it. This directory holds TLA+ modules translated from its source,
the TLC configurations that model-check them and the proofs that TLAPS checks.
Paths below are relative to the repository.

## 1. Inventory

For every part: its state, its operations, what it talks to, what is hard, and what
makes it correct.

| Part | Source | State | Operations | Hard | Correct when |
|---|---|---|---|---|---|
| Memory and collector | `vm/src/memory.rs`, `cons.rs`, `value.rs`, `heap.rs` | one array of values in two semispaces, roots `code`, `stack`, `false`, `register`, the bump index | `allocate`, `push`, `pop`, field and root setters, `collect_garbages` | every allocation may move every cons; forward pointers share the representation of data; sharing, cycles, pointer tags; the space that fills exactly | it is a graph of conses with an identity; a collection never fails half way, and ends; a refusal means everything was live at the last collection |
| Interpreter | `vm/src/vm.rs`, `instruction.rs`, `stack_slot.rs`, `error.rs`, `exception.rs` | program counter (`code`), operand and frame stack, the register as scratch root | `constant`, `get`, `set`, `if`, `nop`, `call`; frames, tail calls, closures; the error handler | Rust locals across a collection; stack conses reused as code conses; frames changed in place; arity checks after arguments moved | no local is used after the collection that made it stale; the evaluation of a program is that of its source |
| Bytecode decoder | `vm/src/vm.rs` (`initialize`, `decode_*`), encoder in `compile.scm` | the operand stack, holding a dictionary and values under construction | one byte or rib at a time | the two sides keep a dictionary in step with nothing but the stream; sharing counts; numbers with escapes | decoding an encoded graph gives the same graph, sharing included |
| LZSS | `lzss/src/*.rs`, `compile.scm` (compressor) | ring buffers, match offsets, a list with a pointer into it | compress and decompress one byte | two implementations of one format; overlapping matches; window edges | what is compressed comes back |
| Small primitives | `r7rs/src/small.rs` and the primitive sets in `native`, `process-context`, `time`, `inexact` | the operand stack | pops, a few allocations or a loop of them, a push | order of reading, allocating and writing; lists built over dozens of collections | the operands leave the stack, the value takes their place, nothing else a program holds changes |
| Devices and file systems | `device/src`, `file/src`, the ports over them in `prelude.scm` | buffers and the places in them; tables of open files | open, close, read, write, flush, delete, exists; read and write of a device | descriptors that are used again, refusals half way, files that change while they are open | every port is a stream of its own |
| Foreign values | `dynamic/src/*.rs` | a table of native values, shared between two collectors | call of a native function, collection of the table | a slot is freed by a scan of a heap that the other collector moves | a foreign value stays what it was while a program has it; the table does not leak |
| Control in Scheme | `prelude.scm` (`stak continue`, `stak exception`, `stak parameter`) | the current point in a tree of winds, the handler list, parameter values | `call/cc`, `dynamic-wind`, `with-exception-handler`, `raise`, `parameterize` | escapes and re-entries from inside the thunks of a wind | every entry of an extent has its exit, in nesting order |
| Ports in Scheme | `prelude.scm` (`stak io`) | a queue of bytes per port, the last byte read ahead | read, peek and write of bytes, characters, strings | a peek of a multi-byte character and a read of a byte share the queue | what is read is what was written; a peek changes nothing |
| Compiler | `compile.scm` | tables of macros, libraries, symbols | expansion, optimisation, tree shaking, code generation, encoding | hygiene; sharing of code and constants | the compiled program means what the source means |
| Profiler | `profiler/src` | a log of calls and returns; a stack of open calls | writing a line, parsing, matching, collapsing, reversing and summing | tail calls, procedures that are left without a return | each duration belongs to its call |
| Engine, modules, commands, wasm, libc | the other crates | little | putting a device and a file system below a program | none that TLC reaches beyond that | a program has the streams it should |

Components interact by calls within one thread. The interpreter calls primitives and the
memory; the memory calls nobody. Primitives share the operand stack and may allocate,
which may collect. A dynamic primitive set keeps its own table and scans the memory. The
compiler is itself a Scheme program on the virtual machine; it and the virtual machine
meet only in the compressed bytecode. There is no concurrency in the usual sense: the
interleavings that matter are those of a mutator with the two collectors, of a producer and
a consumer of bytes, and of non-local exits with the code they leave.

`PROJECT.json` lists every component with its status, and every hazard with its line and
the properties that cover it.

## 2. Modules

| Module | Models | Role |
|---|---|---|
| `Memory` | `vm/src/memory.rs` | the memory by addresses; a collection one `copy_cons` or scanned field at a time |
| `MemoryProofs` | | theorems about `Memory` and `MemoryRefinement` |
| `ObjectGraph` | what `Memory` promises | conses with an identity, no addresses, an atomic collection |
| `MemoryRefinement`, `MCMemoryRefinement` | | the refinement mapping from `Memory` to `ObjectGraph`, and bounds on the calls that do not allocate |
| `Decompression` | `lzss/src/decompress.rs`, `ring_buffer.rs` | the decompressor, behind each of the next two |
| `Compression` | `lzss/src/compress.rs` | the Rust compressor |
| `StreamCompression` | `compile.scm` | the Scheme compressor |
| `Pipe` | what a compressor and a decompressor promise | abstract specification of both |
| `LzssProofs` | | theorems about both compressors with the decompressor |
| `ForeignValues` | `dynamic/src/primitive_set.rs` | the table of native values and the two collectors |
| `ForeignValuesProofs` | | theorems about `ForeignValues` |
| `Vm` | `vm/src/vm.rs`, part of `r7rs/src/small.rs` | the interpreter, one instruction a step, a collection at any allocation |
| `VmProofs` | | theorem about `Vm` |
| `Compiler` | code generation of `compile.scm` | operators: expression to code |
| `Programs`, `MCVm` | part of `prelude.scm` | programs, what an expression means (a reference evaluator with environments and continuations as values), and the interpreter run on them |
| `Profiler` | `profiler/src`, `stak-profile analyze` | operators: from the lines of a profile to a flamegraph |
| `Primitives` | the rest of `r7rs/src/small.rs`, `native`, `inexact`, `process-context`, `time` | a primitive a step, over the memory of `Vm` |
| `Devices` | `device/src` | operators: steps of a device |
| `FileSystem` | `file/src` | operators: steps of four file systems and of the disk below |
| `InputOutput`, `MCInputOutput` | ports of files and devices in `prelude.scm`, and what commands put together | ports over one device and one file system |
| `Streams` | what ports of files and devices promise | abstract specification of `InputOutput` |
| `InputOutputProofs` | | theorems about `InputOutput` |
| `Code` | both sides of the bytecode | operators: the layout of its bytes, numbers, the order of the dictionary |
| `Encoding` | `compile.scm` | operators: code to ribs, ribs to bytes |
| `Decoding` | `decode_ribs` of `vm/src/vm.rs` | bytes to conses, a byte or a rib at a time |
| `DecodingProofs` | | theorems about `Code` and `Decoding` |
| `Bytecode` | | encoder, compressor (either), decompressor and decoder in a row, and the programs for TLC |
| `Winds` | `prelude.scm`, `stak continue`, `stak parameter` | points, `call/cc`, `dynamic-wind`, parameters |
| `Exceptions` | `prelude.scm`, `stak exception` | handlers, `raise`, `unwind`, over `Winds` |
| `ExceptionsProofs` | | theorems about `Winds` and `Exceptions` |
| `Utf8` | `prelude.scm`, `write-char`, `parse-char-bytes` | operators: characters to bytes and back, and UTF-8 as the reference |
| `Ports` | `prelude.scm`, `stak io` | strings and bytevectors written and read |
| `TextStream` | what ports promise | a sequence of bytes read in order |
| `PortsProofs` | | theorems about `Utf8` and `Ports` |
| `Syntax` | `compile.scm` | operators: symbols, lists, equality up to the names of parameters |
| `Expander` | `compile.scm`, "Macro system" | operators: patterns, templates, `expand-macro` |
| `Scopes` | what macros mean | reference: the same language by sets of scopes |
| `Macros`, `MCMacros` | `expand-macros` | top-level forms expanded one after the other |
| `Passes` | `compile.scm`, "Library system", "Optimization" and "Tree shaking" | operators: import sets, names of libraries and their bodies, optimizers of libraries, `optimize-begin`, and what is needed, of definitions and of macros |
| `Linking` | what a program of libraries means | reference: import sets as functions, instances, an evaluator |
| `FrontEnd`, `MCFrontEnd` | `main` and `(stak compile)` of `compile.scm` | the passes one after the other, then the program and its calls of eval |

### Memory

`code`, `stack`, `false`, `register`, `allocationIndex`, `space`, `heap` are the fields of
`Memory<H>`. A value is a number or a cons (index and tag), as `Value::to_typed` tells them
apart; equality of conses ignores the tag (`IsNever`). `local` is the cons that `allocate`
is about to return or has returned; `user` says whether the caller is `push`. `phase` and
`scan` are the program counter and the loop index of `collect_garbages`; everything a client
calls needs `phase = "mutator"`, because a client never sees a collection in progress.
`fromIndex` is auxiliary: how full the space was that is being left.

A client may store any value it can hold: numbers, `NEVER`, and conses that are allocated
(`Held`). That is the discipline `assert_heap_cons!` and `assert_heap_value!` check in debug
builds, and the model lets a client do anything within it, which is more than the
interpreter does. `CollectGarbages` is `collect_garbages(None)`, after which the client
holds no cons of its own.

A collection is `Flip`, then one action for each root, the local cons, one for each field of
the space being filled, then `Finish`. `AllocateFails` is the error of
`allocate_unchecked`: nothing changes. An error of `copy_cons` would be the phase
"failed"; `SpaceSuffices` says it does not occur, nor anything else that runs over the end of the space.

Left out: strings, list building and printing (`write_str`, `build_string`, `list_length`,
`Debug`), which are loops over these operations or only read.

### ObjectGraph and MemoryRefinement

`ObjectGraph` states the promise: `fields` maps every allocated object to its car and cdr,
`collecting` says that a collection is due, and `Collect` removes what no root reaches.
`MemoryRefinement` adds to `Memory` the history variable `object`, the identity of the cons
at each address; while a collection runs, the graph is read through forward pointers
(`Home`), and `Finish` is the abstract `Collect`.

### LZSS

`Decompression` is the iterator of `decompress.rs`; its ring buffer, offset and length are
variables, each `next` call one action. `Compression` keeps the ring buffer that holds the
window and the bytes read ahead in one, and `next`, the pending second byte of a match.
`StreamCompression` keeps the list of `compile.scm` as a sequence, `current` the pointer
into it. In both, `compressed` is the queue of bytes between the two sides.

### ForeignValues

`size`, `values` are the vector of the primitive set, `slot` the indices in the allocated
foreign conses. The memory is seen as `ObjectGraph` describes it, as a set of conses that a
collection may shrink to the reachable ones (`kept` is nondeterministic, for an
allocation collects or does not). `native` is auxiliary.

### Vm, Compiler, Programs

`code`, `stack` and `register` are the roots; `fields` is the graph of conses as `ObjectGraph`
has it. One action is one turn of the loop of `run_with_continuation`, the instruction and
`advance_code` together; `call` is three actions, for a procedure, for a primitive and for
anything else. `error` is what the loop returned, and `HandleError` is the turn of the loop of
`run_async` that puts the call of the handler before the code.

What makes these functions hard is that any allocation may move every cons, so that a
Rust variable holding one is stale afterwards. An instruction is therefore computed on a
record `m` of the roots, the fields and an *epoch* that a collection advances: `Hold` reads a
pointer with the epoch it was read in, and what is read or written through a pointer of an
earlier epoch is `Garbage` or a fault. `Allocate` returns both outcomes, with and without a
collection, and the instruction goes on from each. Between instructions the state keeps
only reachable conses, named by the smallest free number, so that equal graphs tend to be
equal states. An instruction has many executions and, if the code is right, one outcome:
the state graph has no branches, and a variable that is not rooted shows as one.

Code is immutable, so a cons of code is named by the instructions it begins (`[code |-> ...]`)
and its fields are computed (`Static`); the same holds for procedures that are not closed and
for primitives. The code comes from `Compiler`, which is `compile-expression` line by line:
contexts, continuations that are the code after, drops and unbinds left out in tail position.
The evaluator of `Programs` knows nothing of stacks or slots. The programs are about thirty, each
for a way in which environments, frames and code meet, with `call/cc` and the error handler
compiled from the source of the prelude (`call/cc` without the points of `dynamic-wind`).

`OperandsFound` says what the interpreter assumes of its bytecode and checks nowhere: that the stack is a chain of conses down to a
frame with a call to return to, that each instruction finds its operands above the frame, an argument list one that ends, a primitive
operands of the kind it is for, and that no program writes with `set-car!` or `set-cdr!` what would unmake its stack. `Compiled` says
of a set of objects that they are the code, procedures and primitives of the programs, and closed: what stands in one is a number, a symbol or
one of them. `MCVm` computes the set for its programs (`MCParts`) and assumes it to be such, which TLC evaluates.

Left out: numbers beyond small integers and an exhausted heap. The other primitives are in
`Primitives`.

### Profiler

`profile` of `Vm` is what `StackProfiler` has written: a line for each event of `initialize`, for each call
of a procedure before its arguments are taken, and for each return while the frame is still there. A line is a
sequence of columns, a stack a sequence of names and separators, and the clock counts lines. `Profiled` has
the programs that run under a profiler. `Profiler` is the subcommands of `stak-profile analyze`, from lines to lines.

`ProfileFollowsStack` compares what the analysis takes to be open calls with the frames on the stack of the
interpreter after every instruction, and at the end the flamegraph with the times between calls and the records
that leave them, found by counting. It is checked on the programs that use no continuation and raise no
error: a procedure that is left otherwise writes no return, and one entered again returns more often than it
is called, after which calls and returns no longer pair and the analysis may end with `MissingCallRecord`. A frame
that a tail call took over keeps the name of the procedure that was left, and so does every stack above it.

### Primitives

A program pushes constants and applies primitives to values they are for (`Suits`), as the procedures of the prelude
do; each primitive is the steps of its source on the record `m` of `Vm`, so that every allocation has an outcome with a
collection and one without. `Settle` numbers the conses in the order in which the stack reaches them, so that equal
heaps are equal states. `PushCharacter` is `integer->char`, so that two characters of one code point meet.
`View` unfolds what a value looks like, a tree in which a cons keeps its identity, and `Means` says which value
a primitive leaves: `ValuesArrive` compares the stack after with the views before. A process context and a clock
are records of what their operations return, one for each kind; an error ends a program, and its message
is written into the register piece by piece (`WriteMessage`), as `run_async` does before the handler runs.

`Means` is a function of the views alone, for each primitive: `Holds` of tests and comparisons, `Computes` of
arithmetic, which says what the result makes of the operands and not how it is computed, and for the others the field, the item or
the list there has to be. What floating-point functions and division compute is a value of its own (`Term`). `read`, `write` and the primitives of files
are in `InputOutput`, for they allocate nothing.

### Devices, FileSystem, InputOutput, Streams

A file system is a record of the disk it stands on and its table; an operation is the set of its outcomes, each what it
returns and what it leaves. `kind` picks the implementation: the operating system (a table that counts on and
wraps, a disk that may refuse), libc (the same with a table of fixed size), memory (a table whose entries are reused, files that do
not change) and void. The disk separates names from contents, so that a file which is deleted or emptied while it is open is what
an operating system makes of it. A device is a record of its input in chunks and of two buffers.
A path is a list of code points, decoded into bytes by their lowest 8 bits, as `decode_path` does.

`InputOutput` has the ports that `open-file` makes, each with a descriptor in its closures until it is
closed, and the current ports over the device; `Setup` has the pairs that `stak`, `mstak`, the web and
embedding programs put together. `Streams` knows no descriptors: it says that each open port has a file and a place in
it, that an operation moves one stream and a failure none.

### Bytecode

`Encoding` has pure operators, as the procedures they stand for have no
effect but on the record they pass along: `MarshalRib` numbers the ribs it makes, so that
`eq?` of ribs is equality of numbers, and keeps the tables of constants and of continuations
(marks left by `nop-rib`) in `known`. `Counts` is the walk of `count-ribs!`, `EncodeRib` the
second walk, with the dictionary and the counts left. Their bytes are the text of
`StreamCompression`. `Decoding` begins when the file is complete and asks `Decompression` for
a byte when it needs one (`NeedsByte`). `conses` are all conses it has allocated: `stack` and
`code`, the dictionary, are lists of conses, and `DecodeRib` turns the cons on top of the stack
into the rib, as the code does. Collections are left to `Memory` and `Vm`: every value is in a
root whenever the decoder allocates.

`source` says what is sent: a program, a text for the Scheme compressor, or a text for the Rust
one, whose variables are `rustInput`, `rustBuffer`, `rustAhead` and `rustNext`. Texts, which no encoder
would write, end at the decompressor.

A program of this model is what `compile` returns, with the primitives that `Main` binds. Its
values have a mantissa and an exponent if they are floats: `decompose-float` itself, which
chooses them, is not modelled. `ProgramKept` reads the conses side by side with the program, and before there is one
it says `OperandsDecoded`: `decode_ribs` takes the top of its stack, the two values of a rib and an entry of the dictionary
without a look at whether they are there, and of bytes that no encoder wrote they need not be.

### Winds and Exceptions

`points` has all points made so far, each with its depth, its parent and what it binds;
`currentPoint` is the parameter of that name. `stack` has what waits for the running procedure to
return: the rest of `dynamic-wind` around a before procedure (entering), a thunk (inside) or
an after procedure (leaving); the rest of `travel-to-point!` around the travel to a parent (enter) or
an after procedure (leave); the jump to a continuation when the travel is over; and the rest of
`with-exception-handler` and `raise`. `at` is the program counter: a procedure of the
program runs, it has returned to the top of the stack, `travel-to-point!` is called with `from`
and `to`, or the program has halted. A continuation is a stack and the point it was
captured at. `extent` is auxiliary, the points whose before procedure has returned and whose after
procedure has not been called since.

A procedure is abstracted to what it may do next: return, capture or call a continuation, bind a
parameter, enter a `dynamic-wind`, install a handler or raise. `travel-to-point!` is a step for
each point it leaves or enters, since a procedure is called at each. `value` is a
function of the parameter and not of the stack, as a parameter is a cell; `parameterize` is a
`dynamic-wind` whose point has the parameter, what gives the new value, and the old one. The value expression of a `parameterize` stands
inside its before procedure (`prelude.scm:2531`), which runs the program at every entry: when the `parameterize` is called, and each time a
continuation enters the extent again. `CallBefore` has the program run (`RunsProgram`), and the parameter is set where the
procedure returns (`ReturnBefore`). The value expression of the first entry does what any procedure may, continuations and
errors included; that of a later one is a procedure that a jump calls on its way, as before and after procedures are (`InThunk`, see
`Escapes`). A value is known by what gave it: a constant (the handlers of `with-exception-handler` are such, by their number),
or the point whose before procedure computed it (`Computed`, `Given`). So the values that two entries of one extent compute are
not told apart, nor is a value from the same value converted once more.
`current-exception-handler` is such a parameter, its value the number of handlers around.
`Exceptions` adds `with-exception-handler`, `raise`, `raise-continuable`, the
secondary exception when a handler returns, and `unwind`, the continuation which an exception
nobody handles calls.

### Ports

A program writes characters and bytes to an output string or bytevector, opens an input port on
the result (`OpenInput`), and reads. `string` and `bytes` are what the output port has; the bytes
of a character that is not complete wait in `bytes` while a string is written.
`source` is what the read procedure of the input port has left, `data` is `port-data`, the
bytes read ahead. A read procedure is an operator on these two, so that `read-char`, `peek-char`,
`read-line` and the rest are made of `read-u8` as in the source; a loop is a recursive function of its rounds (`Rounds`). `TextStream` knows only
`unread`, the bytes written and not read, and says what each call returns.

Ports are streams for a program that is `Careful`, which is a hypothesis of the run and of the theorems: it looks at a byte only
with less than two bytes read ahead, for `peek-u8` rotates them (`RotatesNothing`), and asks `read-string` and
`read-bytevector` for no less than all that is left, because they read, and lose, one element more than they
return (`ReadsAll`). With `Careful = FALSE` a program makes these calls as well, and TLC finds `ImplementsStream` violated
(section 6). Any program of the model reads a character only where one begins and is complete.

### Macros

`Expander` follows the source procedure by procedure: a context of denotations, patterns compiled
with literals and ellipses, templates filled with names renamed, and `expand-macro` with what it
leaves in `macro-state`. A renamed symbol has the number of its renaming where the source has
an uninterned symbol. `Macros` expands one form of a program a step and keeps `state`
(`macro-state`) in between; `bindings` is what `Scopes` keeps. `Scopes` shares with it the
language and nothing of the method: there, no environment is passed and no name is changed, each symbol carries
the scopes it is in, and the bindings are one set (Flatt, "Binding as sets of scopes"). `Hygienic`
expands each of the expressions in `Probe` by both after every form, and compares the results up to the names of parameters. `EvalAgrees`
compares the compiler's expansion with that of `eval`, which knows the macros by what the compiler left in the program (`$$macros`).

The forms define macros that bind a name around an expression of the use, that bind a name of the use
around their own, that have literals, that repeat, with nested ellipses and with an ellipsis before
the end, that recur, that use one another, and that define macros. The expressions use them at the top level, within a `lambda`
that binds a name of their templates or their own, and within `let-syntax` and `letrec-syntax`.
Left out: transformers other than `syntax-rules`, ellipses without a variable, and three things the code does
that no document promises or excludes (see the hazards of `compile.scm` in `PROJECT.json`): a template that inserts a literal of its own, one that
defines a name of its own at the top level, and one whose macro has a pattern variable taken from its use (`features/macro.feature:905` has
one of the last kind, which the compiler expands as it should; eval is not given one there).

### Front end

`FrontEnd` takes a program of libraries through the passes of `main` up to `optimize-begin`, each an
action that replaces `expression` and leaves what the next ones and eval need: `context` (the
exports of libraries), `macros` and `optimizers`. Then the program runs, and what it gives to eval goes
through the same passes as `(stak compile)` calls them: an expression, an import, or a definition of
a library. `machine` is what the program has done: the values of its variables, what it has written
(the one effect), and whether it has failed.

`Linking` says what should have happened, by R7RS: an import set is a function from names to locations,
a library has an environment and an instance of its own, macros mean what `Scopes` says. It renames
nothing, expands no library into another and drops nothing. `meant` is kept in step with `machine` by
it. `PassesKeepMeaning` runs the expression after each pass and compares, `EvalKeepsMeaning` compares after
each call of eval, and `NothingUnneeded` says that tree shaking is complete: no set of definitions
is left that only its own members mention, cycles included.

The instance has a library `a` with two procedures, one of which is optimized to the other, a
private procedure, a macro, and a private macro the first one needs; a library `b` that imports `a`
by each of six import sets, has private names like those of `a`, exports the macro of `a` once more, and may
write when it is instantiated; and programs that import either or both in fourteen ways, use everything they
import or nothing, with eval or without. The restrictions: definitions of libraries have
procedures as their values, no program assigns to an optimized name, quotes a renamed one or has a "%" in a name;
eval gets one environment, its expressions define nothing and its libraries have new names (the hazards
say what the code does otherwise).

## 3. Runs

| Run | Question | Instance | Size |
|---|---|---|---|
| `memory_refines_graph` | Is the memory consistent at each step of each collection, does each end, does the memory implement conses with an identity, liveness included, and is an allocation refused only where the last collection found everything live? | heap of 12 values (3 conses in a space), 2 tags, two calls that do not allocate, arguments at hand | 13 thousand states |
| `bytecode` | Does a program arrive as it was compiled, through all of marshalling, encoding, compression and their inverses? Does every text come back through each of the two compressors? | 64 programs; alphabet of 2, window 3, longest match 4, texts up to 9 bytes; bases 4, 2, 2 and 3 for 64, 16, 16 and 31, nodes of 2 elements for 64 | 98 thousand |
| `programs` | Does what the compiler and the interpreter make of a program mean what the program means, wherever a collection falls, and in bounded space? Does every instruction find its operands, and nothing that a collection took? Does the profile of it follow its stack? | 28 programs, 9 of them endless, 27 conses | 1001 |
| `operator_calls` | The same as `programs` where operators are calls: it does not | 19 programs | a violation |
| `exceptions` | Do jumps, winds, parameters and handlers agree, whatever procedures do? | 4 points, 7 things being done, 2 continuations, 2 handlers | 655 thousand |
| `primitives` | Does each primitive leave the value it is for and nothing else, wherever a collection falls? Do `eqv?` and `equal?` agree with what values look like? | stacks of 3 values, 4 conses, numbers -4, 1 and 6 | 11 thousand |
| `input_output` | Is every port a stream of its own, whatever device and file system is below? | 3 ports, tables of 2, 5 paths, files of 2 bytes, 8 pairs of a device and a file system | 119 thousand |
| `ports` | Is what is written what a careful program reads, whatever it looks at in between? | 3 characters out of 5, of one to four bytes, a newline among them | 28 thousand |
| `write_char` | The same with the em dash: it is not | "a" and U+2014 | a violation |
| `macros` | Are macros hygienic, and does eval expand as the compiler does? | 3 forms out of 17, 7 transformers, 108 expressions after each | 649 states |
| `front_end` | Does a program of libraries do what it means after each pass, and what it gives to eval? Is everything that is left needed? | 432 programs, three calls of eval | 21 thousand |
| `foreign_values` | Does a foreign value stay what it is under two collectors? | 4 conses, 3 values, room for 3 | 3 thousand |

Bounds. `MaxWrites` bounds the calls that change the heap in place, not the allocations: a
behaviour may allocate and collect for ever. Three conses in a space suffice for sharing, for
a cycle through two conses, for a forward pointer met from a root and from a field, and for
a space that fills exactly; the proofs show the invariants for every size. In the refinement run
a program uses only what is at hand (`Offer`): the cons it last allocated, `NEVER`, `false` with
another tag, and a number in the place of a cdr; whatever it puts into a root or a field comes from there. Texts are longer than window and longest match together, so that the ring buffer wraps,
matches begin at the far end of the window and overlap themselves. `CHECK_DEADLOCK FALSE` in
`bytecode`: a compressor that has returned everything stops, and so does a decoder.

In `primitives`, `MaxStack` and `MaxConses` allow a list of three, a list of pairs, two names of one cons, and a cycle is
made by no program (`length`, `memq`, `equal?` and the views do not end on one). A negative number stands beside one other number at most,
which is enough for every arithmetic primitive to have one on either side. A program asks for its context, and makes a character, with one value on the stack at most. Inexact numbers are pushed alone, and primitives fail
only at the bottom of the stack, for nothing they leave is looked at again. An error or `halt` ends a program, hence
`CHECK_DEADLOCK FALSE`.

The ports of `input_output` are interchangeable (symmetry). With three of them and tables of two, one is refused for want of an entry,
and a descriptor is used again while another is in use. `MaxLength` bounds places in files and buffers; the paths are
one file under two names whose code points have the same lowest 8 bits, one that no operating system takes, one too long, and one that a
C string cannot be.

The bases of `bytecode` are small so that tags, numbers and references have tails of several
bytes, which with the real bases takes integers above 1024 and dictionaries of 16 entries; the theorems of
`DecodingProofs` hold for all. Each of 16 operands (numbers of all three kinds, symbols with and without
names, constants within constants, vectors that need two levels of nodes) is put into each of four
shapes: a straight line, a branch that joins, branches nested in one that joins twice, and a closure
with a join of its own.

`MaxForms` bounds the programs of `macros`: three forms are two macros and a third that redefines
one, defines one by the other, or binds a name they have free. A program that is invalid stops, hence
`CHECK_DEADLOCK FALSE`.

`MaxPoints`, `MaxStack` and `MaxContinuations` bound `exceptions`: extents nested to a depth of
three on two sides of a common ancestor, a continuation of each; `MaxHandlers` bounds the handlers around one another. `Escapes = FALSE` keeps
before and after procedures, and value expressions that a jump evaluates again, from capturing or calling continuations and from
raising, of which R7RS says nothing definite. What the code does there is in section 6.

`MaxEvals` bounds `front_end`: three calls are an import, a library that imports what is there, and an
expression of either. A program that has made them stops, hence `CHECK_DEADLOCK FALSE`.

Fairness. `WF_vars(Collector)`: `collect_garbages` is a loop within one call and runs to its end
without waiting for anyone; nothing obliges a program to call. `WF` of the next step in
`bytecode`: the encoder writes its whole text and flushes, and the virtual machine reads its input
to the end.
`Fairness` of `Exceptions`: procedures return in the end, and travelling goes on. `Fairness` of `Vm`: the loop goes on until it returns. It is stated with
`Ended` rather than `WF_vars(Next)`, which would have TLC compute every instruction again for
every `ENABLED`; the two agree because no state is stuck, which the check for deadlocks shows
(`Halt` stutters only where `run` has returned).

The programs of `programs` are chosen, not enumerated: closures that share, shadow and nest
bindings; values used as a test, an argument, a binding or not at all; loops and recursion;
rest arguments to procedures and primitives; continuations that leave, come back and come back
from elsewhere; errors with and without a handler. `Space` is the least bound under which
the endless programs pass, and each loop has returned to a former state by then.

Every property of every passing run has a mutant in `PROJECT.json`: a definition changed the
way a plausible bug would change it, under which TLC finds the property violated. The mutants
stand next to the definitions they change, marked "Mutant".

## 4. Proofs

`MemoryProofs` (assuming `MemoryAssumption` and `Aligned`, that half the heap is an even
number of values; with an odd half the last cons of a space would lie half in the other one,
which the assertion in `allocate_unchecked` excludes): `TypeCorrect`, `PointersAlwaysValid`, `SpaceAlwaysSuffices`,
`CollectorAlwaysConsistent`, for every heap size, set of tags and set
of numbers, with and without `gc_always` (the run has it off). The invariant is
`IInv == TypeOK /\ Bounds /\ PointersValid /\ CollectorConsistent`. `PointersValid` alone is not
inductive, for it says nothing while a collection runs. `CollectorConsistent` is the tricolour
invariant: roots already visited and fields already scanned point into the new space, the rest
into the old one; a forwarded cons is forwarded to an allocated copy; and there are exactly
as many copies as forwarded conses (`CopiesCounted`). The last part is why a collection
cannot run out of memory: an unforwarded cons is left in the old space, so fewer than all
have been copied, so there is room (`RoomToCopy`, a cardinality argument). `CopyConsPreserves` is
shared by the five roots and the scan.

`MemoryProofs` also has, under the same assumptions, `MemoryRefinesObjectGraph`, that `Memory` starts where `ObjectGraph` does
and each of its steps is a step of `ObjectGraph` or a stutter, and `RefusedAlwaysAllWereLive`, for every heap (see section 6 for what is dropped after the last collection). The steps of a collection
are stutters but for `Finish`: the graph is read through forward pointers, and a copy or a scanned field changes where a
cons is and not what it holds. `HInv` adds to `IInv` that every cons of the memory has an identity and no two have one
(`Named`), that a copy has that of its original (`CopiesNamed`), and that whatever has been copied was reachable when the
collection began (`OnlyReachable`). The last makes `Finish` exact: what is left is closed under fields and holds the roots, so
it is all that is reachable, and by `OnlyReachable` no more. `ObjectGraph` defines `Reachable` as the least closed set for
that argument.

`ForeignValuesProofs`: `ForeignValuesAlwaysKept`, `SlotsNeverShared`, `TableAlwaysBounded`, for
every set of objects and natives and every capacity. The invariant adds to the properties `Owned`
(every allocated foreign cons, reachable or not, has its value in its slot), because an
unreachable cons still marks its slot and may be reached by the scan, and `Room`, that the
memory never exceeds its capacity. The bound on the table counts the slots by the conses that
own them.

`DecodingProofs` has two parts. About bytes, for all bases within `CodeAssumption`: `BytesFit`, every byte the encoder writes has
7 bits; `HeadsApart`, the decoder tells shared values, ribs and numbers apart by their first
byte; `DigitsArrive`, what `decode_integer_tail` reads of an integer is the integer, whatever its size
and the base of its first part, and it reads all of its bytes and no more; `IntegersArrive` and `FloatsArrive`,
`decode_number` undoes `encode-number` on every
integer, and on every float with an exponent below 64 (see section 6 for the others). `DigitsArrive` is an induction
over the integer, whose quotient is less: `Upwards` does it over the set of integers that add up, and
`DigitsUnfold` shows first that the recursive function of `Digits` exists and does not depend on its domain. Together
with `HeadsApart` it makes an item of `Decoding` what `Encoding` wrote: `ReadHead` begins with `Item`, each `ReadTail` is `WithPart`.

About the lists of the decoder, for any bytes for which `[]OperandsDecoded` holds (the run `bytecode` checks it of those of its
programs, in `ProgramKept`): `ListsStayApart`, `RibsAreKept` and `DecoderFollows`. `DecoderSpec` has every step of
`Decoding`; in `Bytecode` each step is one of them or leaves the variables of the decoder alone. `decode_ribs` has its dictionary and stack
in conses of the memory that it fills, makes a rib of a cons of the stack itself, and moves an entry of the dictionary by two `set_cdr`s
around it. So what it does is right only as long as no cons serves twice. The invariant `IInv` says that there are two sequences of conses
and a set of ribs, `Lists`: each list has the conses of its sequence in order (`IsList`), no cons is in two of the three or in one of them twice
(`Apart`), and what all of them hold are ribs of the set and numbers (`Holds`, `Closed`). `Pushed`, `Replaced`, `Made` and `Popped` are what
a step can do to it; `MoveList` is the move to the front, which relinks three conses and changes no other. The theorems do not
mention the sequences: `CellsOf` has the conses of a list, which are unique (`OnlyCells`), and `Decoded` is the least set that the values
in the lists and the program lead to. `DecoderFollows` reads both lists as sequences of values, `Dictionary` and
`Operands`: a reference does to the first what `MoveToFront` does, which is also what `EncodeShared` does to the dictionary of the encoder. So the two stay
in step as far as the steps go. That the encoder's steps are these, one for one, is a recursion over ribs and left to `ProgramKept`.

`LzssProofs`, for every text over any alphabet of bytes, window and longest match: `SchemeDelivers` and `RustDelivers`, that the decompressor
returns the text, byte for byte and nothing else; `PointerAlwaysInStep`; `WindowAlwaysIntact`. The specifications are those of
`StreamCompression` and `Compression` with `Next`, where compressor and decompressor take turns in any order; `bytecode` lets them
do so once each has something to do. The argument is about the queue between the two: it `Carries` the text from one position to another, if it is a
row of literals and matches, each of them true of the text at the position where its turn comes. A compressor
appends to the row and the decompressor takes from its beginning, so neither needs to know how the other goes about it.
`SchemeInv` and `RustInv` say what each holds of the text: the decompressor's ring the last bytes it has returned, the offset
and length of its match a place that repeats what comes (`Holds`, `Decompressed`), the list of `compile.scm` the window and what
is ahead of it, the ring of Rust the same in one buffer, zero where the text has not begun. What a match of the ring covers is
decided by a recursive function; that it is the one meant at every index is the induction `Upwards` over a set.

`InputOutputProofs`: `PortsAreStreams`, that ports over any device and file system implement `Streams` (all of `ImplementsStreams`, which has no fairness),
`TableAlwaysMatchesPorts`, and the invariant they rest on, `AlwaysConsistent`: `IInv == FilesInv /\ DevicesInv`. `FilesInv` has the table
match the ports one to one, each descriptor a file that the disk or the memory has, places within
bounds; `DevicesInv` says of the buffers what the stream sees of them. A read that comes in chunks is a stream because
of what flattening a sequence of chunks gives (`FlattenSeq`), shown by a least counterexample.

`ExceptionsProofs`: `PointAlwaysExtent`, `AlwaysAlternate`, `ParameterAlwaysScoped`, `AlwaysHandlerOfCaller`, `RaiseNeverReturns`,
`AlwaysHaltsUnwound`, for any number of points, frames, continuations, parameters and values. They rest on `AlwaysNested`, the invariant `IInv`: points are a
tree; every continuation has a stack that could run at its point; the extent is the path of the point, give or take the
one a before or after procedure runs for; values are those bound innermost; and the stack nests as the extents do.
What the last means is the heart of the proof. `Paired`: each thunk that waits on the stack waits at the point its `dynamic-wind` made, and what lies
below it at the parent. `Shielded`: a frame of a travel lies above exactly one jump, whose
destination it leads to, so that the frames between are met in the order of the tree. The properties look at the running procedure alone and are not
inductive: a return, or a call of a continuation, brings back what they do not mention. `HandlerOfCaller` counts
the handlers below a frame from the bottom of the stack, for that does not change as the stack grows. The hypothesis is `~Escapes`, that before and after procedures, and
value expressions evaluated again, do not leave by a continuation or an error (section 3). The value expression of a `parameterize` that is called is not restricted: it
runs at the parent of the point it is for and below the frame that is to make the point (`Computed`), and a continuation of it makes another. `ParameterAlwaysScoped`
says whose value a parameter has, not which of those that one `parameterize` computes.

`VmProofs`: `NothingEverStale`, that no instruction and no error handler uses or leaves a pointer to a cons that a collection took, wherever
the collections fall, whatever the programs and however long they run. It has two hypotheses: that the code is `Compiled`, and
`[]OperandsFound`. Without the second it is false, for an instruction that finds no operand has `Garbage` from there; the run
`programs` checks both for the programs it has. The hypothesis is about the states between
instructions. What the theorem adds is all that happens within one: a call allocates once for each argument, for the continuation and for the frame, and
each time everything may move. The invariant is `Sound(Memory)`: registers and fields hold numbers and pointers to
symbols, to parts of the programs and to conses that are there. Within an instruction there is a memory after each allocation; each is sound, and what the
instruction has in hand is `Live`, that is, read since the last collection or handed to it as a root. What was found at the start is still
there when it is needed because a collection takes nothing that the registers reach (`ReachableIsClosed`, of the breadth-first search in
`Reachable`, whose rounds are counted against the conses), and so neither the stack, the frame nor a list that is still to be spread
(`StaysStack`, `StaysFrame`, `StaysList`). One lemma for each instruction, and one for each primitive that allocates or writes.

`PortsProofs`: `CharactersSurvive`, `PortsAreGood` and `PortsAreTextStreams`. The first is about each code point there is: `write-char` writes what
UTF-8 has for it if and only if it `Survives`, that is, unless the first six bits after those of the first of three or of four bytes are zero;
and then `parse-char-bytes` makes the character of its bytes again. So the characters of `write_char` (section 6) are all there are. The
others are for any set of characters that survive and any bound on what is written and read (`Fit`, which only says this and that
the bound is not zero) and any `Careful` program: ports implement `TextStream`, whatever is written and in
whichever way it is read. The proof has four parts. The bytes of a character: how many follow the first one, and which may. The loops of the read
procedures: each is a recursive function of its rounds, with a closed form by induction over them (`Upwards`). The characters that a
sequence of bytes is: no byte that follows one of a character begins one, so there is at most one such sequence, and what
`read-char` takes is its first. And the invariant `Inv`: what is left of an input port is the rest of a character and then characters
(`Readable`), and of these at most one byte, one character or the rest of one is read ahead (`GoodPort`); a bytevector that is written has the bytes of
characters. `TextStream` alone does not tell why a reader of bytes that stops within a character leaves the others what they can
read, so the refinement needs the invariant. It has one lemma
for each step: a read is a read of the stream, `OpenInput` a stutter.

Only model-checked:

- what is liveness: `CollectorTerminates` and the liveness parts of `ImplementsObjectGraph` and of `RoundTrip`, `ProgramArrives`, `JumpsArrive`,
  `Terminates`; the prover has no liveness under fairness;
- what is defined by recursion over trees: `ProgramKept` and `UsesCounted` of the codec, `Primitives`, `Macros`, `FrontEnd`, and the analyses of `Profiler`;
- `OperandsFound`, `Correct`, `ProperTailCalls`, `ProfileFollowsStack` and `CapturedIntact` of the interpreter: they are about the code that
  the compiler generates, and so an induction over expressions.

## 5. Not modelled

The parsing of command lines, the mapping of memory (`libc/src/mmap.rs`), what runs the compiler at build time, and the
Cayley algebra of `wispy`, whose tables are an external crate. Floating-point arithmetic, which default builds leave to an external
crate, and the packing of values into 64 bits (`value_inner`, `number.rs`): TLC has integers of 32 bits, and what the
packing must not do is lose one of them. Conversions between Rust and Scheme values (`scheme_value.rs`), one expression each.
Bytecode that ends too early, and an exhausted heap in the middle of an instruction, which ends a program.
Pure list, string and character functions of the prelude. `PROJECT.json` gives the reason for each component.

## 6. Disagreements between code and documentation

`operator_calls`: `README.md` promises an R7RS Scheme with its closures and continuations. For a
call whose operator is an expression and not a variable or a `lambda`, `compile-call` leaves the
procedure on the stack below the arguments, and `compile-unsafe-unbind` then writes the value
of the call into that cons instead of taking it off. A closure made in an argument has the cons
in its environment. If the value is the test of an `if`, the interpreter turns the cons into
a piece of code, and the closure looks its variables up there:
`(define (f x) (if ((maker) (lambda () x)) (g) #f))`, where the procedure that `(maker)` returns
keeps its argument in `g`, does not return `x`. In the same way a continuation captured in an
argument, `((maker) (call/cc ...))`, calls the former value when it is entered again. With a
variable as the operator the same programs are right (`programs`), for `compile-let` and `unbind`
leave a captured cons alone (`CapturedIntact`).

`write_char`: `write-trailing-bytes` leaves out a group of six bits that is zero if it is the highest
of those that remain. U+2014 is written as E2 94 and not as E2 80 94; the first 64 characters of every 4096
are concerned from U+1000 to U+FFFF, such as the punctuation at U+2000 to U+203F and at U+3000 to U+303F, and
the planes that begin with U+40000, U+80000, U+C0000 and U+100000 in their first 4096 (`CharactersSurvive`). `features/write.feature` expects
characters of several bytes to be written as they are, and tests three.

Three more that no run is kept for:

- `travel-to-point!` calls an after procedure while `current-point` is still inside its extent. If that procedure raises and nobody
  handles it, `unwind` sets out from the same point and calls the same procedure again, again and again until the memory is exhausted;
  `features/exception.feature` expects a halt, of errors outside such procedures. With `Escapes = TRUE` TLC finds `PointIsExtent`,
  `Alternate`, `ParameterScoped`, `HandlerOfCaller` and `HaltsUnwound` violated.
- `peek-u8` with two bytes read ahead puts the first behind the second (`prelude.scm:2186`), and `read-string` and `read-bytevector` take an element
  more than they return (2266, 2288). With `Careful = FALSE` TLC finds `ImplementsStream` violated by a single `read-bytevector` of
  less than there is. `features/read.feature:225` makes such a call of `read-string`, and nothing after it that would read what is lost.
- `parameterize` evaluates its value expression at each entry of its extent (`prelude.scm:2531`) and restores the old value by
  setting it, which converts it again (2533): a converter that changes what it has returned leaves a value behind that nobody
  bound. R7RS binds a value that has been computed and converted once; the model does not tell these values apart (section 2).

Met while modelling, where no document says anything else and no run shows it:

- `bool::from_scheme` (`dynamic/src/scheme_value.rs:16`) is true of `#f` and false of everything else, and `into_scheme` keeps
  the value.
- A path is its code points modulo 256 (`file/src/file_system/utility.rs:11`): the name U+0161 is the file "a".
- `open` of libc empties a file before it finds its table full (`file/src/file_system/libc.rs:58`); `file-exists?` is `#f` where the
  operating system cannot tell; an `open-file` that `call-with-port` leaves through a continuation or an error keeps its descriptor.
- `equal?` (`prelude.scm:681`) does not end on cyclic data and looks into procedures.
- `allocate` collects when an allocation has filled the memory, not when one is about to fail (`vm/src/memory.rs:207`): a program that
  drops conses after the last collection, and allocates none in between, is refused although there would be room. `RefusedOnlyIfAllWereLive` therefore
  says that everything was live then, not that everything still is.
- A call of a procedure that an optimizer knows is rewritten also where the program has assigned another value to its name (`compile.scm:913`).
- A profile (`stak-profile`) does not pair calls and returns once a continuation or an error has left a procedure; a name with a
  `;` is two frames, a line with a name that has a tab is skipped; durations include those of the calls within, which
  a flamegraph then adds to them.
- Exact division by zero, and `expt` with a negative exponent, panic or wrap around in builds with integers only.
- The clock of the operating system refuses times before its epoch, and may go back.
- A float below 2^-63 does not arrive: `decode_number` scales the mantissa by `1u64 << exponent`, which from 64 on wraps around or, where
  overflow is checked, panics, and `decompose-float` returns such exponents: 2^-66 arrives as 2^-2. `FloatsArrive` is
  proved for exponents below 64, and the floats of `bytecode` have those.

## 7. Plan

Done: memory, LZSS, foreign values, interpreter and code generation, the bytecode, winds,
parameters and exceptions, ports of strings, of devices and of files, primitives, the profiler, macros, libraries, optimisation, tree
shaking. Then, in this order:

1. The packing of values into words (`integer63.rs`) as operators, with theorems that a pointer or a number comes back.
2. `Vectors` and the balanced trees of `prelude.scm`, against functions and sets.
3. The reader and writer of `prelude.scm`: what is written is read as the same datum.
