# TLA+ models of MisraStdC

MisraStdC is a C standard-library replacement: allocators, generic containers,
numbers, text formatting, parsers and thin layers over the operating system,
written without libc where it can be. This directory models the parts of it
whose correctness depends on long sequences of calls, on failures in the middle
of a call, on threads and other processes, or on arithmetic at the edges of a
type. It checks the models with TLC on small instances, and proves theorems for
every instance with TLAPS: about the mutex, child processes, all the allocators,
the map and the resolver.

Each model is written from the C source. `PROJECT.json` gives, for every
definition, the file and lines it stands for.

## How to run

    tlc -workers 2 -config Graph.cfg Graph        # one run; see the table below
    tlapm FutexMutexProofs.tla                    # one proof module

## The system

Everything is linked into one process. A program makes an allocator
(`HeapAllocatorInit`, `BudgetAllocatorInit`, ...), hands it to containers, and
the containers call it through four function pointers (allocate, resize, remap,
deallocate) behind the dispatch layer of `Std/Allocator.c`, which retries and
counts. `Str`, `BitVec`, `Int` and `Float` sit on `Vec`'s growth rules; `Io`
writes values into `Str` and reads them back; the parsers walk cursors (`Iter`)
over text or bytes and fill containers. Containers never share state with each
other; a container and its allocator interact by calls that may return NULL.
Programming errors end the process (`LOG_FATAL`). Only `Mutex` is meant to be
shared by threads; `Proc`, `Socket` and the DNS resolver talk to other
processes.

| Component | State it keeps | Operations | What is hard | What makes it correct | Status |
|---|---|---|---|---|---|
| `Sys/Mutex.c` | one word: 0 free, 1 locked, 2 locked and somebody may sleep | lock, unlock | interleaving of CAS, sleep, unlock | exclusion, no lost wakeup, every finite set of calls returns | modelled, proved |
| `Std/Allocator/Heap.c` | hash table of page descriptors, per-class warm lists, retained pages and regions, counters | allocate, deallocate, resize, remap, deinit | descriptors move while lists hold their indices; every internal array can fail to grow | blocks never overlap, no page leaks or has two owners | modelled, proved |
| `Std/Allocator/Budget.c` | a caller's buffer cut into a bitmap and slots | the same | layout arithmetic; foreign and repeated frees | layout inside the buffer, bits are blocks, contract | modelled, proved |
| `Std/Allocator.c`, `Slab.c`, `Page.c`, `Arena.c`, `Debug.c` | sorted page tables, retained regions, chunks, live and freed records | the same, reset, dispatch with retries | several arrays that grow together; reuse of old memory; a retry after a call that freed | exact books, zeroed means zero, contract | modelled, proved |
| `Std/Container/Map.c` | open-addressing table with tombstones | insert, set, remove, remove-if, clear, reserve, compact, rehash, cursors | failure inside a rebuild, cursors over removed slots, load accounting | a multimap; cursors see each entry once and end | modelled, proved |
| `Std/Container/Graph.c` | slots with generations, two adjacency lists, pending removals | add, mark, unmark, commit, clear, iterate | deferred deletion, id reuse, iterators over a changing graph | a digraph whose ids are never reissued | modelled, proved |
| `Vec.c`, `List.c`, `Memory.c` | arrays, linked nodes, owned payloads | insert, remove, move, sort, merge, resize | copy or growth failure in the middle of a range | a sequence; one payload per item; nothing written outside | modelled |
| `BitVec.c`, `Int.c`, `Float.c` | bits in bytes and limbs, decimal significands | bit operations, arithmetic, number theory, numerals | stale bits above the length, operands that are the result, refused growth, rounding | equal to the mathematics on the live bits | partly |
| `Sys/Proc.c` | pid, three pipe ends, exit status | spawn, read, write, wait, terminate | blocking on pipes, races with the child's end | status exact, no descriptor leaked, calls end | modelled, proved |
| `Sys/Dns.c`, `Sys/Socket.c` | nameserver list, hosts table | resolve, read the files, address text | lost, late, stray answers; half-read files | servers asked in turn and equally often, answers match questions, text read back | modelled, proved (resolver), partly (sockets) |
| `Str.c`, `Zstr.c`, `Io.c`, `DateTime.c` | - | search, split, replace, numerals, format, scan, calendar | ends of ranges, failures in the middle of a format, wraps | write then read is the identity; what was in an output before a failure is there after it | partly |
| `Parsers/JSON.c`, `KvConfig.c`, `Http.c`, `Dns.c`, `Std/ArgParse.c` | a cursor and the object being filled | read, write, skip | cut and broken input | write then read; refusal leaves the cursor | modelled |
| `Parsers/Dwarf.c`, `DwarfUnwind.c`, `ProcMaps.c`, `Tzif.c` | a cursor, a register file, a stack of rows | build a table, look an address up | programs in bytes, cut sections | every encoding of a table gives the table | partly |
| `Elf.c`, `MachO.c`, `Pe.c`, `Pdb.c`, `DwarfInfo.c` | the tables decoded so far | read a file, resolve an address or a section | offsets, counts and sizes that point at each other, scattered blocks, attributes in any order | what the file says is found, a cut file is refused | partly |
| `Log.c`, `File.c`, `Dir.c`, `Prng.c`, `Clock.c`, `Backtrace.c`, `SymbolResolver.c`, `PdbCache.c`, `MachoCache.c`, startup | - | - | - | - | not modelled |

## The modules

    AbstractLock        <-- implemented by --  FutexMutex        FutexMutexProofs
    AllocatorContract   <-- implemented by --  Heap              HeapProofs
                        <-- implemented by --  Budget            AllocatorProofs
                        <-- implemented by --  Allocator         AllocatorProofs
                               AllocatorBase <- Slab, PageAllocator, Arena, DebugAllocator
                               AllocatorProofs, GraphProofs, HeapProofs, MapProofs <- Lemmas
                               (MCHeap checks Heap, MCAllocators Budget and Allocator)
    Multimap            <-- implemented by --  Map               MapProofs
    DirectedGraph       <-- implemented by --  Graph             GraphProofs
                                               Proc              ProcProofs
    Sequence            <-- implemented by --  Containers <- Vec, List <- Container
                                               Int <- BitVec
                                               Resolver          ResolverProofs
                                               Numbers
                                               Scan <- Format <- Text
                                               Json, Messages, Arguments
                                               SystemFiles, ObjectFiles <- Dwarf
                                               (MCLibrary composes everything from Sequence down)

The left column says what a header promises, the middle one what the code does.
An `MC` module only gives values to constants that a `.cfg` cannot write and
puts independent components side by side. Containers and allocators are
single-threaded by design, so one call is one step there; where the code can
fail in the middle, the step chooses which of the call's allocations, copies or
mappings fails. In `FutexMutex` one atomic access is one step, in `Proc` one
system call, in `Resolver` one send or receive.

Operators whose comment begins with `Mutant:`, listed as `as` under `mutants` in
`PROJECT.json`, are wrong on purpose: each is a plausible bug (a dropped guard,
a missing rollback, a swapped order) that makes one property fail, and shows
that the property depends on that line of the code.

### FutexMutex

`state` is `Mutex._state`; `pc[t]` is where thread `t` is in `MutexLock` or
`MutexUnlock`; `c[t]` is the local variable of that name. `FastPath`,
`MarkContended`, `FutexWait`, `Retry`, `Reload` are the five accesses of the
lock, `FetchSub`, `StoreZero`, `WakeOne` the three of the unlock. The futex is
external: it compares and queues in one step, may return spuriously, and wakes
one sleeper of the kernel's choice. Memory order is not modelled: all accesses
are to one word, on which every execution has a single order. The Windows and
macOS primitives have the same contract as the futex.

### Heap

One heap page per OS page (the macOS-aarch64 build has four). A descriptor is
the page, its bitmap as a set, the slots in use, its class and its two list
links. The bitmap has tail bits set for ever, as in the code. The arrays of
XL regions in use, of freed regions and of recycled pages are sequences with a
capacity that grows by pages, and each growth may fail. Requests above the
largest class take whole pages. Requests aligned above 16 bytes go to XL in
the code; they take the same branch as large requests here. `heap.mapped` is
the kernel's side: the user pages that are mapped. `held` is the callers' side:
the blocks they were given and have not freed, by the pointers and sizes of
their calls. It moves by what a call returned and never by what the heap
records, so that a block the heap loses inside a call that fails, or hands out
twice, makes the two differ.

### Budget

`BudgetAllocatorInit` models the arithmetic of `Budget.h`: alignment of the
base, the bitmap's words, the padding and the slots. The bitmap is a set of
bits; the search is by word and lowest bit, as in the code. `deallocate` takes
any integer, since the code checks the pointer itself.

### Slab, PageAllocator, Arena, DebugAllocator, Allocator

`AllocatorBase` is what they share: pages, which the kernel maps or refuses,
and the outcome of a typed call. Each typed allocator is a record with the
fields of its struct, and each of its operations the set of outcomes over the
kernel's answers. `Allocator` is the dispatch of `Std/Allocator.c`: one attempt,
or as many as the effort allows, each with its own kernel. `held` are the
callers' blocks. The debug allocator's backing is any allocator that keeps the
contract; a protected block stays taken. The number of attempts is counted in
`u32` as in the code, so that the largest retry limit makes none. Sums of sizes are the number of the
units they count (`Total`), and the binary search is a function on its bounds,
so that both can be proved about. `stale` notes a zeroed request that was
given memory with an earlier tenant's bytes. `ended` says how a caller's
mistake, or an abort the code does not promise, ended the process.

### Map

`map.slots` is the table: empty, tombstone or an entry. The probe follows the
policy (`linear` or `quadratic`, with a probe budget). `rehash_map` is modelled
with its retry loop: a failed placement grows the table and starts again, and
the allocation of any of those tables may fail. Deep-copy callbacks may fail in
the insertions. Cursors are values: `Walk` is the sequence of slots that
`map_find_first_index` and `map_find_next_index` visit.

A counter has `WordBits` bits and wraps; a table has `MinCapacity` slots doubled
some times (`Tables`). `BoundsAssumption` keeps two situations apart that need
tables no memory holds: a size that is asked for stays below a quarter of the
word, where `length * 4` of the load check does not wrap, and an insertion runs
out of memory before it runs out of its attempts, after which the code aborts.
With 64 bits, 32 attempts and tables from 8 slots on, both say that the largest
table an allocator can serve is below 2^35 slots and that nobody reserves 2^62.

### Graph

`graph.slots` are the node slots, an id is an index with a generation. The
capacities of the two arrays are kept because they decide whether a call needs
memory. `mutation_epoch` is only ever compared with an iterator's copy of it,
and a mismatch ends the process, so the model drops the iterator when the
epoch moves. `aborted` marks the `LOG_FATAL`s that no caller's mistake brings
about. Ids passed in are live, since the code ends the process otherwise;
`graph_contains_node` takes any id.

### Proc

`proc` holds the fields of the handle, `pc` is where the parent is in a call.
`fds[p]` are the descriptors each process has of the three pipes, with the two
copies a child gets from `dup2` kept apart: the numbers `pipe()` returned are
never closed by a program that does not know of them, so closing a standard
stream gives no end of file. `Fork` to `FillProc` are `proc_init`, `SpawnFails`
its failing paths; `WaitReturns` is the `wait4` of `ProcWait` and of
`ProcWaitFor(p, 0)`, `Poll` one turn of the timed loop; `Kill`, `Reap` and
`Close` are the system calls of `ProcTerminate` and `ProcDeinit`. A process the
child leaves behind (`heir`) may keep the pipes open after its death. The
program of the child, the signals and the kernel's side of the pipes are
external. Calls on a handle that failed or was released are outside the model
(they would pass process id 0 to the kernel, which means the caller's group),
and the parent has its own standard streams open (otherwise the numbers of the
pipes may be 0 to 2 and the child's `close` calls hit what `dup2` just made).

### Vec, List and Containers

`Container` has what both share: cells instead of bytes, the memory helpers, the
quicksort with its insertion cutoff, and ownership: `alive` counts, for every
value, the payloads the container answers for. A vec is its buffer of
`capacity + 1` cells, on the heap or on the stack; a list is its nodes by
address with their links and two blocks each. An operation is the set of its
outcomes, since growth and every copy may be refused. `Containers` lets a caller
make any sequence of legal calls; `said` is the last call as the caller saw it,
answer and buffer included, and is what `Sequence` constrains.

### BitVec and Int

The buffer is a sequence of bits in whole bytes; the bits above `length` are
whatever earlier calls left there, and the operands of `MCLibrary` have all of
them set. What the code does byte by byte with a mask on the top byte (growing,
copying, combining, counting) is done byte by byte here. A byte has two bits and a limb two bytes, so that five-bit numbers
take two limbs with a tail. `Int` models the ripples limb by limb, reading an
operand while writing the result when they are one object. The second half of
`BitVec` and of `Int` is one object under any sequence of calls.

### Numbers

What `Int.c` computes above its limbs (numerals, powers, roots, gcd, Jacobi,
modular square roots, primality) and `Float.c`, as operators on naturals and
decimals, with the code's own algorithms: the binary searches, the sliding
exponents, the witness loop. The end of the module compares them with the
definitions of mathematics on the inputs of the cfg.

### Resolver

`dns_resolve_5_zstr` as one call: `turn` is the question, server and attempt,
`sock` the socket of the attempt with its id and port, `flight` the answers
under way. The network loses, delays and duplicates; ids and ports repeat. An
entry appended to `out` is named by its type, its server and its number in the
answer; `tries` counts how often each server was asked each question; any of a call's appends may fail, which skips the entry
(`Selections`). The code compares the id of an answer and never its question, so
that a late A answer with the id of an AAAA question is searched for AAAA
records; `ResolverAssumption` says that nameservers put none there.

### Text, Format, Scan

A text is a sequence of characters, positions count from 0. `Text` has the
searches and comparisons of `Str.c` and `Zstr.c` and their conversions of
numbers, with floating point as exact decimals. `Format` and `Scan` are the two halves
of `Io.c`: specifiers, writers, readers, and the text and binary drivers;
`Format` starts with the calendar of `DateTime.c`, whose instants are triples of
days, seconds and nanoseconds. The end of `Scan` states what they promise.

### Json, Messages, Arguments

`Messages` has the readers and writers of `KvConfig.c`, `Http.c` and `Dns.c`.
A cursor is the text in front of it, so leaving the cursor is giving back the
text. A caller's JSON reader, which in C is a nest of macros, is a shape; the
macros' early returns and skips are modelled. Command-line specifications carry
the value of the variable they are bound to.

### Dwarf and SystemFiles

Sections and files are sequences of bytes. `Dwarf` models the readers of `Buf`,
the header and the machine of the line number programs, the records of
`.eh_frame` and `.debug_frame`, and the machine of the call frame rules with its
stack. `SystemFiles` models addresses as text, `hosts` and `resolv.conf`, the
map of a process and the time zone file, each with the way it is read in pieces.

### ObjectFiles

The four containers and `DwarfInfo.c` as operators from the bytes of a file to
what is decoded: each `*OpenFromMemory` is the chain of the code's decoders in
their order, each with its refusals, and each lookup is on what was decoded. The
`FMT_*` macros of the code are sequences of kinds. The second half of the module
writes files of each kind, from symbols, debug entries, public records or forms
of subprograms, and says what reading them has to give.

Where the model follows the code and a reader might expect otherwise: symbols of a PDB at
one address come in no particular order; the walk of a unit ends at the zero of
its outermost level. Left aside are a unit that ends inside of its own header
and a block longer than 2^63, which the code does not refuse.

## The runs

| Run | Bounds | Shows |
|---|---|---|
| `mutex` | 3 threads | `TypeOK`, `MutualExclusion`, `NoLostWakeup`, refinement of `AbstractLock` with its liveness, `FiniteCallsReturn` |
| `heap` | 1 class of slots of one unit and 1 of two, 3 pages whose buckets collide and wrap, tables 2, 4, 8, XL of 1 and 2 pages, 3 blocks, threshold 4 | the table finds every page, warm lists are exact with one spare page per class, a free frees its block (and one into the middle of a slot none), no page leaks or is owned twice, counters exact, in-place resize fits, and the callers' own blocks keep to `AllocatorContract` and are what the heap records, whatever fails |
| `map` | 2 keys, 2 values, 3 entries, tables 4 and 8, two policies | counters, cursors, scans that end, refinement of `Multimap` |
| `map_rehash` | the same, with `RetryFails` | **violation**: a failed rehash changes the map |
| `map_clear` | 4 keys, 1 table of 4, with `ClearsTombs` | **violation**: a cursor that never ends |
| `allocators` | budget: 828 buffers at three offsets, words of 4 bits; the others: 3 pages of 8 units, 2 to 4 blocks, one retry | layout, bits and statistics of the budget; books of the others, zeroed memory, refinement of `AllocatorContract` by all five |
| `graph` | 2 slots of 2 generations, 2 edges, 1 visit | adjacency, iteration, refinement of `DirectedGraph` |
| `graph_release` | 3 slots, `IndexGrowthFails` | **violation**: clearing a graph ends the process when memory is short |
| `proc` | pipes of 1 unit, 2 units of output per stream, writes of 1 or 2, a time limit of 2 polls, 1 heir | descriptors, exit status, reads end at end of file, what ends each call |
| `proc_read` | 1 unit of output | **violation**: a read counts bytes it did not append |
| `bit_hash` | 3 bits in bytes of 2 | **violation**: two equal vectors have different hashes |
| `library` | see below | containers implement `Sequence` and own their payloads, bits and integers are exact, resolver, algorithms, texts, parsers |

Why these bounds are enough for what they claim: a hash table of eight with
three pages at home in its last two buckets shifts back within the table and
around its end, and a page that is at home later stays where it is; a slot of
two units has a middle;
three entries of two keys put a tombstone before, between and after live
entries of the same key; two graph slots have a self-loop, a pair of opposite
edges, and each slot is reused once; three threads are a holder, a sleeper and
one that barges in. Two bits of a word past the last slot, a full word and a
second word all occur among the budget buffers. Slabs have four slots in two
words or one slot and a tail; the page tables grow at the second and third
entry; an arena's chunk takes one page or two; the debug allocator runs with
every combination of its flags. A pipe of one unit is full after one write and
two units of output overfill it, a time limit of two polls has a poll after a
sleep. `WordBits`, `MinCapacity`, `PageSize` and the like stand for 64, 8 and
4096 and keep their relations.

Three constants separate what holds from what does not. `RetryFails` and
`ClearsTombs` are FALSE in `map`: the two situations in which the code departs
from its header are excluded there, so that the rest of the multimap contract
can be checked, and are the subject of `map_rehash` and `map_clear`.
`IndexGrowthFails` is FALSE in `graph` and TRUE in `graph_release`, likewise.

### The library run

`MCLibrary` has one variable `part` that says which of the independent parts
runs; the others stay at rest. For the pure functions there is one state per
input, and a property is a statement about that input.

| Part | Bounds | Property |
|---|---|---|
| containers | vec, list and stack vec with and without copies, at most 5, 3 and 3 items of 3 values | `ContainerSound`: well formed, nothing outside the buffer, no block lost, one payload per item; `ImplementsSequence` |
| bits | up to 5 bits, bytes of 2, six operands with every stale bit set | `BitsExact`: a call does to the live bits what its name says and a refused one nothing; `QueriesExact`: searches, counts and distances ignore stale bits, a rotation undoes its opposite |
| ints | limbs of 4 bits, results up to 5 bits, operands up to 9 | `IntsExact`: the value of every operation, aliased or not; `QueriesExact` for comparison and hash |
| resolver | up to 3 servers, 1 retry, 2 ids that repeat, 1 port | `ResolverExact`: answers belong to the question and the server, order kept, servers asked in turn and, where none knows the name, equally often before the call gives up, no socket left |
| numbers | 0..300 and some powers, 6 radixes, moduli to 97, decimals of 2 digits | `ArithmeticExact`: the algorithms against the definitions |
| texts | all texts of two letters to length 4, edges of each type, calendar days around leap years, all texts of 8 awkward characters to length 2 | `TextExact` |
| parsers, tables, files | documents, messages and object files written by the model and cut at every place or table, all byte strings of 5 values to length 4, number texts of 7 characters to length 4, up to 3 tokens of 12, up to 2 symbols of 5 or 7, 2 debug entries of 7, 2 public records of 8, 2 subprograms of 10 forms | `ParsersExact` |

`TextExact` says that the pieces of a split joined again give the text, that
replacing is splitting and joining, that the five comparisons, the searches and
the hash agree; that a number, decimal, text, bit vector and instant is read
back from what is written for it in every specifier that keeps it, by exactly
the types that hold it, at the width asked for; that a patch changes as many
characters as it writes or none, and that appending, also one that fails,
leaves what was there and writes the same behind it; that the calendar walks day
by day.

`ParsersExact` says that what is written is read back, in any order, between
blanks and behind members nobody asked for; that whatever is cut short or lacks
a bracket is refused and leaves the cursor; that a DNS name is encoded exactly
when a message can hold it and that any bytes give a legal name or none; that
every spelling of the same options is the same run; that every encoding of a
line table (special or standard opcodes, fixed advance, constant add) and of a
frame (three forms of records, in two sections) gives the rows, and that an
address has the row that covers it; that an address, a hosts file, a list of
servers, a process map and a time zone are read back however they arrive; that
an object file gives the symbols, sections and debug files that were written
into it and an address the symbol that covers it, wherever the blocks of a PDB
are and in whatever form a function says its name and end, and that a file cut
anywhere is refused or gives less, never something else.

In this run u64 is scaled: `U64Max` is 2^24 - 1, the bytes of a typed integer
hold eight values so that the edges of i8 to i64 are small, and words of four
bytes and more keep their low 24 bits. `HeadersMax` is 3, so that the cap of a
request's headers is passed.

`CHECK_DEADLOCK FALSE` appears in `MCAllocators.cfg`, where nothing is left to
call after `Deinit`; in `MCLibrary.cfg`, where an input is answered once and the
resolver is called once; and in the two configurations of `Proc`: programs end,
and a parent and a child that wait for each other wait for ever. The interface
of `Proc` has no call that closes the child's input and none that reads two
outputs together, so a caller has to know its child; `CallsReturn` says which
event ends which call.

The view of `library` leaves out what only describes the last call (`said`, `did`, `asked`):
the properties about it are action properties, which TLC evaluates on every step,
also one that leads to a state it has seen.

### Divergences found by a run

- `map_rehash`: when an earlier attempt of the retry loop ran out of probes and
  a later table cannot be allocated, `rehash_map` restores the storage but not
  `length`, `tombstones` and `policy`; the header says the map is unchanged.
- `map_clear`: `clear_map` leaves tombstones in the table and sets their count
  to 0; the table can then lose its last empty slot, and a cursor never ends.
- `graph_release`: `GraphClear` is documented as unable to fail, and
  `GraphCommitChanges` as failing for an invalid graph only; both may need
  memory for the list of free indices and end the process when refused, with
  three nodes already.
- `proc_read`: `proc_read_internal` ignores that the caller's buffer could not
  grow, and counts the lost bytes in the number it says it appended.
- `bit_hash`: `bitvec_hash` takes the bits above the length that a pop or a
  shortening left in the top byte, where the header says that it hashes the live
  bits; a vector and its clone hash differently.

### Divergences the models reproduce

Where the code departs from a header or a comment, the model follows the code
and the property **leaves the case open**: it claims neither what is written nor
what the code does. The lines are named here, with the property that leaves them
out. What follows without a line departs from what one would expect and from
nothing that is written. None of these is a run of its own.

- **Proc**: `Sys/Proc.h` says that `ProcDeinit` does not terminate the child (it
  calls `ProcTerminate`), that `ProcTerminate` leaves the reaping to `ProcWait`
  (it reaps; a later `ProcWait` returns an error), and that `ProcWriteToStdin`
  returns -1 on failure (with no reader left SIGPIPE ends the caller, unless
  ignored).
- **Allocators**: `bytes_in_use` of the arena does not follow a block freed out
  of order (`Allocator.h:78-79`); after a reset only the last chunk is used
  again (`Arena.h:128-131`); the debug allocator forwards a double free to its
  backing (`Debug.c:332-336`). A retry limit of `UINT32_MAX` makes no attempt at
  all, since `retry_limit + 1` is computed in `u32` (`Allocator.c:30`): a request
  is then refused, and a remap to zero frees nothing.
- **Vec**: clearing and then resizing shows released elements again, which a
  second release then releases twice; a stack vec whose size is no power of two
  aborts before it is full. **List**: a failed `push_arr` or `merge` of a list
  that owns its payloads releases ones the source still owns; a refused
  `ListPushArrL` takes out again the nodes it had inserted, which
  `List/Insert.h:173-175` says stay linked (`ImplementsSequence` admits the list
  as it was and with any first part of the items); `ForeachInRange` starts its
  inner index again.
- **BitVec** (`BitsExact`): rotating left moves towards index 0
  (`BitVec/BitWise.h:155-156`; the property says that a rotation moves one way,
  and that the other call moves back); shifting by the length or more empties the
  vector (`BitWise.h:110-114`, `:132-136`; the property says that no bit of the
  old ones is left); `Replace` and `ReplaceAll` are not undone when memory is
  refused (`BitVec/Pattern.h:177-178`, `:195-196`; left open where the pattern
  occurs). An empty pattern never ends; `RFindPattern` looks at one pattern length
  only.
- **Int** (`IntsExact`): a refused multiplication, division or remainder may
  leave the result cleared (`Int/Math.h:91-92`, `:142-143`). The signed helper
  ignores refusals, so a modular inverse may be wrong and say ok;
  `IntIsProbablePrimeWithError` never sets its error. **Float**
  (`ArithmeticExact`): `FloatToInt` refuses fractions and negatives
  (`Float/Convert.h:50-60`); only whole values from zero up are claimed. "1e+" has
  exponent 0; zero and negative zero are equal and hash differently.
- **Str, Io** (`TextExact`): `str_split` drops a last piece that begins the key or
  is empty, and may return none (`Str/Ops.h:361-364`; every piece before it is
  claimed); right and centre fill goes in front of everything in the output, not
  of the field (`Io.h:356-360`, pinned by `Tests/Std/Io/Write.c:1675-1690`), and a
  hexadecimal or octal bit vector replaces what stands there, where `Io.h:446-447`
  and `Io/Private.h:25-28` keep the existing contents (claimed are fields of these
  kinds in an empty output, and all others behind an output). NaN in capitals is `F64_NAN`;
  the scanner charges escapes differently from what it consumes, reads past a
  field in raw mode of `str_read_fmt`, and takes leading blanks as success of a
  reader that failed; backslashes are not escaped and a written NUL is refused;
  a scientific digit is rounded without its carry; `str_replace` ignores a
  refused insertion.
- **DateTime**: before 1970 the u64 count wraps and comparison, addition and
  weekday are wrong; seconds of an offset are lost in the text.
- **JSON** (`ParsersExact`): a string that nothing ends is accepted
  (`JSON.h:149`); the escape of a code point is refused where `JSON.h:143-145`
  skips it; quotes and backslashes are written unescaped, so that the writer is
  not the mirror of the reader (`JSON.h:16-19`). Strings with every escape, quote
  and backslash are read, and written ones hold none. "1e" and "." are numbers; integers saturate; the array
  macro appends a zero item for a value it could not read. **KvConfig**: "-" and
  blank are 0; pairs before a bad line stay set though the cursor goes back.
- **ArgParse**: a bundled `-h` with the automatic help writes through NULL; the
  message for `-l` suggests `-l=VAL`, which is not accepted; variables of earlier
  tokens are set when a later one fails, contrary to the comment; `seen`
  survives a run; an i64 that does not fit is accepted as the nearest one
  (`ArgParse.c:124-127`; left open by `ParsersExact`).
- **HTTP**: an empty header value is refused; a line without ": " becomes part of
  the next one's key; parsing again appends; a bad escape in the url leaves a
  released `Str` in the request. **DNS**: "." cannot be encoded; records before a
  bad one stay in the response; a server is asked `retries + 1` times, and NOERROR
  without a matching record goes on to the next server (`Sys/Dns.h:171-172`,
  `Dns.c:603`; `ResolverExact` leaves the number open, and claims that servers are
  asked equally often only where none answers NOERROR).
- **Mach-O** (`ParsersExact`): nothing ends the last symbol below an address
  (`MachO.c:496-498`); addresses up to the end of the section are claimed.
  **Dwarf** (`ParsersExact`): pool offset 0 means no name, so the first string of
  a section is lost from every row (`Dwarf.c:644-645`); the directory of the first
  unit is left open. A unit too short for its own header
  aborts although the comment near line 603 calls it in bounds by construction.
  **DwarfUnwind**: a letter of the augmentation nobody knows does not end the
  walk, as the comment at 271 says it does.
- **System files**: the last name of a hosts line with CRLF keeps the `\r`, an
  address in `resolv.conf` with one is refused; hexadecimal numbers of a process
  map beyond 64 bits lose their top; a line whose permissions are short takes
  them from the next line, which is lost; "[1.2.3.4]:80" is an address.

## Fairness and liveness

In `FutexMutex` every thread that is inside `MutexLock` or
`MutexUnlock`, or owns the lock, eventually takes its next step (weak fairness
of `Step(t)`). The kernel schedules runnable threads, and an owner unlocks. No
thread has to call `MutexLock`, and nobody has to be woken unless somebody
wakes. Under this the code is not starvation-free (a woken thread can lose the
race for ever), so the property is that if calls stop coming, all of them
return.

In `Proc` the parent goes on while it is inside a call and can (weak fairness of
`InCall`), and a signal that was sent to a child that does not ignore it is
delivered (weak fairness of `ChildKilled`). The other processes owe nothing:
they need not exit, read or write. So a call is only promised to end by what
ends it: a time limit, the death of the child, the end of all writers or
readers. An interrupted system call (EINTR) may happen and never has to.

The other components are called and return; they promise no progress. The
attempts of a resolver call are bounded by `ResolverInv` of `ResolverProofs`.

## What is proved

`FutexMutexProofs`, for any set of threads, finite or not: `TypeCorrect`,
`Exclusion`, `Wakeup` and `RefinesLock` (initial state and step refinement of
`AbstractLock`). `TypeOK` and `MutualExclusion` together are inductive: the
window of the unlock between `fetch_sub` and the store needs the fact that the
state is not 0 there. `NoLostWakeup` is preserved relative to them.

`ProcProofs`, for pipes, outputs, inputs and time limits of any size:
`StatusExact` (`ExitStatusExact`) and `DescriptorsExact` (`FdsExact`, which
contains the types). The first needs that an ended child has no descriptors, so
that a broken pipe cannot end it twice, and that a termination under way has an
uncollected child (`EndedOnce`). The second needs that nothing is written before
the child's program runs (`FreshChild`), for the error line of a failed
`execve`, and that exit codes and signals fit one byte (`CodesOK`).

`AllocatorProofs`, for any page size, any set of allocators, any requests,
efforts and retry limits, and any number of pages, blocks and attempts:
`AllocatorBooks` (`AllocatorBooksExact`), `ZeroedBlocks` (`ZeroedMeansZero`) and
`AllocatorsKeepContract` (the refinement of `AllocatorContract`), theorems of
`DispatchSpec`. Its assumption, `DispatchAssumption`, is what the code asserts or
its constructors give: an allocator starts as its init macro makes it; a slot
divides the page and fills whole bitmap words or less than one
(`slab_finalize_runtime_consts` ends the process for any other); an alignment
above the page is a multiple of it; a table entry fits a page; sizes are
unsigned. The page allocator replaces an alignment that is no power of two by
that of a page, which the model takes as given.

The inductive invariant, `DispatchInv`, says that the call under way is one the
callers can have made and that the books of the allocator are sound between two
of its attempts, even when an earlier attempt was refused half-way. Sound books
are more than `AllocatorBooksExact` states:

- `SlabSound`: the sorted page array and the bitmaps grow together, the bits
  past the last slot stay set, and the clear and set bits are exactly the free
  and the held slots. `SlotsApart` (no two slots of any two slabs overlap) and
  `SlabFindsNone` (an address that is not held leads to a free bit) carry the
  contract and the detection of a repeated free.
- `PageSound`: both tables sorted, no page in two regions or in both tables,
  every held block with an entry that has room for it, the footprint the sum of
  both tables and of the two arrays. The step that matters is a reuse whose
  live table cannot grow: `PutLive` and `PutFree` either add or change nothing.
- `ArenaSound`: blocks end below the fill of their chunk, and `LastSound` says
  that what lies at or behind the most recent block in the last chunk is that
  block: this is what makes resizing or taking it back in place correct.
- `DebugSound`: one record per held block on a backing block of its own; a
  protected address in the freed history has no live record; every overrun is
  either noticed or still in a canary.

`DispatchSteps` has one lemma per typed operation (`SlabAllocOK`, `PageFreeOK`,
`ArenaRemapOK`, ...), each for every outcome the kernel can choose. The module
begins with the helpers the allocators share: the binary search finds the lower
bound of an ascending table, insertion and removal at an index keep it sorted,
totals follow an insertion or removal, and pages make disjoint addresses.
`Lemmas` has the arithmetic, an induction over the natural numbers that needs no
operator parameter (a set of numbers that contains 0 and successors), the
counting behind the totals, the sizes of sets, and sequences as lists: a member
put in front, taken out, or overwritten by the last one. `MCAllocators` checks the same `DispatchNext`, for
the instances the cfg names, in one run with the budget.

The last part of `AllocatorProofs` is about `Budget`, for any finite or infinite
set of buffers and sizes that `BudgetAssumption` admits: `BudgetTypeCorrect`
(`BudgetTypeOK`), `BudgetLayoutFits` (`PoolInsideBuffer`), `BudgetBlocksTracked`
(`BitsAreBlocks`), `BudgetStatsCorrect` (`StatsExact`) and `BudgetKeepsContract`
(the refinement of `AllocatorContract`), theorems of `Spec`. The invariant
`BudgetInv` adds to `BitsAreBlocks` that the pool is well formed (`WellFormed`):
at least one slot, a bit for every slot, the bitmap before the slots, the slots
aligned and inside the buffer. That the arithmetic of `Init` makes every
accepted buffer well formed is `InitWellFormed`, from the division lemmas of
`Lemmas`; that different slots do not overlap is `PoolSlotsApart`.
`BudgetStatsCorrect` uses that the bitmap is finite and that its cardinality
moves by one with each bit.

`HeapProofs`, for any finite set of pages, hash function, size classes, growth
units, threshold and request sizes that `HeapAssumption` admits, wherever the
kernel puts a mapping and whatever it refuses: `TableFindsItsPages`
(`PagesFindable`), `WarmListsStayExact` (`WarmListsExact`), `FreeTakesItsBlock`
(`FreesItsBlock`), `PagesStayOwnedOnce` (`EveryPageOwnedOnce`),
`CountersStayExact` (`CountersExact`), `ResizeInPlaceFits` (`ResizeFits`) and
`HeapKeepsTheContract` (the blocks in `held` keep to `AllocatorContract` and are
the ones the heap records), theorems of `Spec`. `HeapAssumption` says of the classes what the table at the top of
`Heap.c` shows: a slot divides the page and a page has two or more.

All seven follow from one inductive invariant, `IInv`. The difficulty is that a
link of the table is a bucket number, and that removing one page moves others. So
the invariant names buckets by their pages: there is a set D of pages in the
table, a bucket `loc[p]` and contents `cont[p]` for each, and for each class a
sequence `w[c]` of pages, its warm list (`TableIs`). Moving a descriptor changes
`loc` and nothing else. The parts, and why each is needed:

- `Findable`: the buckets a page's probe passes on its way to the page are all
  occupied. Filling an empty bucket keeps it. For the back-shift (`Scanning`) it
  holds at every step for all buckets but the hole, and no page the scan has
  passed is reached through the hole. The table is half empty at least
  (`2 * count <= capacity`), so the scan, like every probe, ends at an empty
  bucket.
- `Lists`: the links go both ways along `w[c]`, and a page in no list has none.
  `WarmExact`: the pages listed are those with a free slot. A page that fills is
  unlinked, one that gets a slot back is pushed, a rebuild of the table lists
  anew what it re-inserts (`Rehashed`).
- `GoodPages`: the tail bits stay set, `used` counts the other set bits. `Spare`: a
  class has at most one page without live slots, because the reclaim leaves one
  only if it is alone in its list; so it needs `WarmExact`.
- `Stores`: every mapped page is in exactly one of D, the recycle stack and the
  two region arrays, each array has room for what it holds (`Roomy`), and
  footprint and retention count them (`Tallied`). No failed growth loses a page:
  what cannot be parked is unmapped.
- `Ledger`: `bytes_in_use` is the number of bytes in the callers' blocks. It
  rests on the blocks being apart (`Blocks`), which follows from the pages being
  in one place and slots of a page not overlapping; so does the contract.

`StepIs` has the four entry points (`Allocating`, `Deallocating`, `Remapping` and
the deinit), each for every place and every refusal. The run `heap` checks what the invariant says in terms of buckets, since the properties
were stated before it; `IInv` itself quantifies over functions and is left to
the prover. The loops of the code are recursive functions here, opened by
induction over their rounds (`BackShift`, `Reinsert`, `DrainOne`).

`GraphProofs`, for any number of slots, generations, edges and visits, any order
of calls and any refused growth: `AdjacencyStaysExact` (`AdjacencyExact`),
`IterationStaysExact` (`IterationExact`) and `GraphIsTheDirectedGraph` (the
refinement of `DirectedGraph`). All assume `~IndexGrowthFails`: when the array of
free indices cannot grow, releasing a node ends the process, which is what the
run `graph_release` shows; the theorems show that nothing else goes wrong.

The invariant `IInv` says that the graph is `Valid` and the iterator fits it
(`IterFine`). The parts of `Valid`, and why each is needed:

- `Tidy` and `Mirrored`: no list has an id twice, and every entry of one list has
  its counterpart in the list of a live node. Removing an edge searches both
  lists for one entry each; a second one would be left behind, and would later
  name whatever node gets the slot.
- `Freed`: the free indices are the free slots, each once. A reused slot is then
  blank and nobody's.
- `Counted`: `live_count` and `pending_delete_count` are the occupied and the
  marked slots. A commit decides by the second one whether it has nodes to
  release.
- `Pending`: the pending removals are edges of the graph, each once, so that the
  number a commit returns, released nodes and pending removals together, is right.

Inside a commit less holds. `CommitPending` removes the pending edges, then those
that leave marked nodes, then those that lead to them, and only then releases the
slots. `Linked` (lists and edge count) holds throughout; before the release every
marked node must have both lists empty (`Isolated`), and `Released` is what holds
after the first of the slots have gone. The loops are recursive functions over
the slots and the pending list; `RunThrough` opens them by induction over their
rounds. `Trimmed` describes a graph that lost edges and nothing else, and
`Holds` states the outcome of a call in the terms of the header: nodes, edges,
marks, pending removals, issued ids, visits. `CommitEffect` and `CommitCount` are
the two facts about a commit the refinement rests on.

An iterator over nodes has seen exactly the live nodes up to its slot, in
ascending order (`NodeIter`); one over a list has seen its first `at` entries
(`ListIter`). A call either ends the iteration, since it changes the epoch, or
leaves every slot's ids and lists as they are (`SameView`): marking a node or an
edge while iterating is the case where this is not obvious.

`MapProofs`, for any keys, values, hash function, policies, predicates and
capacities that `MapAssumption` and `BoundsAssumption` admit, and for every
failing allocation and copy: `MapCountersExact` (`CountersExact`),
`MapScansEnd` (`ScansEnd`), `MapCursorExact` (`CursorExact`),
`MapImplementsMultimap` (the refinement of `Multimap`) and `RehashFailsClean`
(`FailedRehashKeepsMap`). All but `ProbesCover` assume `~RetryFails` and
`~ClearsTombs`. These are not weaker readings of the properties: the runs
`map_rehash` and `map_clear` show a property violated as soon as either is
dropped, and the theorems show that nothing else violates them.

The inductive invariant `Inv` (`MapInvariant`) is that the table is `Sound` and
holds no more than `MaxLength` entries. TLC checked its conjuncts on the
instance of `map` before they were proved. Its parts, and why each is needed:

- `Counted`: `length` and `tombstones` are the occupied and the deleted slots.
  Both wrap in the code, so that this needs a bound on the table (`TombsBound`).
- `Roomful`: both together fill at most three quarters. No property states it;
  it is what the load check of an insertion keeps, counting the tombstones, and
  it leaves the empty slot at which a scan ends (`HasEmpty`).
- `Findable`: every entry lies where the scan for its key reaches it. Filling
  the first tombstone or the empty slot at the end keeps it (`FillFindable`),
  deleting keeps it because a tombstone does not end a scan (`RemoveHits`), and
  a rebuild establishes it anew, entry by entry (`RefillHolds`).

`ProbesCover` is the arithmetic under this: the triangular numbers below a power
of two differ modulo that power, so that the quadratic probe, like the linear
one, meets every slot once in a round; a budget above the capacity then meets no
entry twice before the empty slot (`ScanShort`). `WalkExact` counts along the
cursor: after i steps it stands on the i-th hit of the scan or at the end.
`RemovalEnds` does the same for the removal of all entries of a key, which walks
on from a slot it has just deleted. `GrowForReady` shows that the attempts of an
insertion end in a free slot or without memory: each one that finds no slot at
least doubles the table. The recursive functions of these walks are opened with
`RunExists`, which builds a run of any loop by induction over its rounds.

`ResolverProofs`, for any nameservers and answers that `ResolverAssumption`
admits, any hosts table, ids, ports and number of retries, and any loss, delay
and repetition: `ResolverAnswersExact` (`ResolverExact`), a theorem of
`ResolverSpec`. The invariant (`ResolverInv`) gives the attempts made by a turn
(`Tally`): all retries of every server before it, as many as the turn says of its
own, none after it; an earlier question has all of them unless it was answered.
`AttemptMoves` shows that the loops keep this at each of their three ends. Two
facts about what is appended are not in the property: while a question is open
`out` holds only A records, none while A itself is asked, which gives the order
of the two types; and no AAAA answer is under way before AAAA is asked, so that a
record found under another question can only be the one the assumption excludes.
That a bound socket has a port other than 0 tells it from no socket.

Only model-checked: the containers, `BitVec` and `Int`; that the graph's index
list can end the process (`graph_release`); the ends of reads (`DrainedAtEof`); the
liveness of the mutex and of `Proc`, since the prover does not support liveness
under fairness or ENABLED. Numbers, texts, parsers, tables
and files are recursive definitions over data, about which the prover cannot
reason by induction; they are checked on the inputs above and no further.

## Not modelled

- Of the object files: opening by path and the copying forms are a file read or
  a copy in front of what is modelled, `dwarf_functions_build_from_elf` picks
  three sections; the caps on symbols and streams need files too large for TLC.
- `Log.c` writes through `Io` and ends the process on `LOG_FATAL`, which the
  models treat as the end of the behaviour. `File.c`, `Dir.c`, `Clock.c` and the
  socket calls are wrappers over system calls, `Prng.c` one mixing function.
- `Backtrace.c`, `SymbolResolver.c` and the two caches serve diagnostics; their
  tables come from the parsers of object files.
- The startup code and the stubs have no state of their own.

Of the modelled components these are left out: the memoised validators (a dirty
bit decides whether a deep check runs) change no other state; the counters that
only describe take part in no decision; `MapSwap`, the typed macros and the
iteration sugar over each container only wrap modelled calls; the wording of
messages. Memory never runs out in the models of texts, parsers, tables and
files, where a refused append is the business of `Vec`. A record of call frame
information shorter than its own id field makes a length wrap and is outside the
model. The registers of the line number machine that no row shows (basic
blocks, prologue and epilogue marks, the discriminator) are left out.

## Plan

1. Proofs: `Vec` and `List` implement `Sequence`, one operation at a time, as
   `Graph`'s lists do here.
2. Fault injection in the texts: refused appends in the middle of a format, of a
   JSON object and of a header list.
3. The cache of PDB and Mach-O files, when a miss is retried.
