# A TLA+ development of the Egg runtime

Egg is a Smalltalk system whose C++ runtime (`src/runtime/cpp`) interprets
treecodes, manages its own heap with a garbage-first collector that moves
objects, and caches method lookups at the send sites. The kernel that runs on
it is Smalltalk (`src/modules/Kernel`). This directory models the parts of that
runtime where an error shows late and far from its cause, checks them with TLC
on small instances, and proves the most important invariants with TLAPS for
every size.

## 1. Inventory

| Component | State | Operations | Talks to |
|---|---|---|---|
| Spaces (`GCSpace`) | bump pointer, soft limit, committed limit | allocate, commit, reset | operating system |
| Old zone (`AllocationZone`) | list of spaces, current space, reserve, empty spaces, evacuated spaces, occupancy of each region | allocate, bump, create a space, recycle, count occupancy | heap, collector |
| Heap (`GCHeap`, `GCGuard`) | list of all spaces, large spaces, collection requested, safepoint and unsafepoint flags | allocate (fast, slow, large), collect if due, nested guards | evaluator, zone, collector |
| Collector (`G1GC`, `GarbageCollector`) | mark and forwarding of each object, stack of spans, evacuated regions, lists of ephemerons, weak containers and stacks, countdown | choose regions, scan roots, trace, evacuate, follow and rescue ephemerons, sweep large spaces, release | heap, zone, runtime |
| References known to the collector (`GCedRef`, `StackGCedRef`) | registry with free indices; slots of the evaluator's stack | create, release, follow | runtime, collector |
| Object format (`HeapObject`) | header: hash, size, flags, behavior | sizes, flags, forwarding | everyone |
| Dispatch caches (`SAbstractMessage`, `Runtime`) | inline cache of each send site, list of sites by selector, global cache | send, look up, register, flush | evaluator, `MethodDictionary` in Smalltalk |
| Evaluation context | stack, registers, frames | build and pop frames, access temporaries, environments | evaluator, collector |
| Evaluator | work list, result register, primitives, undermessages | run operations, return, primitives, callbacks, switch of processes | context, runtime, heap |
| Treecodes and linearizer | bytes and literals of a method; its list of operations | encode, decode, linearize | compiler, evaluator |
| Small integers | tagged 63-bit values | arithmetic underprimitives | Smalltalk numbers |
| Processes (`ActiveProcess`, `ProcessorScheduler`, `Semaphore`, `Delay`, `Timer`) | queues by priority, waiting processes, signals, protected frames | suspend, resume, wait, signal, non-local return with ensured blocks | evaluator (switch of stacks), collector |
| Loader, source modules, `Module` and `KernelModule` in Smalltalk | loaded modules by file name and by symbol, namespaces, extensions and what they replaced, loads under way | load, create classes, compile, import, bind, register | bootstrapper, compiler, evaluator |
| Image segments | segment bytes, imports, exports | relocate, link, fix up | heap, loader |
| Compiler | tokens, syntax tree, scopes, captured environments | parse, inline, bind, position, encode | bootstrapper, loader |
| Bootstrapper | class specs, species under construction, symbols, namespace, method dictionaries | create the kernel's objects in order, fix up, install methods, hand symbols over, convert dictionaries | loader, compiler, runtime |
| Launcher, FFI, platform code | - | input and output | operating system |
| Metacircular, JavaScript and Pharo runtimes, class libraries | - | - | - |

The interpreter is one thread. There are no locks and no data races; what
interleaves is the program and the collector (at every allocation below a
safepoint guard and at every return outside an unsafepoint guard), the
processes of Smalltalk (at explicit switches), callbacks from foreign code, and
installations of methods between sends. The hard behaviours are therefore:

* a collection in the middle of anything that holds an address: objects move;
* passes that modify the lists they iterate over: regions, large spaces,
  ephemerons, the stack of spans;
* exhaustion: of a space, of regions, of what was kept back for evacuation;
* caches that refer to methods which are replaced;
* stacks of suspended processes, which nothing but the collector looks at;
* positions that count from 1 in the Smalltalk originals and from 0 in C++;
* passes that must agree without a word between them: what a block captures is
  decided, numbered, encoded, decoded, linearized and read from a frame by six
  different pieces of code;
* the system changing under itself: the method dictionaries and symbols through
  which the bootstrap sends its messages are replaced by these messages, and
  modules replace methods of others while they are loaded.

What makes a component correct: of the heap, that no object in use overlaps
another or lies in memory that is given away; of the collector, that the
program cannot tell that it ran; of the caches, that they answer what the
dictionaries hold; of compiler and evaluator together, that a method does what
its parse tree says; of the bootstrap and the loader, that lookups find what the
sources say; of the processes, that each is resumed as it was suspended and that
ensured blocks are evaluated once. Section 6 says which of these are not done.

## 2. Modules

| Module | What it is | Source |
|---|---|---|
| `GCSpace` | operators on one space | `Allocator/GCSpace.*`, `Posix/Memory.cpp` |
| `AllocationZone` | operators on the old zone | `Allocator/AllocationZone.*` |
| `GCHeap` | state machine: allocation policy and collection by regions | `Allocator/GCHeap.*`, `GCGuard.h`, `G1GC.*` |
| `GCHeap_proofs` | theorems about `GCHeap` | |
| `AbstractHeap` | what the program sees of a heap: no addresses, no collector | |
| `G1GC` | state machine: one traversal that marks, moves and corrects | `Allocator/G1GC.*`, `GarbageCollector.*` |
| `G1GC_proofs` | theorems about `G1GC`, and that it implements `AbstractHeap` | |
| `LargeSpaces` | state machine: spaces of large objects and their sweep, with its theorem | `Allocator/GCHeap.cpp`, `G1GC.cpp` |
| `DispatchCache` | state machine: sends, lookup, installation, removal | `GCedRef.h`, `Evaluator/Runtime.*`, `SAbstractMessage.h`, `Evaluator.cpp`, `MethodDictionary.st` |
| `DispatchCache_proofs` | theorems about `DispatchCache` | |
| `ParseNodes` | parse trees | `Compiler/AST`, `LiteralValue.h` |
| `Parser` | operators: tokens to a parse tree | `Compiler/Parser` |
| `Scopes` | operators: inlining, names, what blocks capture and where it is | `SemanticVisitor.cpp`, `MessageInliner.cpp`, `Compiler/Binding` |
| `SExpressions` | expressions and operations of the runtime | `Evaluator/S*.h` |
| `Treecodes` | operators: encoder, literals, decoder | `TreecodeEncoder.cpp`, `TreecodeDecoder.h`, `SMethodNode.cpp` |
| `Linearizer` | operators: expressions to operations | `SExpressionLinearizer.cpp` |
| `SmallIntegers` | operators: tagging, arithmetic of a word of `PointerBits` bits | `SmallInteger.*`, `Evaluator.cpp` |
| `Evaluator` | actions: one per operation, primitive and undermessage | `Evaluator.*`, `EvaluationContext.*` |
| `Unwinding` | the Smalltalk methods of returns and ensured blocks, as parse trees | `ActiveProcess.st`, `Closure.st` and what they send |
| `Meaning` | reference: what a method means, from its parse tree alone | |
| `Toolchain` | state machine: compile, launch, run | `SSmalltalkCompiler.cpp` |
| `Bootstrapper` | actions: the phases of the bootstrap | `Bootstrap/Bootstrapper.*`, `CodeSpecs.cpp`, `SymbolProvider.cpp`, `Runtime.cpp` |
| `ModuleLoader` | state machine: bootstrap, then any loads | `Loader.cpp`, `SourceModuleLoader.cpp`, `Module.st`, `KernelModule.st`, `HostSystem.st` |
| `ModuleLoader_proofs` | the theorems that symbols of `ModuleLoader` are unique, that nothing in it dangles and that registered modules are complete | |
| `ModuleLoader_sources` | lemmas: what the sources say of dictionaries, and the steps that make classes | |
| `ModuleLoader_lookups` | the theorems that every lookup finds the method of the sources and that overridden methods are kept | |
| `FoldedSequences` | operator: what a loop over a sequence computes | |
| `FoldInduction` | theorem: what the body of a loop maintains, the loop maintains | |
| `MCGCHeap`, `MCG1GC`, `MCLargeSpaces`, `MCDispatchCache`, `MCToolchain`, `MCModuleLoader` | instances for TLC | |

`Toolchain` composes `Parser`, `Scopes`, `Treecodes`, `Linearizer` and
`Evaluator`; `ModuleLoader` extends `Bootstrapper`. The modules from
`ParseNodes` to `Toolchain` are for TLC: trees need RECURSIVE operators, about
which nothing is proved here. The loops of `Bootstrapper` and `ModuleLoader` go
over sequences and are written with `Folded`, a recursive function.

### GCHeap: the zone by regions

`zone` is the record of the fields of `AllocationZone`; a space is its bump
pointer and two limits, as offsets. An object is the place where it lies and
the size of its body. `AllocateInCurrent`, `AllocateLarge`, `AllocateSlow` and
`AllocateBumping` are the ways through `GCHeap::allocate_`, the last after a
collection or in place of one; `OutOfSpace` is `error_`, which ends the
process. `Return` is the check at `visitOpReturn`, `EnterUnsafepoint` and
`LeaveUnsafepoint` the guards, each of which restores what it found. A
collection is `ChooseRegion` for each region in the order of occupancy,
`StartTracing`, one step per object that is reached (`CountObject`,
`EvacuateObject`), `EndTracing`, `ReleaseRegion` for each position of the
release loop, and `FinishCollection`.

Abstractions: the order of the trace is any order (`G1GC` is about the order);
what lies outside the zone is only counted; `HeaderSize` stands for both sizes
of header; the countdown stops at zero, as only its sign is read.

### G1GC: the traversal

`heap` maps addresses to objects with a behavior (field 0) and fields.
`resolveObject`, called by `ScanRoot` and `ScanField`, marks an object when it
meets it first, copies it when it is in an evacuated region, leaves a forwarder
and interrupts the span that is being scanned (`queueCurrent`); the corrected
reference is stored. Ephemerons are set aside and follow the two nested loops of
`followEphemerons` and `followLiveEphemerons`: `FollowEphemeron`,
`SetAsideEphemeron`, `SwapUncheckedWithUnreached`, `RescueUnreachable`,
`RescueEphemeron`. `Release` makes the addresses of the evacuated regions free
again.

What can be reached (`accessible`) is the least set that the roots lead into and
that no field leads out of, with forwarders followed; being the intersection of
all such sets it needs no recursion, so that it can be reasoned about.

Abstractions: addresses are finitely many (`IsFiniteSet(Address)`: the code
reserves its heap once), which is what makes the count of what has still to be
copied a number; any set of addresses may be evacuated; new objects and copies go
to the lowest free address; objects carry an identity that the code does not
have, so that a copy can be recognised. Roots are registers, slots of the
active stack and GCedRefs alike: the code treats each as one reference to
correct. `ContextSwitch` keeps only what a suspended stack refers to.

`AbstractHeap` is the promise: a program that creates objects and stores
references, with objects that exist as long as they are reached, and the one
observable effect of a collection, that ephemerons whose keys are not alive
otherwise are rescued. `G1GC` implements it (`CollectionIsInvisible`) with the
mapping that takes addresses to identities and follows forwarders.

### LargeSpaces

A large object has a space of its own. Every space is registered with the heap;
those that evacuation creates are also put on the list that `sweepLargeSpaces`
goes over. The sweep is one step per position, with its positions as in the
code. Spaces are not used twice; that another space may since lie where a freed
one was is a choice in `FreeSpace` (`alsoUnmapped`), and `undefined` records
that memory was used which is not the sweep's: from there on the code promises
nothing. The first loop writes what it keeps one position too far, and the loop
goes on to read what it wrote. `SweptSpacesExist` is what breaks by that; how far
the damage goes is `SweepLeavesLive`: the first position may be stale after a
sweep that kept an older space, and no other is.

### DispatchCache

A send that its site's inline cache cannot answer is `SendUndermessage` or
`SendMethod`, which goes through the global cache and the behaviors, registers
the site and caches the pair. `Install` is `MethodDictionary>>at:put:`, with
the flush it ends with. Removal is two steps, `FlushRemoved` and `Remove`,
since the Smalltalk code flushes in a loop that sends messages and replaces the
table afterwards. `findSelector` and `findPair` are `std::map::find` under the
comparator of the code, in the way the standard libraries implement it (lower
bound, then one comparison): `precedes` is the comparator.

Abstractions: hashes are different (16 bits in the code); the chain of
behaviors does not change, so it is the constant `Lineage`; equal entries of
the global cache are one.

### Toolchain: from tokens to a result

A step of `Toolchain` is what the program does in one call: `FeedLibrary` and
`FeedMain` are the scanner, which delivers the tokens of the next method;
`CompileMethod` is `compileMethod_`, the parse, the analysis and the encoding
together; `Launch` is `send_to_with_`; `Run` is one operation of the evaluator.
`Prepared` decodes and linearizes a method the first time it is invoked, as
`prepareForExecution_` does; `Activation` is the one place that uses it, for
sends, returns from blocks, `perform:` and the evaluation of closures.

`Parser` has one operator for each production, from a position to a node and the
position after it; position 0 is the error, which ends the parse. The tokens of
a program are spelled from its parse tree, with parentheses where the
precedence of messages asks for them, so `ParsedAsWritten` relates two
independent definitions. `Scopes` threads one record through the tree in the
order in which `SemanticVisitor` visits it, since what a block captures depends
on what was captured before. `Treecodes` writes bytes and reads them back: the
positions of environments, the kinds of captured values and the literals have to
survive. `Linearizer` keeps the operations emitted and the count of operands, as
the visitor does; a jump holds the number of
operations before its target. In `Evaluator` the stack is a sequence of
slots with the registers the frames save among them; whatever is read where
nothing belongs is `Wild`. Stack indices that Smalltalk sees are those of the
code, in which the stack grows down (`FrameNumber`).

`Unwinding` is Smalltalk code, so it is a set of parse trees that the toolchain
compiles and runs as it does any other method: `^` in a block is `return:`,
which goes through `ActiveProcess>>nonLocalReturn:home:`, the collection of
protected frames and `_returnTo:`.

`Meaning` evaluates parse trees with an environment and a store, without frames,
numbers of slots or inlining. `ResultIsMeaning` compares the two when a program
ends. A result outside the range of small integers is an error on both sides,
or nil for an undermessage, since the large integers of the kernel are not
modelled.

Abstractions: tokens for text; integers, symbols, nil, booleans, byte arrays and
arrays for literals (no result depends on what is in a literal array; that its
elements are parsed and encoded right is for `ParsedAsWritten` and
`TreecodesKeepTree`); one namespace; a library of some sixty methods, the ones
the programs and the non-local returns need; dispatch goes to the classes, since
inline caches are the subject of `DispatchCache`. `ProtoObject`'s methods stand
in `Object`.

### ModuleLoader: from files to a running system

`Bootstrapper` has one action per phase or, where a phase goes through classes,
symbols or methods, per element: `instantiateMetaobjectsOf` and
`initializeMetaobjectsOf` per class, `fillSymbolTable` per symbol,
`NewMethodDict`, `ConvertPair` and `ReplaceMethodDict` for each step of the
conversion, each of which sends a message that `doLookup` must find in the
dictionaries as they are then. Symbols are objects with their maker, so that two
of one name are different. The namespace is an open hash table with the probing
of the code.

`ModuleLoader` goes on from there: `load` starts a load, for the program or for
a module that imports another (so that there is a stack of loads);
`createModule`, `sortClasses`, `createClass`, `compileExtensions`,
`importRequired`, `register` and `justLoaded` are its stages, in the order of
`SourceModuleLoader::loadModuleFromSource`, `Module` and `KernelModule`. Any of
them may fail as the code fails (`Fail`): the program that asked for the module
may handle the error and go on, with the symbols that were made, and what else
was made is garbage; in the middle of another load the program ends. A path at
which there is nothing fails in the same way (`moduleNotFound`).

Abstractions: a method is its selector, where it comes from, and whether it
compiles; the files of a module come in any order (`createModule`); there is one
search path; the kernel exports three names to
every module. What the readers make of the files is a constant, `Installations`, and
`InstallationsAssumption` says of what kind that is, not that it has no flaw.
Messages of the symbol table itself are taken to be understood. What is named as
a superclass or as the class to extend is looked up by name, and may be no class:
it does not understand what it is sent then, and the program ends.

## 3. Runs

Passing runs:

| Run | Checks | Instance |
|---|---|---|
| `heap_evacuation` | `TypeOK`, `SpacesDistinct`, `ReserveIsReady`, `ObjectsIntact`, `ResolvedOutsideEvacuated`, `ReadySpacesAreUnused`, `NoCollectionAtUnsafepoint`, `CollectionConserves`, `CollectionEnds` | 5 regions of 4 cells and 2 pages, 3 objects alive of 2 sizes, one of them above the large threshold, 2 guards nested: enough for regions that are full, half used and empty, and for a bump in the middle of an evacuation |
| `gc_program` | `TypeOK`, `TraceComplete`, `OnlyReachableSeen`, `CollectionIsInvisible` | 2 objects with a behavior and 2 fields, ephemerons or not, every graph and every evacuated set, 2 collections with reuse of addresses in between |
| `gc_ephemerons` | `TraceComplete`, `CollectionEnds` | 3 objects, ephemerons or not, switches of processes: chains and cycles of keys |
| `large_kept` | `SweepLeavesLive` | 4 spaces, any number of collections |
| `dispatch_pairs` | `TypeOK`, `CachedSitesRegistered`, `NewPairsCurrent` | 2 behaviors of which one inherits from the other, 2 sites of a selector, 1 site of an undermessage, 2 versions of a method |
| `toolchain` | `TypeOK`, `ResultIsMeaning`, `ParsedAsWritten`, `TreecodesKeepTree`, `NothingWild`, `NonLocalReturnsHome`, `CallersKept`, `Terminates` | 649 methods: one to three blocks of fourteen kinds nested in each other (closures with and without arguments and temporaries, ensured ones, and inlined conditionals and loops) around seventeen kinds of statements, among them literal arrays, a method with a numbered primitive and a cascade whose receiver is analyzed twice; 1,614 operations on integers of 10 bits at the ends of their range |
| `startup` | `TypeOK`, `LookupFindsSource`, `InstanceSizesAddUp`, `SymbolsUnique`, `RegisteredModulesComplete`, `OverridesKept`, `SoundSourcesLoad`, `WorkEnds` | 108 kernels of seven classes with different hierarchies, methods, VM extensions and flaws; four sound modules that import, subclass and extend one another and the kernel, and fourteen with a flaw, loaded in any order |

Runs that end with a violation, each of them a disagreement between the code and
what the repository says of it (`findings` in `PROJECT.json`):

| Run | What it shows |
|---|---|
| `heap_headers_only` (`ReadySpacesAreUnused`) | occupancy counts bodies without headers, so a region whose live objects have no slots counts as empty and is recycled under them |
| `gc_suspended` (`SuspendedFramesValid`) | what only the frames of a suspended process refer to does not survive a collection |
| `large_sweep` (`SweptSpacesExist`) | kept large spaces are written one position too far, so a freed one stays in the list |
| `dispatch_flush` (`InlineCachesCurrent`) | the maps are ordered by `<=`, no key is found in them, and no flush reaches a site |
| `ensured_return` (`EnsuredEvaluated`) | the frame kept as protected is that of the activation of `bp`, so a return through `ensure:` finds nil where the ensured block should be and does not evaluate it |

The passing runs about the heap and the collector do not need these defects to
be absent: they hold for the code as it is, `heap_evacuation` for objects that
have a body. `NewPairsCurrent` holds for a reason worth knowing: the global
cache never answers. With a strict order in `GCedRef::Comparator`, and nothing
else changed, it fails, because `flushDispatchCache_in_` erases one key and not
those of the behaviors that inherit the method.

What the programs of `toolchain` leave out is what does not work in the code as
it is. Each has a set of programs in `MCToolchain` that reproduces it when it
takes the place of `MCPrograms`:

* a closure that needs self around one that does not (`MCSelfEndsAbove`; the
  inner one may also be ensured): the position of a captured environment is
  encoded for one block and read in another (`TreecodeEncoder.cpp:391`), and
  `ResultIsMeaning` fails;
* `ifNil:` followed by an inlined counted loop (`MCNilThenLoop`): the linearizer
  has lost count of the operands (`SExpressionLinearizer.cpp:126`);
* operations that the code does not handle (`Handled`): division by 0, of the
  smallest integer by -1, underprimitives that shift by negative counts, and
  `highBit` of negative integers.

In the same way `MCAlike` of `MCModuleLoader` has two modules whose paths end in
the same name, as `LMR` and `Kernel/LMR` do: asked for the second, the loader
answers the first, and `LoadAnswersNamed` fails.

Bounds are named constants: `MaxObjects`, `MaxGuards`, `MaxCollections`, the
sets `Id`, `Address`, `Space`, `Site`, `Version`, and `StackSize`, `Margin` and
`PointerBits` of the evaluator (400 slots, the 100 of the code kept free, and
words of 11 bits with their tag, so that frames and numbers of 10 bits both
fit). They are chosen so that every action fires and every list is empty, has
one and has several elements at some point. Three blocks are enough for one to
be captured through another that does not use it, for each combination of
inlined blocks and closures. Deadlock is not checked where the process may end
(`OutOfSpace`, `FaultOnSpace`, a kernel that cannot be read) or where a bound
ends the behaviour (`MaxCollections`, all modules loaded). Spaces, and the two
sites of one selector, are interchangeable where SYMMETRY is used, and only with
safety properties.

Fairness is weak fairness of the steps of a collection, of an allocation in
progress, of a running program and of a load under way. It is justified by the
single thread: each is a call that goes on until it returns, and that its caller
waits for. What the program does next, which module it loads and when it loses
a reference is under no fairness.

## 4. Proofs

`GCHeap_proofs` proves, for every size of spaces and pages, number of regions,
set of body sizes and bound on objects and guards: `TypeCorrect`,
`SpacesStayDistinct`, `ReserveStaysReady`, `ResolvedStaysOutside`,
`UnsafepointsHold`; and, if every object has a body (`0 \notin Bodies`, without
which `heap_headers_only` shows them false), `ObjectsStayIntact`,
`ReadySpacesStayUnused` and `CollectionsConserve`.

The inductive invariant is `RegionsInv`, in parts:

* `ZoneInv` - the zone between two calls on it: each space is empty and counts
  as unoccupied, or is wholly committed; current space and reserve are
  different, counted as full, and the reserve is committed and unused; the
  listed empty spaces are different and empty;
* `EvacuatedInv` - evacuated regions are neither current nor reserve, and are
  not taken for free before the release loop has passed over them;
* `TraceInv` - what the trace has reached lies outside the evacuated regions,
  and, if it has a body, in a region that counts as occupied;
* `RequestInv` - the allocation that waits for a collection is of a small
  object, and there is none while the program runs;
* `GuardsInv` - each guard remembers whether it is the outermost one, so the
  flag is set exactly while a guard is alive.

The release loop of the code stops before the space created last
(`AllocationZone.cpp:161`); the model has that bound, and an evacuated region
that is not released only costs room. `TraceInv` is what makes the release safe:
a region is recycled when its
occupancy is zero, and that says that nothing was reached in it, provided that
reaching an object makes the count positive - the reason for `0 \notin Bodies`.
`IInv` adds `ObjectsIntact`, which needs it and is needed for nothing before
it. Both were checked with TLC before they were proved.

`LargeSpaces!SweepsLeaveLive` proves `SweepLeavesLive` for any number of spaces and
collections. The invariant is `SweepInv`: while the sweep goes on, positions 2 to
`used` hold spaces in use (`FilledLive`), so does the position after, which the
first loop has written already (`LastLive`), and so do the new spaces that are not
examined yet (`NewLive`). In the second loop position 1 is in use, too, provided
that the first loop kept nothing (`FirstLive`): the first space written then
goes there. The property is about sweeps that have not yet examined a freed space
(`~undefined`): whatever is mapped there may look like an object that was seen, and
is then kept at any position.

`G1GC_proofs` proves `TypesCorrect`, `TracingIsComplete` and
`GarbageIsNotTraced`, for every number of addresses, objects, roots, fields and
collections, and whatever objects are ephemerons. They come from one inductive
invariant, `IInv`, of which TLC checked each part first on the instances of
`gc_program` and `gc_ephemerons`:

* `ListsOK`, `SpansOK` - the lists of ephemerons and the spans on the stack hold
  objects that were kept, where they are now, and are empty in the phases that
  do not use them;
* `ForwardedOK` - exactly what was evacuated and reached has a forwarder, and it
  leads to a copy and not to another forwarder;
* `FieldsOK` - the core. A field of a kept object is corrected, or is in a span
  still to be scanned, or is beyond the strong part of an ephemeron that is set
  aside. This is the tri-colour invariant of a traversal whose gray objects are
  spans, so that one object can be partly gray; it is what a step of
  `queueCurrent` that kept one field too few would break, and `TraceComplete`
  is what it says when nothing is queued;
* `RootsOK` - the same for roots: corrected, or left to scan;
* `GraphOK` - what the program can reach is there;
* `RoomOK` - what is yet to be copied finds free addresses;
* `OnlyReachableSeen`, which is inductive only with the others: each object is
  reached from a field of an object reached before.

The difficulty is that a collection changes the graph it goes through. Lemma
`Moved` says that evacuating an object is a renaming, under which the least
closed set is renamed too, and `Corrected` that storing where a forwarder leads
changes nothing; together they give that `accessible`, followed through
forwarders, is the same for the whole collection, and so is what is left to
copy.

A process switch keeps only what the stack of the suspended process refers to,
which a collection does not scan (`gc_suspended`). With switches (`Switching`)
the theorems speak therefore of behaviours up to the end of the first
collection, `NoStaleFrame`; without them of all behaviours.

`G1GC_proofs` also proves `CollectionsAreInvisible`: `G1GC` implements
`AbstractHeap` (`CollectionIsInvisible`), step by step. Each allocation and each
store is the abstract step of the same name, `StrengthenEphemerons` is `Rescue`,
and every other step of a collection leaves what is visible as it was. The
argument needs, besides `Inv`, an invariant `RInv`:

* `UniqueIds`, `SameIds` - no two reachable objects have the same identity, and a
  copy has that of its original, so that addresses map to identities;
* `LivesOK` - until the first ephemeron is rescued only what is alive was
  reached, where alive is defined on the abstract graph alone: a key that was
  reached is therefore a key that is alive, and following its ephemeron is
  right;
* `RescueOK` - from then on, all that is alive was reached, and the ephemerons
  to be rescued have keys that are dead. What makes the step from one to the
  other is lemma `AliveSurvives`: when `followLiveEphemerons` has nothing left to
  do, what was reached is closed, so it holds the least closed set;
* `ListedOK` - the flag `done` means what the loops take it to mean: no key of
  an ephemeron that was set aside has been reached since.

A collection changes neither the visible graph nor, therefore, what is alive, so
the marks at different moments can be compared with one and the same set.
TLC checked `RInv` on an instance before it was proved. The theorem is about a
program that does not switch processes (`~Switching`): a switch brings back
references that no root leads to, which is no step of a single program, and
after a collection they dangle (`gc_suspended`). It assumes that `Nil` is no
identity.

`DispatchCache_proofs` proves `CacheShapes` (`TypeOK`), `SitesStayRegistered`
and `NewPairsStayCurrent`, for every hierarchy and number of sites. They rest on
the lemmas `SelectorsNotFound` and `PairsNotFound`: because the comparator is
reflexive, no key is found in any state.

`ModuleLoader_proofs` proves `LookupsCompareIdentities` (`SymbolsUnique`): for
every installation, of any size, with whatever flaws and with circular imports
too, methods, method dictionaries and the symbol table never refer to two symbols
of one name. Lookups compare identities, so a second symbol would make a method
invisible. The danger is in three places: the Bootstrapper makes symbols before
there is a symbol table and hands them over one by one; the method dictionaries
of the kernel are then rebuilt; and every load adds symbols from two providers
and may fail at any stage, after it has added some. The invariant, `Inv`, says

* `SymbolInv` - which symbols there are in each phase (`Universe`): those of the
  Bootstrapper until the runtime takes its own from the symbol table, the table
  from then on; both have one symbol of each name, and what `fillSymbolTable`
  still has to do is what the table lacks;
* `ObjectInv`, `NewMdInv` - every method dictionary, and the one under
  construction, refers to symbols of the universe only; so do the extensions that
  modules keep (`ModulesOK`), which become methods later, in `justLoaded`;
* `SpecInv`, `SpeciesInv` - in each phase of the bootstrap, which classes are
  still to be done, and that their slots are there to be filled;
* `LoaderInv` - the loads on the stack are about different modules, none of them
  one that the Loader or the kernel has registered, so that a load that fails
  takes nothing away from the others.

The steps are loops over methods, classes, files and extensions: `InstallAll`,
`Installed`, `OnePass` and `Sorted`, `ExtensionsOf`, `BindExtension`. The
theorem `LoopMaintains` of `FoldInduction` is the induction they need. The body
of the loop and what it maintains are constant operators of that module, so it is
proved once, by an induction over the number of passes for which the library
offers a least element of every set of naturals, and each loop takes an instance
of it (`Install`, `Put`, `Pass`, `Passes`, `Concat`, `Bind`, `Drop`). Assumed:
that the sources are what the readers make (`InstallationsAssumption`), and that
`Nil` is no number. While `LoaderInv` was looked for it turned out that a load
may replace another module of the same file name in `_loadedModules`
(`Loader.cpp:149`), if that one was registered while the load was under way.

The module goes on to `NothingDangles`, the `TypeOK` of `ModuleLoader`
for every installation and every sequence of loads: the next behavior, superclass
and dictionary of each behavior are there, in the middle of the bootstrap, while
classes are created, and after a load has failed and what it had made was dropped.
That is not inductive: a load could drop a class that something else links to. The
invariant is `Inv /\ LinksInv`, which was an invariant of the `startup` instance
before it was proved:

* `KernelInv` - which behaviors there are in each phase, which of them have a
  dictionary already, and of which kind; every link goes to one of them
  (`Linked`), and every class has its metaclass;
* `KernelNames` - a class that a name of the kernel stands for is there and of
  the kernel, so that no load can take it away;
* `ModuleInv` - a class that a name of a module stands for is there
  (`ModulesLinked`); loads below the one on top are importing, and nothing outside
  a module that is not registered yet links to its classes or has imported them
  (`Isolated`, in `LoadsApart`). This is why `Fail` may drop a module: its own
  classes link to the kernel and to registered modules, never the other way.

The loops (`InOrder`, the fill of the namespace table, `BindExtension`) are again
reasoned about with instances of `FoldInduction` (`Order`, `Insert`, `Keep`).
Assumed besides: that a kernel has finitely many files, which is part of
`InstallationsAssumption`.

`RegisteredAreComplete` is about `RegisteredModulesComplete`:
a module that the kernel has registered has all of its classes and what it
imports, however loads are nested, fail, or import one another in a circle. It is
stated for installations that are `Unambiguous`, a condition on the sources alone:

* modules have different file names, the keys of `_loadedModules`: of two modules
  `LMR` and `Kernel/LMR` the second to be loaded gets the first
  (`Loader.cpp:125`);
* no module imports a name that it also defines, nor `WordSize` or `Kernel`, which
  are names of the kernel and no classes, nor a name that the exporter itself has
  from elsewhere: what is imported is then another module's class, or none.

Without it the property is false in the code, so it is part of the statement and
no assumption of the model. Each of the installations of `startup` satisfies it
except the one of flawed modules, two of which import `WordSize`. The invariant
is `Inv /\ LinksInv /\ CompleteInv`; `CompleteInv` was first an invariant of runs
over seven installations, with circular imports and with file names that are not
different. It says how far each load is (`ImportsRead`, `ClassesMade`): the
first n imports are read and stand for the classes of the modules registered
for them, and all of the classes are made but those that `Sorted` has left. The
hard step is `justLoaded` of a load that ends inside others: none of these can be
about the same module, though modules may import one another in a circle. A load
below waits for an import that is not registered yet, so its module could not
have been completed meanwhile. For what `Sorted`
answers, `LoopProceeds` of `FoldInduction` lets the invariant speak of how far
the loop is; `LoopMaintains` follows from it.

`ModuleLoader_lookups` proves the two properties that loading is for.
`LookupsAnswerSources` (`LookupFindsSource`): in every state from the moment the
runtime exists, with loads under way and after loads that failed, a lookup from a
class that can be seen finds the method of the nearest class above it whose
sources define the selector or for which a registered module has an extension:
one of those modules' methods if there are any, else the one that the sources have
there; and it finds nothing if there is no such class.
`OverridesAreKept` (`OverridesKept`): what a method takes the place of is kept by
the module that loses it, whether that was a definition or an earlier extension,
in whatever order modules arrive. Both are about installations that are `Clear`,
a condition on the sources alone:

* `Unambiguous`, as above: otherwise a name does not mean what the sources say;
* `Roomy` - the methods of a kernel class fit in the array that stands for its
  dictionary (`MethodArraySlots`): otherwise `addMethodToArray_` throws and the
  bootstrap ends there;
* `OwnNames` - no class of a module has a name of the kernel's namespace, so that
  an extension of such a name means one class, whoever loads it.

All installations of `startup` are clear but the one of flawed modules, for which
TLC alone checks the two properties. The invariant is `Inv /\ LinksInv /\ CompleteInv`
with three more:

* `LookInv` - `KnownSymbols` (which provider knows which symbols in each phase),
  `SpecsMerged` (what the Bootstrapper has read, extensions of the VM included),
  and, for clear installations, `DictionariesInv` and `SourcesInv`. A behavior is
  `Faithful` when it is below the one that its sources name and its dictionary
  `Says` what they define and what registered modules replace, no more and no
  less. In each phase some behaviors are `Fresh`, with an empty dictionary, and
  the others faithful; while a dictionary is converted, the new one has the first
  pairs of the old one. Extensions that were compiled and not yet bound are those
  of the sources (`Extending`);
* `FailedFull` - a bootstrap that fails leaves dictionaries that name symbols of
  the universe only, so that what is found in them is what is compared;
* `KeptInv` - for each pair of a dictionary, what the sources or an earlier module
  said is in the table of the module that said it (`KeptHere`); a module that is
  not bound has kept nothing for others, so a load that fails loses nothing.

A load changes one module that is not registered (`OnlyChanges`, `TouchesOnly`)
until `justLoaded`, which binds all of its extensions in one loop; that the loop
answers for exactly the extensions so far is again an instance of
`FoldInduction`. A lookup follows `next`, and the sources name superclasses;
`ChainIsLineage` says that the two chains are the same one. While the invariant
was looked for the property turned out to be wrong: an extension of a class that
the module neither defines nor imports is skipped by the code even if the kernel
has a class of that name, as the names that a module knows are its namespace and
the few that every module is given. `ExtendedBy` now asks for that (`Known`), and
`startup` has a module with such an extension.

Assumed for these: that the sources name things by strings, that `Nil` is none of
the objects that are told apart from it (`NilAssumption`), that the names with
which the Bootstrapper begins are strings, that a hash is a natural number and
there is one for each name of a kernel, and that an array has a natural number of
slots.

Assumed of constants elsewhere: sizes are positive, hashes are natural numbers,
each lineage begins with its behavior. TLC evaluates these on every instance.

Only model-checked: everything about `Toolchain`, whose operators are recursive;
`InstanceSizesAddUp`, a sum along a chain of any length, and `SoundSourcesLoad`
of `startup`; liveness (`CollectionEnds`, `Terminates`,
`WorkEnds`); and the values of the countdown and of the headroom, which are sums
over sets of regions: `TypeOK` of `GCHeap` leaves these two variables out.

## 5. Not modelled

* Weak containers: `updateWeakReferencesOf_` and `updateWeak_at_` disagree about
  the base of positions, and the tombstone is never set, so that there is no
  intended behaviour to model. Eden and generations are reserved and never used.
* The scheduler, semaphores, delays and timers: `queues` of
  `ProcessorScheduler` is never assigned, `schedule:` uses variables that are not
  declared, and `canBeSuspended`, `sleepOn:`, `wakeUp` and `hasFinished` are sent
  and implemented nowhere. There is a switch of stacks (`G1GC`) and no scheduling
  to be faithful to. Exceptions are left out.
* The registry of `GCedRef`s with its indices, and raw pointers held across a
  collection by primitives: `Evaluator` is about objects and `G1GC` about
  addresses, and no module has both.
* Image segments: relocation and linking of what the image builder wrote, a
  format of bytes. The scanner and the Tonel reader: text without state.
* Of the compiler, literals that are characters, strings, floats and large
  integers, the number of a numbered primitive, and annotations; of the
  evaluator, the primitives for these, for behaviors, the host and foreign
  functions, and frames so large that they pass the margin.
* Of the loader, several search paths, the `requires` of a module, categories
  and comments of classes. No run has a cycle of imports or of superclasses: on
  the first the code recurses until a stack is exhausted, and on the second the
  walk that looks for the class of the module never ends
  (`SourceModuleLoader.cpp:79`), where `ReachesModule` stops. The sort of the
  classes is a fold over as many passes as there are files, which is what the
  code's loop does, since every pass but the last places a file; that it ends is
  thus by construction, and `WorkEnds` speaks of conversions and of the stack of
  loads only. No class has so many variables that its size leaves the seven bits
  it has in the format (`SourceModuleLoader.cpp:268`). A load that fails inside
  another ends the program, though a handler further out could catch the Error
  (`HostSystem.st:161`).
* Launcher, FFI and platform code (input and output), the other runtimes and
  the class libraries.

`PROJECT.json` lists each component with its status.

## 6. Plan

Done: the heap, the collector, large spaces, dispatch caches, the toolchain
from tokens to results with non-local returns and ensured blocks, small
integers, bootstrap and loader; the collector is proved to implement the heap
that the program sees, and of the loader symbols are proved unique, links of
behaviors never to dangle, registered modules complete, lookups to find what the
sources say and overridden methods to be kept. Next, in order:

1. `InstanceSizesAddUp` for every installation without circles of superclasses,
   from `SourcesInv`; then the sums of `GCHeap` (countdown and headroom), with the
   regions in sequence.
2. A module of frames without RECURSIVE operators, with `CallersKept` proved for
   every size of frame, and the collector's walk over the frames of the stack.
3. `GCedRefs`: registry of references, reuse of indices, `createGCedRef_`;
   registered references are distinct and exactly the live ones. Primitives that
   hold raw pointers across an allocation, composed with a collection.
4. `ImageSegment`: relocation and linking.
