---------------------------- MODULE Bootstrapper ----------------------------
(* How the kernel comes to life from the sources of modules/Kernel.  The    *)
(* Bootstrapper turns the files into class specs, the specs into classes,   *)
(* metaclasses and behaviors, compiles the methods into plain arrays of     *)
(* selectors and methods, starts the runtime, hands its symbols over to the *)
(* symbol table of Smalltalk and then replaces the arrays, one behavior at  *)
(* a time and by messages that are looked up in those same behaviors, by    *)
(* method dictionaries.                                                     *)
(*                                                                          *)
(* A species (class or metaclass) and its instance behavior are created     *)
(* together and never separated: objects[sp] holds the slots of both, and a *)
(* behavior is named by its species.  A symbol is an object: its name and   *)
(* who created it.                                                          *)
EXTENDS Naturals, Sequences, FiniteSets, FiniteSetsExt, SequencesExt, Functions,
        FoldedSequences

CONSTANTS
    Installations,     \* what the files of an installation may hold
    HashOf,            \* the hash of each name, a function of its characters
    Nil,               \* the object nil, and the superclass of a root
    MethodArraySlots   \* slots of an array that stands for a dictionary

\* What the readers make of a class, of what a module adds to a class of
\* another one, and of what a module asks for from others.
MethodSpec == [selector : STRING, source : STRING, literals : Seq(STRING), compiles : BOOLEAN]
ClassSpec == [supername : STRING \cup {Nil}, instVarNames : Seq(STRING),
              classInstVarNames : Seq(STRING), methods : Seq(MethodSpec),
              metaMethods : Seq(MethodSpec)]
ExtensionSpec == [methods : Seq(MethodSpec), metaMethods : Seq(MethodSpec)]
Import == [module : Seq(STRING), name : STRING]

ModuleSourceOK(source) ==
    /\ IsFiniteSet(DOMAIN source.classes) /\ DOMAIN source.classes \subseteq STRING
    /\ IsFiniteSet(DOMAIN source.extensions) /\ DOMAIN source.extensions \subseteq STRING
    /\ \A n \in DOMAIN source.classes : source.classes[n] \in ClassSpec
    /\ \A n \in DOMAIN source.extensions : source.extensions[n] \in ExtensionSpec
    /\ source.imports \in Seq(Import)

InstallationOK(files) ==
    /\ "Class" \in DOMAIN files.kernel
    /\ IsFiniteSet(DOMAIN files.kernel) /\ DOMAIN files.kernel \subseteq STRING
    /\ \A n \in DOMAIN files.kernel : files.kernel[n] \in ClassSpec
    /\ \A n \in DOMAIN files.vm : files.vm[n] \in ExtensionSpec
    /\ \A path \in DOMAIN files.modules : ModuleSourceOK(files.modules[path])

ASSUME InstallationsAssumption == \A files \in Installations : InstallationOK(files)

\* What the objects are that are told apart from nil.
Species == [side : {"class", "metaclass", "other"}, module : Nat, name : STRING]
Symbol == [name : STRING \cup {Nil}, by : {"Bootstrapper", "asSymbol"}]
Method == [class : Species, selector : Symbol, source : STRING, module : Nat,
           literals : Seq(Symbol \cup STRING)]
Association == [key : Symbol, value : Species]
ASSUME SlotsAssumption == MethodArraySlots \in Nat
ASSUME StringsAssumption == {"WordSize", "Kernel", "Object", "Class", "Metaclass"} \subseteq STRING
ASSUME HashAssumption ==
    /\ \A n \in DOMAIN HashOf : HashOf[n] \in Nat
    /\ \A files \in Installations : DOMAIN files.kernel \cup {"WordSize", "Kernel"} \subseteq DOMAIN HashOf
ASSUME NilAssumption == Nil \notin Nat \cup STRING \cup Species \cup Symbol \cup Method \cup Association

VARIABLES
    installation,      \* the files that are there
    phase,             \* of Bootstrapper::bootstrap
    spec,              \* _moduleSpec: name |-> class spec
    todo,              \* classes (or behaviors, symbols) a phase has left
    objects,           \* species |-> slots of the species and its behavior
    namespace,         \* the table of the kernel's namespace
    symbols,           \* the map of the BootstrapSymbolProvider
    symbolTable,       \* Smalltalk's SymbolTable
    provider,          \* which provider the runtime asks for symbols
    newMd              \* the dictionary a conversion is filling

bootVars == <<installation, phase, spec, todo, objects, namespace, symbols,
              symbolTable, provider, newMd>>

Phases == {"specs", "initial", "instantiate", "initialize", "namespace", "methods",
           "runtime", "fill", "switch", "convert", "done", "failed"}

-----------------------------------------------------------------------------
(* Objects.  The module of a kernel species is 0.                           *)
Class(name) == [side |-> "class", module |-> 0, name |-> name]
Metaclass(sp) == [sp EXCEPT !.side = "metaclass"]
\* A value of the namespace that is not a class.
Other(name) == [side |-> "other", module |-> 0, name |-> name]
ClassOf(sp) == [sp EXCEPT !.side = "class"]

\* A species as it is allocated, every slot nil.
Empty == [isa |-> Nil, superclass |-> Nil, next |-> Nil, format |-> 0, name |-> Nil, md |-> Nil]

\* A function of one argument, and one that takes precedence over another.
At(x, v) == [y \in {x} |-> v]
Over(f, g) == [x \in DOMAIN f \cup DOMAIN g |-> IF x \in DOMAIN f THEN f[x] ELSE g[x]]

\* The elements of S in some order (that of a map, or of a dictionary).
InOrder(S) ==
    Folded(LAMBDA done, i : IF S \subseteq Range(done) THEN done
                            ELSE Append(done, CHOOSE x \in S : x \notin Range(done)),
           <<>>, [i \in 1..Cardinality(S) |-> i])

\* start, what is above it, what is above that, until there is nothing.
Upwards(start, Up(_), bound) ==
    Folded(LAMBDA chain, i : LET up == Up(Last(chain))
                               IN  IF up = Nil THEN chain ELSE Append(chain, up),
             <<start>>, [i \in 1..bound |-> i])

newMethodArray == [kind |-> "Array", pairs |-> <<>>]

\* Where a selector is among the pairs, 0 when it is not.
PositionOf(pairs, selector) ==
    LET at == {i \in DOMAIN pairs : pairs[i][1] = selector}
    IN  IF at = {} THEN 0 ELSE Min(at)

\* addMethodToArray_, and at:put: of a MethodDictionary: the method of a
\* selector that is there is replaced.
AtPut(pairs, selector, method) ==
    LET i == PositionOf(pairs, selector)
    IN  IF i = 0 THEN Append(pairs, <<selector, method>>)
                 ELSE [pairs EXCEPT ![i] = <<selector, method>>]

\* addMethodToArray_ throws when there is no room for another pair.
ArrayIsFull(pairs, selector) ==
    PositionOf(pairs, selector) = 0 /\ 2 * Len(pairs) + 2 > MethodArraySlots

-----------------------------------------------------------------------------
(* Symbols.                                                                 *)
newSymbol(name) == [name |-> name, by |-> "Bootstrapper"]

\* BootstrapSymbolProvider::symbolFor_, for each of names.
Interned(known, names) ==
    [n \in DOMAIN known \cup names |-> IF n \in DOMAIN known THEN known[n] ELSE newSymbol(n)]

\* DynamicSymbolProvider: the cache holds what was found in the table, which
\* is scanned by name; what is not there is created by asSymbol and added.
ExistingSymbols(table, name) == {s \in table : s.name = name}
\* A mutant: what is there is not looked for.
WithSymbolsAnew(table, names) == table \cup {[name |-> n, by |-> "asSymbol"] : n \in names}
WithSymbols(table, names) ==
    table \cup {[name |-> n, by |-> "asSymbol"] :
                    n \in {x \in names : ExistingSymbols(table, x) = {}}}
DynamicSymbol(table, name) == CHOOSE s \in WithSymbols(table, {name}) : s.name = name

\* What the runtime answers for a name, Nil when it has no such symbol.
existingSymbolFor(name) ==
    CASE provider = "bootstrap" -> IF name \in DOMAIN symbols THEN symbols[name] ELSE Nil
      [] provider = "dynamic" -> IF ExistingSymbols(symbolTable, name) = {} THEN Nil
                                 ELSE DynamicSymbol(symbolTable, name)

-----------------------------------------------------------------------------
(* Class specs: [supername, instVarNames, classInstVarNames, methods,       *)
(* metaMethods]; a method: [selector, source, literals, compiles].          *)
Superspec(specs, name) == IF specs[name].supername \in DOMAIN specs THEN specs[name].supername ELSE Nil

\* A mutant: the variables of the superclasses are not counted.
instSizeOwn(specs, name) == Len(specs[name].instVarNames)

\* SpeciesSpec::instSize, walking up the specs.
instSize(specs, name) ==
    LET up(c) == Superspec(specs, c)
    IN  Folded(LAMBDA n, c : n + Len(specs[c].instVarNames), 0,
                 Upwards(name, up, Cardinality(DOMAIN specs)))

instSizeOf(name) == instSize(spec, name)

\* A mutant: what Kernel/VM has comes first, and the class overrides it.
WithExtensionsFirst(files, vm) ==
    [name \in DOMAIN files |->
        IF name \notin DOMAIN vm THEN files[name]
        ELSE [files[name] EXCEPT !.methods = vm[name].methods \o @,
                                 !.metaMethods = vm[name].metaMethods \o @]]

\* Every class of the kernel, with what Kernel/VM adds to it at the end.
WithExtensions(files, vm) ==
    [name \in DOMAIN files |->
        IF name \notin DOMAIN vm THEN files[name]
        ELSE [files[name] EXCEPT !.methods = @ \o vm[name].methods,
                                 !.metaMethods = @ \o vm[name].metaMethods]]

-----------------------------------------------------------------------------
(* The phases.  A phase takes its classes in the order of a map.            *)
First == CHOOSE x \in todo : TRUE

Continue(next, then) ==
    /\ todo' = IF todo = {First} THEN then ELSE todo \ {First}
    /\ phase' = IF todo = {First} THEN next ELSE phase

BootInit ==
    /\ installation \in Installations
    /\ phase = "specs" /\ spec = <<>> /\ todo = {} /\ objects = <<>> /\ namespace = <<>>
    /\ symbols = <<>> /\ symbolTable = {} /\ provider = "bootstrap" /\ newMd = Nil

\* A file that the TonelReader cannot read ends the bootstrap; methods that
\* Kernel/VM has for a class that does not exist are left out.
loadKernelSpecs ==
    /\ phase = "specs"
    /\ IF installation.unreadable
       THEN phase' = "failed" /\ UNCHANGED spec
       ELSE /\ phase' = "initial"
            /\ spec' = WithExtensions(installation.kernel, installation.vm)
    /\ UNCHANGED <<installation, todo, objects, namespace, symbols, symbolTable, provider, newMd>>

\* nil, true and false, which are not told apart from their names here.
createInitialObjects ==
    /\ phase = "initial"
    /\ phase' = "instantiate" /\ todo' = DOMAIN spec
    /\ UNCHANGED <<installation, spec, objects, namespace, symbols, symbolTable, provider, newMd>>

instantiateMetaobjectsOf ==
    /\ phase = "instantiate"
    /\ objects' = Over(objects, [sp \in {Class(First), Metaclass(Class(First))} |-> Empty])
    /\ Continue("initialize", DOMAIN spec)
    /\ UNCHANGED <<installation, spec, namespace, symbols, symbolTable, provider, newMd>>

\* A mutant: a superclass is linked to by its name, whether it exists or not.
LinksUnresolved(name) ==
    LET super == spec[name].supername
    IN  IF super = Nil THEN [class |-> Nil, metaclass |-> Class("Class")]
        ELSE [class |-> Class(super), metaclass |-> Metaclass(Class(super))]

\* What superclass and next of a class and of its metaclass are linked to: a
\* root goes on with Class on the side of the metaclass, and a superclass that
\* does not exist leaves all four nil.
Links(name) ==
    LET super == spec[name].supername
    IN  CASE super = Nil -> [class |-> Nil, metaclass |-> Class("Class")]
          [] super \in DOMAIN spec -> [class |-> Class(super), metaclass |-> Metaclass(Class(super))]
          [] OTHER -> [class |-> Nil, metaclass |-> Nil]

initializeMetaobjectsOf ==
    /\ phase = "initialize"
    /\ LET class == Class(First)
           metaclass == Metaclass(class)
           links == Links(First)
           known == Interned(symbols, {First} \cup Range(spec[First].instVarNames)
                                               \cup Range(spec[First].classInstVarNames))
       IN  /\ objects' = [objects EXCEPT
                  ![class] = [isa |-> metaclass, superclass |-> links.class, next |-> links.class,
                              format |-> instSizeOf(First) % 128,
                              name |-> known[First], md |-> newMethodArray],
                  ![metaclass] = [isa |-> Class("Metaclass"),
                              superclass |-> links.metaclass, next |-> links.metaclass,
                              format |-> (instSizeOf("Class") + Len(spec[First].classInstVarNames)) % 128,
                              name |-> Nil, md |-> newMethodArray]]
           /\ symbols' = known
    /\ Continue("namespace", {})
    /\ UNCHANGED <<installation, spec, namespace, symbolTable, provider, newMd>>

-----------------------------------------------------------------------------
(* The namespace of the kernel: an open hash table with linear probing.     *)
Primes == {7, 11, 13, 17, 19, 23, 29, 31, 37, 41, 43, 47, 53, 59, 61, 67, 71, 73, 79, 83, 89, 97,
           101, 103, 107, 109, 113, 127, 131, 137, 139, 149, 151, 157, 163, 167, 173, 179, 181, 191,
           193, 197, 199, 211, 223, 227, 229, 233, 239, 241, 251, 269, 359, 479, 641, 857}
TableSize(count) ==
    LET target == Max({7, (count * 3) \div 2})
        enough == {p \in Primes : p >= target}
    IN  IF enough = {} THEN target ELSE Min(enough)

\* An entry for which there is no room is lost.
insertInOpenHashTable(table, assoc) ==
    LET size == Cardinality(DOMAIN table)
        start == HashOf[assoc.key.name] % size
        free == {k \in 0..size - 1 : table[(start + k) % size] = Nil}
    IN  IF free = {} THEN table
        ELSE [table EXCEPT ![(start + Min(free)) % size] = assoc]

newDictionary(entries) ==
    Folded(insertInOpenHashTable, [i \in 0..TableSize(Cardinality(entries)) - 1 |-> Nil],
           InOrder(entries))

\* Runtime::lookupAssociationFor_in_, which scans the table.
lookupAssociationFor(symbol, table) ==
    LET found == {i \in DOMAIN table : table[i] # Nil /\ table[i].key = symbol}
    IN  IF found = {} THEN Nil ELSE table[Min(found)]

\* The classes and WordSize make up the dictionary; the module is added to a
\* table of that size.
createKernelNamespace ==
    /\ phase = "namespace"
    /\ \E known \in {Interned(symbols, DOMAIN spec \cup {"WordSize", "Kernel"})} :
          LET classes == {[key |-> known[n], value |-> Class(n)] : n \in DOMAIN spec}
              wordSize == [key |-> known["WordSize"], value |-> Other("WordSize")]
          IN  \E table \in {newDictionary(classes \cup {wordSize})} :
                 /\ symbols' = known
                 /\ namespace' = insertInOpenHashTable(table, [key |-> known["Kernel"],
                                                               value |-> Other("Kernel")])
    /\ phase' = "methods" /\ todo' = DOMAIN spec
    /\ UNCHANGED <<installation, spec, objects, symbolTable, provider, newMd>>

-----------------------------------------------------------------------------
(* Methods.                                                                 *)
\* transferLiteral_: a literal symbol becomes the object known by its name.
transferLiteral(known, literal) == IF literal \in DOMAIN known THEN known[literal] ELSE literal

CompiledMethod(known, sp, method, module) ==
    [class |-> sp, selector |-> known[method.selector], source |-> method.source, module |-> module,
     literals |-> [i \in DOMAIN method.literals |-> transferLiteral(known, method.literals[i])]]

NamesOfMethod(method) == {method.selector} \cup Range(method.literals)
NamesIn(methods) == UNION {NamesOfMethod(m) : m \in Range(methods)}

\* compileAndInstallMethod_, for each method in turn.  One that does not
\* compile, or for which the array has no room, is left out with a warning.
InstallAll(known, pairs, sp, methods) ==
    Folded(LAMBDA acc, m :
                 IF ~m.compiles \/ ArrayIsFull(acc, known[m.selector]) THEN acc
                 ELSE AtPut(acc, known[m.selector], CompiledMethod(known, sp, m, 0)),
             pairs, methods)

loadKernelMethods ==
    /\ phase = "methods"
    /\ LET class == Class(First)
           metaclass == Metaclass(class)
           s == spec[First]
           compiled == {m \in Range(s.methods) \cup Range(s.metaMethods) : m.compiles}
       IN  \E known \in {Interned(symbols, UNION {NamesOfMethod(m) : m \in compiled})} :
              /\ symbols' = known
              /\ objects' = [objects EXCEPT
                     ![class].md.pairs = InstallAll(known, @, class, s.methods),
                     ![metaclass].md.pairs = InstallAll(known, @, metaclass, s.metaMethods)]
    /\ Continue("runtime", {})
    /\ UNCHANGED <<installation, spec, namespace, symbolTable, provider, newMd>>

-----------------------------------------------------------------------------
(* Lookup, as the runtime does it: Runtime::methodFor_in_ and               *)
(* doLookup_startingAt_.                                                    *)
methodFor(selector, sp) ==
    LET pairs == objects[sp].md.pairs
        i == PositionOf(pairs, selector)
    IN  IF i = 0 THEN Nil ELSE pairs[i][2]

\* The behaviors a lookup goes through, sp first.
behaviorNext(sp) == objects[sp].next
Chain(sp) == Upwards(sp, behaviorNext, Cardinality(DOMAIN objects))

doLookup(selector, sp) ==
    LET chain == Chain(sp)
        hits == {i \in DOMAIN chain : methodFor(selector, chain[i]) # Nil}
    IN  IF hits = {} THEN Nil ELSE methodFor(selector, chain[Min(hits)])

\* A message sent by the bootstrap is understood: without a method for it the
\* evaluator could not answer.
Understands(sp, name) ==
    existingSymbolFor(name) # Nil /\ doLookup(existingSymbolFor(name), sp) # Nil

-----------------------------------------------------------------------------
(* The runtime starts, #bootstrap is sent to the kernel module (external:   *)
(* it creates no symbols), and the symbols are added to Smalltalk's table   *)
(* one by one before the runtime looks for them there (the messages of that *)
(* table are taken to be understood).                                       *)
createRuntimeWithBootstrappedKernel ==
    /\ phase = "runtime"
    /\ IF Understands(Class("KernelModule"), "bootstrap")
       THEN phase' = "fill" /\ todo' = Range(symbols)
       ELSE phase' = "failed" /\ UNCHANGED todo
    /\ UNCHANGED <<installation, spec, objects, namespace, symbols, symbolTable, provider, newMd>>

fillSymbolTable ==
    /\ phase = "fill"
    /\ symbolTable' = symbolTable \cup {First}
    /\ Continue("switch", {})
    /\ UNCHANGED <<installation, spec, objects, namespace, symbols, provider, newMd>>

switchToDynamicSymbolProvider ==
    /\ phase = "switch"
    /\ provider' = "dynamic"
    /\ phase' = "convert" /\ todo' = DOMAIN objects
    /\ UNCHANGED <<installation, spec, objects, namespace, symbols, symbolTable, newMd>>

\* convertBehaviorMethodDict_, a class first and then its metaclass: the pairs
\* of the array are put into a new dictionary by messages, each looked up with
\* the dictionaries as they are by then, and the dictionary takes the place of
\* the array when it has them all.
Converting ==
    IF \E sp \in todo : sp.side = "metaclass" /\ ClassOf(sp) \notin todo
    THEN CHOOSE sp \in todo : sp.side = "metaclass" /\ ClassOf(sp) \notin todo
    ELSE CHOOSE sp \in todo : sp.side = "class"

Missing == SubSeq(objects[Converting].md.pairs, Len(newMd) + 1, Len(objects[Converting].md.pairs))

NewMethodDict ==
    /\ phase = "convert" /\ newMd = Nil
    /\ IF Understands(Metaclass(Class("MethodDictionary")), "new:")
       THEN newMd' = <<>> /\ UNCHANGED phase
       ELSE phase' = "failed" /\ UNCHANGED newMd
    /\ UNCHANGED <<installation, spec, todo, objects, namespace, symbols, symbolTable, provider>>

ConvertPair ==
    /\ phase = "convert" /\ newMd # Nil /\ Missing # <<>>
    /\ IF Understands(Class("MethodDictionary"), "at:put:")
       THEN newMd' = AtPut(newMd, Head(Missing)[1], Head(Missing)[2]) /\ UNCHANGED phase
       ELSE phase' = "failed" /\ UNCHANGED newMd
    /\ UNCHANGED <<installation, spec, todo, objects, namespace, symbols, symbolTable, provider>>

ReplaceMethodDict ==
    /\ phase = "convert" /\ newMd # Nil /\ Missing = <<>>
    /\ objects' = [objects EXCEPT ![Converting].md = [kind |-> "MethodDictionary", pairs |-> newMd]]
    /\ newMd' = Nil
    /\ todo' = todo \ {Converting}
    /\ phase' = IF todo = {Converting} THEN "done" ELSE phase
    /\ UNCHANGED <<installation, spec, namespace, symbols, symbolTable, provider>>

BootNext ==
    \/ loadKernelSpecs \/ createInitialObjects
    \/ instantiateMetaobjectsOf \/ initializeMetaobjectsOf \/ createKernelNamespace
    \/ loadKernelMethods \/ createRuntimeWithBootstrappedKernel
    \/ fillSymbolTable \/ switchToDynamicSymbolProvider
    \/ NewMethodDict \/ ConvertPair \/ ReplaceMethodDict

=============================================================================
