---------------------------- MODULE ModuleLoader ----------------------------
(* Loading modules from their sources: Kernel load: in Smalltalk asks the   *)
(* Loader, which asks a SourceModuleLoader, which sends the new module the  *)
(* message to import what it requires, which asks Kernel load: again.  So   *)
(* there is a stack of loads, of which the last goes on.  A module is       *)
(* registered by the Loader when it is complete, under the last component   *)
(* of its path, and by the kernel, under its symbol, after it has bound its *)
(* extensions.                                                              *)
(*                                                                          *)
(* A symbol such as #LMR.Nativizer and the path LMR/Nativizer are the same  *)
(* sequence of components.                                                  *)
EXTENDS Bootstrapper

VARIABLES
    modules,           \* the module objects: number |-> slots; the kernel is 0
    loadedModules,     \* Loader::_loadedModules: file name |-> module
    kernelModules,     \* the kernel's loadedModules: symbol |-> module
    loads,             \* the loads under way
    stopped            \* why the program ended, Nil while it runs

loaderVars == <<modules, loadedModules, kernelModules, loads, stopped>>
vars == <<installation, phase, spec, todo, objects, namespace, symbols, symbolTable,
          provider, newMd, modules, loadedModules, kernelModules, loads, stopped>>

Kernel == 0
ClassIn(module, name) == [side |-> "class", module |-> module, name |-> name]
Top == loads[Len(loads)]
Source == installation.modules[Top.path]
Pop == SubSeq(loads, 1, Len(loads) - 1)
NewModule == Min((1..Cardinality(DOMAIN modules)) \ DOMAIN modules)

LoaderInit ==
    /\ BootInit
    /\ modules = <<>> /\ loadedModules = <<>> /\ kernelModules = <<>>
    /\ loads = <<>> /\ stopped = Nil

\* Loader::loadKernel, once the bootstrap is over.
loadKernel ==
    /\ phase = "done" /\ DOMAIN modules = {}
    /\ modules' = At(Kernel, [path |-> <<"Kernel">>, namespace |-> <<>>, extensions |-> <<>>,
                               overriden |-> <<>>])
    /\ loadedModules' = At("Kernel", Kernel)
    /\ kernelModules' = At(<<"Kernel">>, Kernel)
    /\ UNCHANGED <<bootVars, loads, stopped>>

-----------------------------------------------------------------------------
(* Names.  What a module has under a name; the kernel's namespace is the    *)
(* table that the bootstrap built.                                          *)
NamespaceAt(module, name) ==
    IF module = Kernel
    THEN LET assoc == lookupAssociationFor(DynamicSymbol(symbolTable, name), namespace)
         IN  IF assoc = Nil THEN Nil ELSE assoc.value
    ELSE IF name \in DOMAIN modules[module].namespace THEN modules[module].namespace[name] ELSE Nil

\* newSubclassOf: and addExtension: send messages that only classes understand.
IsClass(value) == value.side = "class"

\* Module>>bindKernelExports: the names every module knows.
KernelExports == {"Object", "Class", "Metaclass"}
bindKernelExports ==
    [n \in {x \in KernelExports : NamespaceAt(Kernel, x) # Nil} |-> NamespaceAt(Kernel, n)]

-----------------------------------------------------------------------------
(* Loader::loadModuleFromPath_, called for a symbol that the kernel has not *)
(* registered: a load in progress, or the module known by the file name.    *)
LoadOf(path) ==
    LET name == Last(path)
    IN  IF name \in DOMAIN loadedModules
        THEN [path |-> path, step |-> "justLoaded", module |-> loadedModules[name],
              files |-> <<>>, imports |-> <<>>]
        ELSE [path |-> path, step |-> "create", module |-> Nil, files |-> <<>>, imports |-> <<>>]

\* KernelModule>>load: sent by the program.
load(path) ==
    /\ DOMAIN modules # {} /\ loads = <<>> /\ stopped = Nil
    /\ path \in DOMAIN installation.modules \ DOMAIN kernelModules
    /\ loads' = <<LoadOf(path)>>
    /\ UNCHANGED <<bootVars, modules, loadedModules, kernelModules, stopped>>

\* An exception of the loader fails the primitive, whose fallback signals an
\* Error.  The program that asked for the module may handle it; what was made
\* is garbage.  In the middle of another load the program ends.
Fail ==
    /\ loads' = <<>>
    /\ stopped' = IF Len(loads) > 1 THEN "Error" ELSE Nil
    /\ modules' = [m \in DOMAIN modules \ {Top.module} |-> modules[m]]
    /\ objects' = [sp \in {x \in DOMAIN objects : x.module # Top.module} |-> objects[sp]]
    /\ UNCHANGED <<installation, phase, spec, todo, namespace, symbols, symbolTable, provider,
                   newMd, loadedModules, kernelModules>>

\* An error of the program, which ends it.
Stop(why) ==
    /\ stopped' = why
    /\ loads' = <<>>
    /\ UNCHANGED <<bootVars, modules, loadedModules, kernelModules>>

\* There is neither an image segment nor a directory at the path.
moduleNotFound ==
    /\ loads # <<>> /\ Top.step = "create" /\ Top.path \notin DOMAIN installation.modules
    /\ Fail

-----------------------------------------------------------------------------
(* SourceModuleLoader.                                                      *)
AllCompile(s) == \A i \in DOMAIN (s.methods \o s.metaMethods) : (s.methods \o s.metaMethods)[i].compiles

\* createNewMethod_ for every method: addSelector:withMethod: of the species.
Installed(table, sp, methods) ==
    LET known == [n \in NamesIn(methods) |-> DynamicSymbol(table, n)]
    IN  [kind |-> "MethodDictionary",
         pairs |-> Folded(LAMBDA acc, m : AtPut(acc, known[m.selector],
                                                  CompiledMethod(known, sp, m, sp.module)),
                            <<>>, methods)]

NamesOf(name, s) == {name, s.supername} \cup Range(s.instVarNames) \cup NamesIn(s.methods \o s.metaMethods)

\* createNewClassFrom_ and createMethodsOf_.  newSubclassOf: (external) makes
\* the class and its metaclass and takes the formats from the superclass; the
\* size is then made up for the new instance variables.  No class here has so
\* many that the sum leaves the seven bits of the size.
NewClass(table, module, name, s, super) ==
    LET class == ClassIn(module, name)
        metaclass == Metaclass(class)
        supermeta == Metaclass(super)
    IN  Over(At(class, [isa |-> metaclass, superclass |-> super, next |-> super,
                        format |-> objects[super].format + Len(s.instVarNames),
                        name |-> DynamicSymbol(table, name),
                        md |-> Installed(table, class, s.methods)]),
             At(metaclass, [isa |-> Class("Metaclass"), superclass |-> supermeta,
                            next |-> supermeta, format |-> objects[supermeta].format,
                            name |-> Nil, md |-> Installed(table, metaclass, s.metaMethods)]))

\* Phase 2: the first of the files whose superclasses lead, within the
\* directory, to Module.  The walk is as long as the directory has classes; where
\* they are their own superclasses the code's never ends (no installation here).
ReachesModule(specs, name) ==
    LET up(c) == IF c \in DOMAIN specs THEN specs[c].supername ELSE Nil
    IN  "Module" \in Range(Tail(Upwards(name, up, Cardinality(DOMAIN specs))))
ModuleClassName(specs, files) ==
    LET found == {i \in DOMAIN files : ReachesModule(specs, files[i])}
    IN  IF found = {} THEN Nil ELSE files[Min(found)]

Without(name, files) ==
    Folded(LAMBDA acc, f : IF f = name THEN acc ELSE Append(acc, f), <<>>, files)

\* Phases 1 to 3: the files are read in the order in which the directory has
\* them, the module class is made, with a superclass of the kernel, and the
\* module, which gets the names of the kernel that every module has.
createModule(files) ==
    /\ loads # <<>> /\ Top.step = "create" /\ Top.path \in DOMAIN installation.modules
    /\ LET specs == Source.classes
           module == NewModule
       IN  \E name \in {ModuleClassName(specs, files)} :
             \/ Source.unreadable /\ Fail
             \/ ~Source.unreadable /\ name = Nil /\ Stop("no Module subclass")
             \/ /\ ~Source.unreadable /\ name # Nil
                /\ \E super \in {NamespaceAt(Kernel, specs[name].supername)},
                      table \in {WithSymbols(symbolTable, NamesOf(name, specs[name]))} :
                     \/ super = Nil /\ Stop("KeyNotFound")
                     \/ super # Nil /\ ~IsClass(super) /\ Stop("MessageNotUnderstood")
                     \/ super # Nil /\ IsClass(super) /\ ~AllCompile(specs[name]) /\ Fail
                     \/ /\ super # Nil /\ IsClass(super) /\ AllCompile(specs[name])
                        /\ symbolTable' = table
                        /\ objects' = Over(NewClass(table, module, name, specs[name], super), objects)
                        /\ modules' = Over(modules, At(module,
                               [path |-> Top.path,
                                namespace |-> Over(At(name, ClassIn(module, name)), bindKernelExports),
                                extensions |-> <<>>, overriden |-> <<>>]))
                        /\ loads' = Append(Pop, [Top EXCEPT !.step = "import", !.module = module,
                               !.files = Without(name, files),
                               !.imports = Source.imports])
                        /\ UNCHANGED <<installation, phase, spec, todo, namespace, symbols, provider,
                                       newMd, loadedModules, kernelModules, stopped>>

\* Phase 4: importRequiredModules.  An import is a module and a name in it.
\* The module is loaded first when the kernel has not got it.
importRequired ==
    /\ loads # <<>> /\ Top.step = "import" /\ Top.imports # <<>>
    /\ LET import == Head(Top.imports)
       IN  IF import.module \notin DOMAIN kernelModules
           THEN /\ loads' = Append(loads, LoadOf(import.module))
                /\ UNCHANGED <<bootVars, modules, loadedModules, kernelModules, stopped>>
           ELSE LET value == NamespaceAt(kernelModules[import.module], import.name)
                IN  IF value = Nil THEN Stop("KeyNotFound")
                    ELSE /\ modules' = [modules EXCEPT ![Top.module].namespace = Over(At(import.name, value), @)]
                         /\ loads' = Append(Pop, [Top EXCEPT !.imports = Tail(@)])
                         /\ UNCHANGED <<bootVars, loadedModules, kernelModules, stopped>>

\* A mutant: a pass takes all the files as they come.
OnePassUnsorted(specs, state) ==
    [state EXCEPT !.sorted = @ \o state.remaining, !.remaining = <<>>]

\* Phase 5: the classes that remain, sorted.  Each pass over them takes those
\* whose superclass is not of this directory or was taken before; when a pass
\* takes none, the others are added as they are.
OnePass(specs, state) ==
    Folded(LAMBDA acc, name :
                 IF specs[name].supername \notin DOMAIN specs \/ specs[name].supername \in acc.created
                 THEN [acc EXCEPT !.sorted = Append(@, name), !.created = @ \cup {name}]
                 ELSE [acc EXCEPT !.remaining = Append(@, name)],
             [state EXCEPT !.remaining = <<>>], state.remaining)
\* A mutant: one pass, and what it does not take is dropped.
SortedOnce(specs, moduleClassName, files) ==
    OnePass(specs, [sorted |-> <<>>, created |-> {moduleClassName}, remaining |-> files]).sorted
\* Every pass that is not the last places a file: as many passes as files do
\* what the code's loop does, which ends with the first that places none.
Sorted(specs, moduleClassName, files) ==
    LET end == Folded(LAMBDA state, i : OnePass(specs, state),
                        [sorted |-> <<>>, created |-> {moduleClassName}, remaining |-> files], files)
    IN  end.sorted \o end.remaining

sortClasses ==
    /\ loads # <<>> /\ Top.step = "import" /\ Top.imports = <<>>
    /\ loads' = Append(Pop, [Top EXCEPT !.step = "classes",
                    !.files = Sorted(Source.classes,
                                     CHOOSE n \in DOMAIN Source.classes : n \notin Range(Top.files),
                                     Top.files)])
    /\ UNCHANGED <<bootVars, modules, loadedModules, kernelModules, stopped>>

\* The superclass is taken from the namespace of the module, to which the new
\* class is then added.
createClass ==
    /\ loads # <<>> /\ Top.step = "classes" /\ Top.files # <<>>
    /\ LET name == Head(Top.files)
           s == Source.classes[name]
       IN  \E super \in {NamespaceAt(Top.module, s.supername)},
              table \in {WithSymbols(symbolTable, NamesOf(name, s))} :
             \/ super = Nil /\ Stop("KeyNotFound")
             \/ super # Nil /\ ~IsClass(super) /\ Stop("MessageNotUnderstood")
             \/ super # Nil /\ IsClass(super) /\ ~AllCompile(s) /\ Fail
             \/ /\ super # Nil /\ IsClass(super) /\ AllCompile(s)
                /\ symbolTable' = table
                /\ objects' = Over(NewClass(table, Top.module, name, s, super), objects)
                /\ modules' = [modules EXCEPT ![Top.module].namespace =
                                                  Over(At(name, ClassIn(Top.module, name)), @)]
                /\ loads' = Append(Pop, [Top EXCEPT !.files = Tail(@)])
                /\ UNCHANGED <<installation, phase, spec, todo, namespace, symbols, provider,
                               newMd, loadedModules, kernelModules, stopped>>

\* Phase 7: the methods for classes of other modules are compiled and kept in
\* the module (addExtension:).  A class that the module does not know is
\* skipped.  Then the Loader registers the module and the primitive returns.
Extensions(table, module, methods, sp) ==
    LET known == [n \in NamesIn(methods) |-> DynamicSymbol(table, n)]
    IN  [i \in DOMAIN methods |-> CompiledMethod(known, sp, methods[i], module)]

ExtensionOf(table, module, extension, sp) ==
    Extensions(table, module, extension.methods, sp)
    \o Extensions(table, module, extension.metaMethods, Metaclass(sp))

Concatenated(of, names) == Folded(LAMBDA acc, n : acc \o of[n], <<>>, names)

ExtensionsOf(table, module, extension, bases) ==
    LET of == [n \in bases |-> ExtensionOf(table, module, extension[n], NamespaceAt(module, n))]
    IN  Concatenated(of, SetToSeq(bases))

compileExtensions ==
    /\ loads # <<>> /\ Top.step = "classes" /\ Top.files = <<>>
    /\ LET extension == Source.extensions
           bases == {n \in DOMAIN extension : NamespaceAt(Top.module, n) # Nil}
           names == UNION {NamesIn(extension[n].methods \o extension[n].metaMethods) : n \in bases}
       IN  \E table \in {WithSymbols(symbolTable, bases \cup names)} :
             \/ (\E n \in bases : ~AllCompile(extension[n])) /\ Fail
             \/ (\E n \in bases : ~IsClass(NamespaceAt(Top.module, n)))
                /\ Stop("MessageNotUnderstood")
             \/ /\ \A n \in bases : AllCompile(extension[n]) /\ IsClass(NamespaceAt(Top.module, n))
                /\ symbolTable' = table
                /\ modules' = [modules EXCEPT ![Top.module].extensions =
                                   ExtensionsOf(table, Top.module, extension, bases)]
                /\ loads' = Append(Pop, [Top EXCEPT !.step = "register"])
                /\ UNCHANGED <<installation, phase, spec, todo, objects, namespace, symbols, provider,
                               newMd, loadedModules, kernelModules, stopped>>

register ==
    /\ loads # <<>> /\ Top.step = "register"
    /\ loadedModules' = Over(At(Last(Top.path), Top.module), loadedModules)
    /\ loads' = Append(Pop, [Top EXCEPT !.step = "justLoaded"])
    /\ UNCHANGED <<bootVars, modules, kernelModules, stopped>>

-----------------------------------------------------------------------------
(* Module>>justLoaded, sent by HostSystem>>loadModuleFromPath: (external):  *)
(* the extensions are installed, what they replace is kept by the module it *)
(* came from, and the kernel registers the module.                          *)
\* A mutant: the module of the extension keeps what the extension replaces.
BindExtensionKeptByExtender(state, method) ==
    LET pairs == state.objects[method.class].md.pairs
        i == PositionOf(pairs, method.selector)
        signature == <<method.class, method.selector.name>>
    IN  [objects |-> [state.objects EXCEPT ![method.class].md.pairs = AtPut(@, method.selector, method)],
         modules |-> IF i = 0 THEN state.modules
                     ELSE [state.modules EXCEPT ![method.module].overriden = Over(At(signature, pairs[i][2]), @)]]
BindExtension(state, method) ==
    LET pairs == state.objects[method.class].md.pairs
        i == PositionOf(pairs, method.selector)
        current == pairs[i][2]
        signature == <<method.class, method.selector.name>>
    IN  [objects |-> [state.objects EXCEPT ![method.class].md.pairs = AtPut(@, method.selector, method)],
         modules |-> IF i = 0 THEN state.modules
                     ELSE [state.modules EXCEPT ![current.module].overriden = Over(At(signature, current), @)]]

\* A mutant: the kernel does not register the module.
justLoadedUnregistered ==
    /\ loads # <<>> /\ Top.step = "justLoaded"
    /\ \E bound \in {Folded(BindExtension, [objects |-> objects, modules |-> modules],
                            modules[Top.module].extensions)} :
          objects' = bound.objects /\ modules' = bound.modules
    /\ loads' = Pop
    /\ UNCHANGED <<installation, phase, spec, todo, namespace, symbols, symbolTable, provider,
                   newMd, loadedModules, kernelModules, stopped>>

justLoaded ==
    /\ loads # <<>> /\ Top.step = "justLoaded"
    /\ \E bound \in {Folded(BindExtension, [objects |-> objects, modules |-> modules],
                            modules[Top.module].extensions)} :
          objects' = bound.objects /\ modules' = bound.modules
    /\ kernelModules' = Over(At(Top.path, Top.module), kernelModules)
    /\ loads' = Pop
    /\ UNCHANGED <<installation, phase, spec, todo, namespace, symbols, symbolTable, provider,
                   newMd, loadedModules, stopped>>

-----------------------------------------------------------------------------
Orders(names) == {f \in [1..Cardinality(names) -> names] : IsInjective(f)}

LoadNext ==
    \/ \E path \in DOMAIN installation.modules : load(path)
    \/ /\ loads # <<>> /\ Top.path \in DOMAIN installation.modules
       /\ \E files \in Orders(DOMAIN Source.classes) : createModule(files)
    \/ moduleNotFound \/ importRequired \/ sortClasses \/ createClass \/ compileExtensions
    \/ register \/ justLoaded

Next ==
    \/ BootNext /\ UNCHANGED loaderVars
    \/ loadKernel
    \/ LoadNext

\* Everything is done by one thread, which does not stop in the middle.
Working == phase \notin {"done", "failed"} \/ loads # <<>>
Fairness == WF_vars(Working /\ Next)
Spec == LoaderInit /\ [][Next]_vars
FairSpec == Spec /\ Fairness

-----------------------------------------------------------------------------
(* What the sources say, without the objects made from them.                *)
\* The classes of the sources: those of the kernel, and of a module.
SpecOf(sp) ==
    IF sp.module = Kernel THEN installation.kernel[sp.name]
    ELSE installation.modules[modules[sp.module].path].classes[sp.name]

\* What name means in the sources of a module: a class of its own, one that
\* all modules know, or one that it imports.
Meant(path, name) ==
    LET source == installation.modules[path]
        from == {i \in DOMAIN source.imports : source.imports[i].name = name}
        of(p) == ClassIn(kernelModules[p], name)
    IN  CASE name \in DOMAIN source.classes -> of(path)
          [] name \notin DOMAIN source.classes /\ from # {} -> of(source.imports[Max(from)].module)
          [] OTHER -> Class(name)

\* The species above sp: superclasses by name; above the metaclass of a root
\* there is Class.
Above(sp) ==
    LET super == SpecOf(sp).supername
        class == CASE super = Nil -> IF sp.side = "metaclass" THEN Class("Class") ELSE Nil
                   [] super # Nil /\ sp.module = Kernel ->
                          IF super \in DOMAIN installation.kernel THEN Class(super) ELSE Nil
                   [] OTHER -> IF super = "Module" THEN Class(super)
                               ELSE Meant(modules[sp.module].path, super)
    IN  IF sp.side = "class" \/ class = Nil \/ super = Nil THEN class ELSE Metaclass(class)

Lineage(sp) == Upwards(sp, Above, Cardinality(DOMAIN objects))

MethodsOfSide(sp, s) == IF sp.side = "class" THEN s.methods ELSE s.metaMethods

\* Its own methods in the sources; Kernel/VM comes after the class itself.
Definitions(sp) ==
    MethodsOfSide(sp, SpecOf(sp))
    \o IF sp.module = Kernel /\ sp.name \in DOMAIN installation.vm
       THEN MethodsOfSide(sp, installation.vm[sp.name]) ELSE <<>>
Definition(sp, selector) ==
    LET found == {i \in DOMAIN Definitions(sp) :
                      Definitions(sp)[i].selector = selector /\ Definitions(sp)[i].compiles}
    IN  IF found = {} THEN Nil ELSE Definitions(sp)[Max(found)].source

\* The names that mean something in a module: of its own classes, of those
\* that every module knows, and of those that it imports.
Known(source) == DOMAIN source.classes \cup KernelExports \cup Range([i \in DOMAIN source.imports |-> source.imports[i].name])

\* The loaded modules that extend sp with a method for selector, and with what.
ExtendedBy(path, sp, selector) ==
    \E name \in DOMAIN installation.modules[path].extensions :
        /\ name = sp.name /\ name \in Known(installation.modules[path]) /\ Meant(path, name) = ClassOf(sp)
        /\ \E i \in DOMAIN MethodsOfSide(sp, installation.modules[path].extensions[name]) :
              MethodsOfSide(sp, installation.modules[path].extensions[name])[i].selector = selector
LoadedPaths == DOMAIN kernelModules \ {<<"Kernel">>}
Extenders(sp, selector) == {path \in LoadedPaths : ExtendedBy(path, sp, selector)}

\* A method found is the one that the sources have there.
FromSource(method, sp, selector) ==
    /\ method # Nil /\ method.class = sp
    /\ IF Extenders(sp, selector) = {}
       THEN method.source = Definition(sp, selector)
       ELSE method.module \in {kernelModules[p] : p \in Extenders(sp, selector)}

Selectors == UNION {NamesIn(SpecOf(sp).methods \o SpecOf(sp).metaMethods) : sp \in DOMAIN objects}
Visible == IF phase \in {"specs", "initial", "instantiate", "initialize", "namespace", "methods"}
           THEN {} ELSE {sp \in DOMAIN objects : sp.module = Kernel \/ sp.module \in Range(kernelModules)}

-----------------------------------------------------------------------------
TypeOK ==
    /\ phase \in Phases
    /\ provider \in {"bootstrap", "dynamic"}
    /\ \A sp \in DOMAIN objects :
          /\ objects[sp].next \in DOMAIN objects \cup {Nil}
          /\ objects[sp].superclass \in DOMAIN objects \cup {Nil}
          /\ objects[sp].md = Nil \/ objects[sp].md.kind \in {"Array", "MethodDictionary"}
          /\ phase = "done" => objects[sp].md.kind = "MethodDictionary"
    /\ DOMAIN kernelModules = {} \/ kernelModules[<<"Kernel">>] = Kernel
    /\ \A i \in DOMAIN loads : loads[i].module \in DOMAIN modules \cup {Nil}

\* From the moment the runtime exists, every lookup, by a symbol the runtime
\* answers for the selector, finds what the sources have: the method of the
\* nearest class up the hierarchy, as Kernel/VM overrides it, or a loaded
\* module.  In particular while the method dictionaries are converted one
\* after the other by messages that depend on them (convertMethodDictionaries),
\* and when a load fails in the middle.
LookupFindsSource ==
    \A sp \in Visible : LET lineage == Lineage(sp) IN \A selector \in Selectors :
        LET symbol == existingSymbolFor(selector)
            having == {i \in DOMAIN lineage : \/ Definition(lineage[i], selector) # Nil
                                              \/ Extenders(lineage[i], selector) # {}}
            found == IF symbol = Nil THEN Nil ELSE doLookup(symbol, sp)
        IN  IF having = {} THEN found = Nil
            ELSE FromSource(found, lineage[Min(having)], selector)

\* The size in the format of a class is the number of instance variables that
\* it and its superclasses declare, whichever modules they are in: specs are
\* added up by the Bootstrapper, formats by createNewClassFrom_.
InstanceSizesAddUp ==
    \A sp \in Visible : sp.side = "class" =>
        objects[sp].format = Folded(LAMBDA n, c : n + Len(SpecOf(c).instVarNames), 0, Lineage(sp))

\* There is one symbol of each name among all that methods, dictionaries and
\* the symbol table refer to, across the change from the symbols of the
\* Bootstrapper to those of Smalltalk (fillSymbolTable,
\* switchToDynamicSymbolProvider_); lookups compare identities.
SymbolsUnique ==
    LET inMethod(m) == {m.selector} \cup {m.literals[i] : i \in DOMAIN m.literals}
        used == UNION {UNION {{objects[sp].md.pairs[i][1]} \cup inMethod(objects[sp].md.pairs[i][2]) :
                                  i \in DOMAIN objects[sp].md.pairs} :
                         sp \in {x \in DOMAIN objects : objects[x].md # Nil}}
        all == used \cup symbolTable \cup Range(symbols)
    IN  \A s, t \in all : s.name = t.name => s = t

\* A module that the kernel has registered is complete: it is the one of that
\* path, it has all of its classes, and what it imports are the classes of the
\* modules registered for the imports, the same ones for all importers.  A load
\* that failed, or is under way, has registered nothing.
RegisteredModulesComplete ==
    \A path \in LoadedPaths :
        LET module == kernelModules[path]
            source == installation.modules[path]
        IN  /\ modules[module].path = path
            /\ \A name \in DOMAIN source.classes \cup {source.imports[i].name : i \in DOMAIN source.imports} :
                  /\ name \in DOMAIN modules[module].namespace
                  /\ modules[module].namespace[name] = Meant(path, name)
                  /\ Meant(path, name) \in DOMAIN objects

\* A method replaced by an extension is kept by the module it came from
\* (addOverride:), also when the extension is itself replaced by another.
OverridesKept ==
    \A sp \in Visible : \A i \in DOMAIN objects[sp].md.pairs :
        LET method == objects[sp].md.pairs[i][2]
            selector == method.selector.name
            signature == <<sp, selector>>
            kept(m) == signature \in DOMAIN modules[m].overriden /\ modules[m].overriden[signature].module = m
        IN  /\ method.module # sp.module /\ Definition(sp, selector) # Nil => kept(sp.module)
            /\ \A path \in Extenders(sp, selector) :
                  kernelModules[path] # method.module => kept(kernelModules[path])

\* Sources without a flaw load: with files that can be read and compiled,
\* superclasses and imports that exist, and a kernel that understands what the
\* bootstrap sends, neither the bootstrap nor a load ever ends in an error, in
\* whatever order a directory lists its files and modules are asked for.
SoundModule(source) ==
    /\ ~source.unreadable
    /\ \A n \in DOMAIN source.classes : AllCompile(source.classes[n])
    /\ \A n \in DOMAIN source.extensions : AllCompile(source.extensions[n])
    /\ \E n \in DOMAIN source.classes : source.classes[n].supername = "Module"
    /\ \A n \in DOMAIN source.classes : source.classes[n].supername \in Known(source) \cup {"Module"}
    /\ \A i \in DOMAIN source.imports :
          LET import == source.imports[i]
          IN  \/ import.module = <<"Kernel">> /\ import.name \in DOMAIN installation.kernel
              \/ /\ import.module \in DOMAIN installation.modules
                 /\ import.name \in DOMAIN installation.modules[import.module].classes
SourceUnderstands(sp, selector) ==
    LET lineage == Lineage(sp) IN \E i \in DOMAIN lineage : Definition(lineage[i], selector) # Nil
SoundKernel ==
    /\ ~installation.unreadable
    /\ SourceUnderstands(Class("KernelModule"), "bootstrap")
    /\ SourceUnderstands(Metaclass(Class("MethodDictionary")), "new:")
    /\ SourceUnderstands(Class("MethodDictionary"), "at:put:")
SoundSourcesLoad ==
    /\ phase = "failed" => ~SoundKernel
    /\ stopped # Nil => \E p \in DOMAIN installation.modules : ~SoundModule(installation.modules[p])

\* Whatever the thread starts, the bootstrap or a load, comes to an end: no
\* conversion goes on for ever, nor do loads that ask for each other.  The sort of
\* the classes is one step here, so this says nothing of its loop.
WorkEnds == Working ~> ~Working

\* Kernel load: answers the module that was asked for.
LoadAnswersNamed == \A path \in DOMAIN kernelModules : modules[kernelModules[path]].path = path
=============================================================================
