------------------------ MODULE ModuleLoader_sources ------------------------
(***************************************************************************)
(* What the sources say about behaviors and their dictionaries, the        *)
(* invariant that the runtime agrees with that, and the steps that make    *)
(* classes and compile extensions.                                         *)
(***************************************************************************)
EXTENDS ModuleLoader_proofs

-----------------------------------------------------------------------------
(* What the sources say, given the files, the modules and what the kernel  *)
(* has registered.                                                         *)
SpecIn(files, mods, sp) ==
    IF sp.module = Kernel THEN files.kernel[sp.name]
    ELSE files.modules[mods[sp.module].path].classes[sp.name]

(* What name means in module m, whose sources are at path.                 *)
MeantIn(files, kernels, m, path, name) ==
    LET source == files.modules[path]
        from == {i \in DOMAIN source.imports : source.imports[i].name = name}
    IN  CASE name \in DOMAIN source.classes -> ClassIn(m, name)
          [] name \notin DOMAIN source.classes /\ from # {} ->
                ClassIn(kernels[source.imports[Max(from)].module], name)
          [] OTHER -> Class(name)

(* The species above sp: a root, a class of the kernel, a class of a module. *)
AboveIn(files, mods, kernels, sp) ==
    LET super == SpecIn(files, mods, sp).supername
        class == CASE super = Nil -> IF sp.side = "metaclass" THEN Class("Class") ELSE Nil
                   [] super # Nil /\ sp.module = Kernel ->
                          IF super \in DOMAIN files.kernel THEN Class(super) ELSE Nil
                   [] OTHER -> IF super = "Module" THEN Class(super)
                               ELSE MeantIn(files, kernels, sp.module, mods[sp.module].path, super)
    IN  IF sp.side = "class" \/ class = Nil \/ super = Nil THEN class ELSE Metaclass(class)

(* The methods that the sources define for a species.                      *)
MethodsOf(files, mods, sp) ==
    MethodsOfSide(sp, SpecIn(files, mods, sp))
    \o IF sp.module = Kernel /\ sp.name \in DOMAIN files.vm
       THEN MethodsOfSide(sp, files.vm[sp.name]) ELSE <<>>
Defined(files, mods, sp) == LastOnes(MethodsOf(files, mods, sp))

(* The methods with which module m, with the sources at path, extends sp:  *)
(* selectors and m; and all with which registered modules do.              *)
SelectorsOf(methods, m) == {<<methods[i].selector, m>> : i \in DOMAIN methods}
ExtensionsIn(files, kernels, m, path, sp) ==
    LET source == files.modules[path]
    IN  IF /\ sp.name \in DOMAIN source.extensions /\ sp.name \in Known(source)
           /\ MeantIn(files, kernels, m, path, sp.name) = ClassOf(sp)
        THEN SelectorsOf(MethodsOfSide(sp, source.extensions[sp.name]), m) ELSE {}
ExtendedWith(files, kernels, sp) ==
    UNION {ExtensionsIn(files, kernels, kernels[p], p, sp) : p \in DOMAIN kernels \ {<<"Kernel">>}}

-----------------------------------------------------------------------------
(* An installation whose sources say clearly what there is to find: it is  *)
(* unambiguous what modules import, they have no classes with names that   *)
(* the kernel's namespace has, and the method arrays of the Bootstrapper   *)
(* have room.                                                              *)
Merged(files) == WithExtensions(files.kernel, files.vm)
Roomy(files) ==
    \A n \in DOMAIN files.kernel : Fits(Merged(files)[n].methods) /\ Fits(Merged(files)[n].metaMethods)
OwnNames(files) ==
    \A p \in DOMAIN files.modules :
       DOMAIN files.modules[p].classes \cap (DOMAIN files.kernel \cup {"WordSize", "Kernel"}) = {}
Clear(files) == Unambiguous(files) /\ Roomy(files) /\ OwnNames(files)

-----------------------------------------------------------------------------
(* The inductive invariant.  Who knows which symbols.                      *)
KnownSymbols ==
    /\ Universe \subseteq Symbol
    /\ provider = "bootstrap" => symbolTable \subseteq Range(symbols)
    /\ provider = "dynamic" => Range(symbols) \subseteq symbolTable
    /\ phase \notin {"convert", "done", "failed"} => provider = "bootstrap"
    /\ phase \in {"convert", "done"} => provider = "dynamic"

(* What the Bootstrapper has read, and the namespace it makes of that.     *)
HasEntry(table, symbol) == \E i \in DOMAIN table : table[i] # Nil /\ table[i].key = symbol
SpecsMerged ==
    /\ phase \notin {"specs", "failed"} => spec = Merged(installation)
    /\ phase \notin {"specs", "initial", "instantiate", "initialize", "namespace", "failed"} =>
          \A n \in DOMAIN installation.kernel :
             n \in DOMAIN symbols /\ HasEntry(namespace, symbols[n])

(* What a behavior links to and what it answers is what the sources say.   *)
Placed(slots, sp, files, mods, kernels) == slots.next = AboveIn(files, mods, kernels, sp)
Faithful(slots, sp, files, mods, kernels) ==
    /\ Placed(slots, sp, files, mods, kernels)
    /\ Says(slots.md.pairs, sp, Defined(files, mods, sp), ExtendedWith(files, kernels, sp))
Fresh(slots, sp, files, mods, kernels) ==
    Placed(slots, sp, files, mods, kernels) /\ slots.md.pairs = <<>>

IsFresh(sp) == Fresh(objects[sp], sp, installation, modules, kernelModules)
IsFaithful(sp) == Faithful(objects[sp], sp, installation, modules, kernelModules)
PairsSoFar == SubSeq(objects[Converting].md.pairs, 1, Len(newMd))
DictionariesInv ==
    /\ phase = "initialize" => \A sp \in DOMAIN objects : sp.name \in todo \/ IsFresh(sp)
    /\ phase = "namespace" => \A sp \in DOMAIN objects : IsFresh(sp)
    /\ phase = "methods" =>
          \A sp \in DOMAIN objects : IF sp.name \in todo THEN IsFresh(sp) ELSE IsFaithful(sp)
    /\ phase \in {"runtime", "fill", "switch", "convert", "done", "failed"} =>
          \A sp \in DOMAIN objects : IsFaithful(sp)
    /\ phase = "convert" /\ newMd # Nil =>
          newMd = PairsSoFar /\ Len(newMd) <= Len(objects[Converting].md.pairs)
    /\ phase \notin {"convert", "failed"} => newMd = Nil

(* The species of a module are those of its classes, and what their        *)
(* superclasses mean is settled.                                           *)
Settled(source, kernels) ==
    \A i \in DOMAIN source.imports : source.imports[i].module \in DOMAIN kernels
OfSource(sp, files, mods, kernels) ==
    /\ sp \in Species /\ sp.side \in {"class", "metaclass"}
    /\ IF sp.module = Kernel THEN sp.name \in DOMAIN files.kernel
       ELSE LET source == files.modules[mods[sp.module].path]
            IN  /\ sp.name \in DOMAIN source.classes
                /\ source.classes[sp.name].supername = "Module" \/ Settled(source, kernels)

(* Every module knows what all modules know, and its own classes first.    *)
KnowsNames(module, m, files) ==
    /\ module.path \in DOMAIN files.modules /\ "Module" \in DOMAIN files.kernel
    /\ LET source == files.modules[module.path]
       IN  /\ \A n \in KernelExports \ (DOMAIN source.classes \cup Imported(source)) :
                 /\ n \in DOMAIN files.kernel => n \in DOMAIN module.namespace
                 /\ n \in DOMAIN module.namespace => module.namespace[n] = Class(n)
           /\ \A n \in DOMAIN source.classes \cap DOMAIN module.namespace :
                 module.namespace[n] = ClassIn(m, n)

(* The extensions of a module that is complete are those of its sources.   *)
There(files, sp) ==
    /\ sp \in Species /\ sp.side \in {"class", "metaclass"}
    /\ sp.module = Kernel => sp.name \in DOMAIN files.kernel
ExtensionIs(e, m, files, kernels, path) ==
    /\ e \in Method /\ e.module = m
    /\ <<e.selector.name, m>> \in ExtensionsIn(files, kernels, m, path, e.class)
Extending(module, m, files, kernels) ==
    /\ \A i \in 1 .. Len(module.extensions) :
          ExtensionIs(module.extensions[i], m, files, kernels, module.path)
    /\ \A sp : There(files, sp) =>
          \A x \in ExtensionsIn(files, kernels, m, module.path, sp) :
             \E i \in 1 .. Len(module.extensions) :
                module.extensions[i].class = sp /\ module.extensions[i].selector.name = x[1]

SourcesInv ==
    /\ \A sp \in DOMAIN objects : OfSource(sp, installation, modules, kernelModules)
    /\ \A m \in DOMAIN modules \ {Kernel} : KnowsNames(modules[m], m, installation)
    /\ \A m \in Registered \ {Kernel} : Extending(modules[m], m, installation, kernelModules)
    /\ \A i \in 1 .. Len(loads) : loads[i].step = "register" =>
          Extending(modules[loads[i].module], loads[i].module, installation, kernelModules)

LookInv ==
    /\ KnownSymbols /\ SpecsMerged
    /\ Clear(installation) => DictionariesInv /\ SourcesInv
-----------------------------------------------------------------------------
(* The species of the kernel.                                              *)
LEMMA ClassIs ==
  ASSUME NEW n \in STRING, NEW m \in Nat
  PROVE  /\ ClassIn(m, n) \in Species /\ ClassIn(m, n) # Nil
         /\ ClassIn(m, n).side = "class" /\ ClassIn(m, n).module = m /\ ClassIn(m, n).name = n
         /\ ClassOf(ClassIn(m, n)) = ClassIn(m, n)
         /\ Metaclass(ClassIn(m, n)) \in Species /\ Metaclass(ClassIn(m, n)) # Nil
         /\ Metaclass(ClassIn(m, n)).side = "metaclass" /\ Metaclass(ClassIn(m, n)).module = m
         /\ Metaclass(ClassIn(m, n)).name = n
         /\ ClassOf(Metaclass(ClassIn(m, n))) = ClassIn(m, n)
         /\ ClassIn(0, n) = Class(n)
  <1>1. PICK c : c = [side |-> "class", module |-> m, name |-> n]
    OBVIOUS
  <1>2. PICK d : d = [side |-> "metaclass", module |-> m, name |-> n]
    OBVIOUS
  <1>3. c \in Species /\ d \in Species
    BY <1>1, <1>2 DEF Species
  <1>4. ClassIn(m, n) = c /\ Metaclass(c) = d /\ ClassOf(c) = c /\ ClassOf(d) = c
    BY <1>1, <1>2 DEF ClassIn, Metaclass, ClassOf
  <1>5. c # Nil /\ d # Nil
    BY <1>3, NilAssumption
  <1>6. /\ c.side = "class" /\ c.module = m /\ c.name = n
        /\ d.side = "metaclass" /\ d.module = m /\ d.name = n
    BY <1>1, <1>2
  <1>7. ClassIn(0, n) = Class(n)
    BY DEF ClassIn, Class
  <1> QED
    BY <1>3, <1>4, <1>5, <1>6, <1>7

(* The species of the kernel with a name, both sides of it.                *)
LEMMA KernelClassIs ==
  ASSUME NEW n \in STRING
  PROVE  /\ Class(n) \in Species /\ Class(n) # Nil /\ Class(n) = ClassIn(0, n)
         /\ Class(n).side = "class" /\ Class(n).module = Kernel /\ Class(n).name = n
         /\ ClassOf(Class(n)) = Class(n)
         /\ Metaclass(Class(n)) \in Species /\ Metaclass(Class(n)) # Nil
         /\ Metaclass(Class(n)).side = "metaclass" /\ Metaclass(Class(n)).module = Kernel
         /\ Metaclass(Class(n)).name = n
         /\ ClassOf(Metaclass(Class(n))) = Class(n)
  <1>1. PICK m : m = 0
    OBVIOUS
  <1>2. m \in Nat /\ ClassIn(m, n) = Class(n) /\ m = Kernel
    BY <1>1 DEF ClassIn, Class, Kernel
  <1> QED
    BY <1>1, <1>2, ClassIs

(* The species that the Bootstrapper makes are those of the sources.       *)
LEMMA KernelOfSource ==
  ASSUME NEW files \in Installations, NEW sp \in SpeciesIn(DOMAIN files.kernel)
  PROVE  /\ sp \in Species /\ sp.side \in {"class", "metaclass"} /\ sp.module = Kernel
         /\ sp.name \in DOMAIN files.kernel /\ sp.name \in STRING
         /\ sp = IF sp.side = "class" THEN Class(sp.name) ELSE Metaclass(Class(sp.name))
         /\ \A mods, kernels : OfSource(sp, files, mods, kernels)
  <1>1. PICK n \in DOMAIN files.kernel : sp = Class(n) \/ sp = Metaclass(Class(n))
    BY DEF SpeciesIn
  <1>2. n \in STRING
    BY InstallationsAssumption DEF InstallationOK
  <1>3. /\ sp \in Species /\ sp.side \in {"class", "metaclass"} /\ sp.module = Kernel /\ sp.name = n
        /\ sp = IF sp.side = "class" THEN Class(sp.name) ELSE Metaclass(Class(sp.name))
    BY <1>1, <1>2, KernelClassIs, ZenonT(40)
  <1> QED
    BY <1>1, <1>2, <1>3 DEF OfSource

(* The specs that the Bootstrapper has read.                               *)
LEMMA MergedIs ==
  ASSUME NEW files \in Installations
  PROVE  /\ DOMAIN Merged(files) = DOMAIN files.kernel
         /\ \A n \in DOMAIN files.kernel :
               /\ n \in STRING /\ Merged(files)[n].supername = files.kernel[n].supername
               /\ files.kernel[n].supername \in STRING \cup {Nil}
               /\ Merged(files)[n].methods \in Seq(MethodSpec)
               /\ Merged(files)[n].metaMethods \in Seq(MethodSpec)
               /\ Merged(files)[n].instVarNames \in Seq(STRING)
               /\ Merged(files)[n].classInstVarNames \in Seq(STRING)
               /\ \A sp, mods : sp.module = Kernel /\ sp.name = n =>
                     MethodsOf(files, mods, sp) =
                        IF sp.side = "class" THEN Merged(files)[n].methods ELSE Merged(files)[n].metaMethods
  <1>1. InstallationOK(files)
    BY InstallationsAssumption
  <1>2. PICK kernel, vm, all : kernel = files.kernel /\ vm = files.vm /\ all = Merged(files)
    OBVIOUS
  <1>3. /\ \A n \in DOMAIN kernel : n \in STRING /\ kernel[n] \in ClassSpec
        /\ \A n \in DOMAIN vm : vm[n] \in ExtensionSpec
    BY <1>1, <1>2 DEF InstallationOK
  <1>4. all = [name \in DOMAIN kernel |->
                 IF name \notin DOMAIN vm THEN kernel[name]
                 ELSE [kernel[name] EXCEPT !.methods = @ \o vm[name].methods,
                                           !.metaMethods = @ \o vm[name].metaMethods]]
    BY <1>2, Zenon DEF Merged, WithExtensions
  <1>5. ASSUME NEW n \in DOMAIN kernel
        PROVE  /\ n \in STRING /\ all[n].supername = kernel[n].supername
               /\ kernel[n].supername \in STRING \cup {Nil}
               /\ all[n].methods \in Seq(MethodSpec) /\ all[n].metaMethods \in Seq(MethodSpec)
               /\ all[n].instVarNames \in Seq(STRING) /\ all[n].classInstVarNames \in Seq(STRING)
               /\ all[n].methods = kernel[n].methods \o IF n \in DOMAIN vm THEN vm[n].methods ELSE <<>>
               /\ all[n].metaMethods
                     = kernel[n].metaMethods \o IF n \in DOMAIN vm THEN vm[n].metaMethods ELSE <<>>
    <2>1. PICK s : s = kernel[n]
      OBVIOUS
    <2>2. /\ DOMAIN s = {"supername", "instVarNames", "classInstVarNames", "methods", "metaMethods"}
          /\ s.supername \in STRING \cup {Nil}
          /\ s.methods \in Seq(MethodSpec) /\ s.metaMethods \in Seq(MethodSpec)
          /\ s.instVarNames \in Seq(STRING) /\ s.classInstVarNames \in Seq(STRING)
      BY <1>3, <2>1 DEF ClassSpec
    <2>3. CASE n \notin DOMAIN vm
      <3>1. all[n] = s
        BY <1>4, <2>1, <2>3, Zenon
      <3>2. s.methods \o <<>> = s.methods /\ s.metaMethods \o <<>> = s.metaMethods
        BY <2>2
      <3> QED
        BY <1>3, <2>1, <2>2, <2>3, <3>1, <3>2
    <2>4. CASE n \in DOMAIN vm
      <3>1. PICK more, metaMore : more = vm[n].methods /\ metaMore = vm[n].metaMethods
        OBVIOUS
      <3>2. more \in Seq(MethodSpec) /\ metaMore \in Seq(MethodSpec)
        BY <1>3, <2>4, <3>1 DEF ExtensionSpec
      <3>3. all[n] = [s EXCEPT !.methods = @ \o more, !.metaMethods = @ \o metaMore]
        BY <1>4, <2>1, <2>4, <3>1, Zenon
      <3>4. /\ all[n].methods = s.methods \o more /\ all[n].metaMethods = s.metaMethods \o metaMore
            /\ all[n].supername = s.supername
            /\ all[n].instVarNames = s.instVarNames /\ all[n].classInstVarNames = s.classInstVarNames
        BY <2>2, <3>3
      <3>5. all[n].methods \in Seq(MethodSpec) /\ all[n].metaMethods \in Seq(MethodSpec)
        BY <2>2, <3>2, <3>4
      <3> QED
        BY <1>3, <2>1, <2>2, <2>4, <3>1, <3>4, <3>5
    <2> QED
      BY <2>3, <2>4
  <1>6. ASSUME NEW n \in DOMAIN kernel, NEW sp, NEW mods, sp.module = Kernel, sp.name = n
        PROVE  MethodsOf(files, mods, sp) =
                  IF sp.side = "class" THEN all[n].methods ELSE all[n].metaMethods
    <2>1. PICK spec1, more : spec1 = kernel[n] /\ more = vm[n]
      OBVIOUS
    <2>2. SpecIn(files, mods, sp) = spec1
      BY <1>2, <1>6, <2>1 DEF SpecIn
    <2>3. MethodsOf(files, mods, sp) =
             MethodsOfSide(sp, spec1) \o IF n \in DOMAIN vm THEN MethodsOfSide(sp, more) ELSE <<>>
      BY <1>2, <1>6, <2>1, <2>2 DEF MethodsOf
    <2>4. CASE sp.side = "class"
      BY <1>5, <2>1, <2>3, <2>4 DEF MethodsOfSide
    <2>5. CASE sp.side # "class"
      BY <1>5, <2>1, <2>3, <2>5 DEF MethodsOfSide
    <2> QED
      BY <2>4, <2>5
  <1>7. DOMAIN all = DOMAIN kernel
    BY <1>4, Zenon
  <1>8. \A n \in DOMAIN kernel :
            /\ n \in STRING /\ all[n].supername = kernel[n].supername
            /\ kernel[n].supername \in STRING \cup {Nil}
            /\ all[n].methods \in Seq(MethodSpec) /\ all[n].metaMethods \in Seq(MethodSpec)
            /\ all[n].instVarNames \in Seq(STRING) /\ all[n].classInstVarNames \in Seq(STRING)
    BY <1>5
  <1>9. \A n \in DOMAIN kernel : \A sp, mods2 : sp.module = Kernel /\ sp.name = n =>
           MethodsOf(files, mods2, sp) =
              IF sp.side = "class" THEN all[n].methods ELSE all[n].metaMethods
    BY <1>6
  <1> QED
    BY <1>2, <1>7, <1>8, <1>9

(* What a species of the kernel is linked to.                              *)
LEMMA KernelAbove ==
  ASSUME NEW files \in Installations, NEW mods, NEW kernels, NEW n \in DOMAIN files.kernel,
         NEW super, super = files.kernel[n].supername
  PROVE  /\ AboveIn(files, mods, kernels, Class(n)) =
               IF super # Nil /\ super \in DOMAIN files.kernel THEN Class(super) ELSE Nil
         /\ AboveIn(files, mods, kernels, Metaclass(Class(n))) =
               IF super = Nil THEN Class("Class")
               ELSE IF super \in DOMAIN files.kernel THEN Metaclass(Class(super)) ELSE Nil
  <1>1. PICK c, d : c = Class(n) /\ d = Metaclass(Class(n))
    OBVIOUS
  <1>2. n \in STRING /\ \A x \in DOMAIN files.kernel : x \in STRING
    BY InstallationsAssumption DEF InstallationOK
  <1>3. /\ c.side = "class" /\ c.module = Kernel /\ c.name = n
        /\ d.side = "metaclass" /\ d.module = Kernel /\ d.name = n
    BY <1>1, <1>2, KernelClassIs
  <1>4. SpecIn(files, mods, c).supername = super /\ SpecIn(files, mods, d).supername = super
    BY <1>3 DEF SpecIn
  <1>5. super \in DOMAIN files.kernel => Class(super) # Nil
    BY <1>2, KernelClassIs
  <1>6. CASE super = Nil
    BY <1>1, <1>3, <1>4, <1>6 DEF AboveIn
  <1>7. CASE super # Nil /\ super \in DOMAIN files.kernel
    BY <1>1, <1>3, <1>4, <1>5, <1>7 DEF AboveIn
  <1>8. CASE super # Nil /\ super \notin DOMAIN files.kernel
    BY <1>1, <1>3, <1>4, <1>8 DEF AboveIn
  <1> QED
    BY <1>6, <1>7, <1>8

(* Where only the kernel is, nothing is extended.                          *)
LEMMA NotExtended ==
  ASSUME NEW files, NEW kernels, DOMAIN kernels \subseteq {<<"Kernel">>}, NEW sp
  PROVE  ExtendedWith(files, kernels, sp) = {}
  <1>1. DOMAIN kernels \ {<<"Kernel">>} = {}
    OBVIOUS
  <1> QED
    BY <1>1 DEF ExtendedWith

(* Until the bootstrap is over there are no modules and no loads.          *)
LEMMA NoKernelModules ==
  ASSUME Inv, LinksInv, phase # "done"
  PROVE  DOMAIN kernelModules = {} /\ Registered = {Kernel} /\ loads = <<>> /\ DOMAIN modules = {}
  <1>1. DOMAIN modules = {} /\ loads = <<>>
    BY DEF Inv, LoaderInv
  <1>2. Range(kernelModules) = {} /\ Range(loadedModules) = {}
    BY <1>1 DEF LinksInv, ModuleInv, Inv, LoaderInv
  <1> QED
    BY <1>1, <1>2 DEF Range, Registered

(* The sources of an installation, while there is only the kernel.         *)
LEMMA KernelSources ==
  ASSUME Inv, LinksInv, phase # "done", UNCHANGED <<installation, modules, loadedModules, kernelModules, loads>>,
         DOMAIN objects' \subseteq SpeciesIn(DOMAIN installation.kernel) \cup DOMAIN objects,
         \A sp \in DOMAIN objects : OfSource(sp, installation, modules, kernelModules)
  PROVE  SourcesInv'
  <1>1. DOMAIN kernelModules = {} /\ Registered = {Kernel} /\ loads = <<>> /\ DOMAIN modules = {}
    BY NoKernelModules
  <1>2. installation \in Installations
    BY DEF Inv, BootInv
  <1>3. \A sp \in DOMAIN objects' : OfSource(sp, installation, modules, kernelModules)
    BY <1>2, KernelOfSource
  <1>4. Registered' \ {Kernel} = {} /\ Len(loads') = 0
    BY <1>1, Emptied DEF Registered
  <1> QED
    BY <1>1, <1>3, <1>4 DEF SourcesInv
-----------------------------------------------------------------------------
(* The symbols of the bootstrap.                                           *)
LEMMA NamesOfMethods ==
  ASSUME NEW methods \in Seq(MethodSpec)
  PROVE  /\ NamesIn(methods) \subseteq STRING
         /\ \A m \in Range(methods) : m \in MethodSpec /\ NamesOfMethod(m) \subseteq STRING
  <1>1. ASSUME NEW m \in MethodSpec PROVE NamesOfMethod(m) \subseteq STRING
    <2>1. m.selector \in STRING /\ m.literals \in Seq(STRING)
      BY <1>1 DEF MethodSpec
    <2>2. Range(m.literals) \subseteq STRING
      BY <2>1 DEF Range
    <2> QED
      BY <2>1, <2>2 DEF NamesOfMethod
  <1>2. \A m \in Range(methods) : m \in MethodSpec
    BY DEF Range
  <1> QED
    BY <1>1, <1>2 DEF NamesIn

(* symbolFor_ adds symbols and keeps those that are there.                 *)
LEMMA InternedSymbols ==
  ASSUME KnownSymbols, symbolTable = {}, provider = "bootstrap", UNCHANGED <<symbolTable, provider>>,
         phase' \notin {"convert", "done", "failed"},
         NEW names \in SUBSET STRING, symbols' = Interned(symbols, names)
  PROVE  /\ KnownSymbols'
         /\ \A n \in DOMAIN symbols : n \in DOMAIN symbols' /\ symbols'[n] = symbols[n]
  <1>1. /\ DOMAIN symbols' = DOMAIN symbols \cup names
        /\ \A n \in DOMAIN symbols' :
              symbols'[n] = IF n \in DOMAIN symbols THEN symbols[n] ELSE newSymbol(n)
    BY DEF Interned
  <1>2. ASSUME NEW n \in DOMAIN symbols' PROVE symbols'[n] \in Symbol
    <2>1. CASE n \in DOMAIN symbols
      BY <1>1, <2>1 DEF KnownSymbols, Universe, Range
    <2>2. CASE n \notin DOMAIN symbols
      <3>1. n \in STRING /\ symbols'[n] = [name |-> n, by |-> "Bootstrapper"]
        BY <1>1, <1>2, <2>2 DEF newSymbol
      <3> QED
        BY <3>1 DEF Symbol
    <2> QED
      BY <2>1, <2>2
  <1>3. Universe' \subseteq Symbol
    BY <1>2 DEF Universe, Range
  <1> QED
    BY <1>1, <1>3 DEF KnownSymbols

(* Every step of the bootstrap.                                            *)
LEMMA BootSymbols ==
  ASSUME Inv, KnownSymbols, SpecsMerged, BootNext
  PROVE  /\ KnownSymbols'
         /\ \A n \in DOMAIN symbols : n \in DOMAIN symbols' /\ symbols'[n] = symbols[n]
  <1>i. installation \in Installations
    BY DEF Inv, BootInv
  <1>m. DOMAIN Merged(installation) = DOMAIN installation.kernel
        /\ \A n \in DOMAIN installation.kernel :
             LET s == Merged(installation)[n]
             IN  /\ n \in STRING /\ s.methods \in Seq(MethodSpec) /\ s.metaMethods \in Seq(MethodSpec)
                 /\ s.instVarNames \in Seq(STRING) /\ s.classInstVarNames \in Seq(STRING)
    BY <1>i, MergedIs
  <1>1. CASE UNCHANGED <<symbols, symbolTable, provider>> /\ phase \notin {"switch", "convert", "done", "failed"}
             /\ phase' \notin {"convert", "done"}
    BY <1>1 DEF KnownSymbols, Universe
  <1>2. CASE UNCHANGED <<symbols, symbolTable, provider>> /\ phase = "convert"
             /\ phase' \in {"convert", "done", "failed"}
    BY <1>2 DEF KnownSymbols, Universe
  <1>3. CASE loadKernelSpecs \/ createInitialObjects \/ instantiateMetaobjectsOf
             \/ createRuntimeWithBootstrappedKernel
    BY <1>1, <1>3 DEF loadKernelSpecs, createInitialObjects, instantiateMetaobjectsOf, Continue,
                      createRuntimeWithBootstrappedKernel
  <1>4. CASE NewMethodDict \/ ConvertPair \/ ReplaceMethodDict
    BY <1>2, <1>4 DEF NewMethodDict, ConvertPair, ReplaceMethodDict
  <1>5. CASE initializeMetaobjectsOf
    <2>1. PICK s : s = spec[First]
      OBVIOUS
    <2>2. /\ phase = "initialize" /\ UNCHANGED <<symbolTable, provider>>
          /\ phase' \in {"initialize", "namespace"}
          /\ symbols' = Interned(symbols, {First} \cup Range(s.instVarNames) \cup Range(s.classInstVarNames))
      BY <1>5, <2>1 DEF initializeMetaobjectsOf, Continue
    <2>3. symbolTable = {} /\ provider = "bootstrap" /\ First \in DOMAIN spec /\ spec = Merged(installation)
      <3>1. todo # {} /\ todo \subseteq DOMAIN spec
        BY <2>2 DEF Inv, BootInv, SpecInv
      <3>2. First \in todo
        BY <3>1 DEF First
      <3> QED
        BY <2>2, <3>1, <3>2 DEF Inv, BootInv, SymbolInv, KnownSymbols, SpecsMerged
    <2>4. First \in STRING /\ s.instVarNames \in Seq(STRING) /\ s.classInstVarNames \in Seq(STRING)
      BY <1>m, <2>1, <2>3
    <2>5. {First} \cup Range(s.instVarNames) \cup Range(s.classInstVarNames) \in SUBSET STRING
      BY <2>4 DEF Range
    <2> QED
      BY <2>2, <2>3, <2>5, InternedSymbols
  <1>6. CASE createKernelNamespace
    <2>1. /\ phase = "namespace" /\ phase' = "methods" /\ UNCHANGED <<symbolTable, provider>>
          /\ symbols' = Interned(symbols, DOMAIN spec \cup {"WordSize", "Kernel"})
      BY <1>6 DEF createKernelNamespace
    <2>2. symbolTable = {} /\ provider = "bootstrap" /\ spec = Merged(installation)
      BY <2>1 DEF Inv, BootInv, SymbolInv, KnownSymbols, SpecsMerged
    <2>3. DOMAIN spec \cup {"WordSize", "Kernel"} \in SUBSET STRING
      <3>1. DOMAIN spec \subseteq STRING
        BY <1>m, <2>2
      <3> QED
        BY <3>1, StringsAssumption
    <2> QED
      BY <2>1, <2>2, <2>3, InternedSymbols
  <1>7. CASE loadKernelMethods
    <2>1. PICK s : s = spec[First]
      OBVIOUS
    <2>2. /\ phase = "methods" /\ UNCHANGED <<symbolTable, provider>>
          /\ phase' \in {"methods", "runtime"}
          /\ symbols' = Interned(symbols, UNION {NamesOfMethod(m) : m \in CompiledOf(s)})
      BY <1>7, <2>1 DEF loadKernelMethods, Continue, CompiledOf
    <2>3. symbolTable = {} /\ provider = "bootstrap" /\ First \in DOMAIN spec /\ spec = Merged(installation)
      <3>1. todo # {} /\ todo \subseteq DOMAIN spec
        BY <2>2 DEF Inv, BootInv, SpecInv
      <3>2. First \in todo
        BY <3>1 DEF First
      <3> QED
        BY <2>2, <3>1, <3>2 DEF Inv, BootInv, SymbolInv, KnownSymbols, SpecsMerged
    <2>4. s.methods \in Seq(MethodSpec) /\ s.metaMethods \in Seq(MethodSpec)
      BY <1>m, <2>1, <2>3
    <2>5. UNION {NamesOfMethod(m) : m \in CompiledOf(s)} \in SUBSET STRING
      BY <2>4, NamesOfMethods DEF CompiledOf
    <2> QED
      BY <2>2, <2>3, <2>5, InternedSymbols
  <1>8. CASE fillSymbolTable
    <2>1. /\ phase = "fill" /\ phase' \in {"fill", "switch"} /\ symbolTable' = symbolTable \cup {First}
          /\ UNCHANGED <<symbols, provider>>
      BY <1>8 DEF fillSymbolTable, Continue
    <2>2. First \in Range(symbols)
      <3>1. todo # {} /\ Range(symbols) = symbolTable \cup todo
        BY <2>1 DEF Inv, BootInv, SymbolInv
      <3> QED
        BY <3>1 DEF First
    <2>3. Universe' = Universe
      BY <2>1, <2>2 DEF Universe
    <2> QED
      BY <2>1, <2>2, <2>3 DEF KnownSymbols, Universe
  <1>9. CASE switchToDynamicSymbolProvider
    <2>1. /\ phase = "switch" /\ phase' = "convert" /\ provider' = "dynamic"
          /\ UNCHANGED <<symbols, symbolTable>>
      BY <1>9 DEF switchToDynamicSymbolProvider
    <2>2. Range(symbols) \subseteq symbolTable
      BY <2>1 DEF Inv, BootInv, SymbolInv
    <2> QED
      BY <2>1, <2>2 DEF KnownSymbols, Universe
  <1> QED
    BY <1>3, <1>4, <1>5, <1>6, <1>7, <1>8, <1>9 DEF BootNext
-----------------------------------------------------------------------------
(* The behaviors of the bootstrap.                                         *)
LEMMA WithPairsIs ==
  ASSUME NEW slots, {"next", "md"} \subseteq DOMAIN slots, "pairs" \in DOMAIN slots.md, NEW pairs
  PROVE  /\ WithPairs(slots, pairs).md.pairs = pairs /\ WithPairs(slots, pairs).next = slots.next
         /\ DOMAIN WithPairs(slots, pairs) = DOMAIN slots
         /\ DOMAIN WithPairs(slots, pairs).md = DOMAIN slots.md
  <1>1. PICK md : md = Replacing(slots.md, "pairs", pairs)
    OBVIOUS
  <1>2. PICK new : new = Replacing(slots, "md", md)
    OBVIOUS
  <1>3. WithPairs(slots, pairs) = new
    BY <1>1, <1>2 DEF WithPairs, Replacing
  <1>4. md.pairs = pairs /\ DOMAIN md = DOMAIN slots.md
    BY <1>1, ReplacingOne
  <1>5. new.md = md /\ new.next = slots.next /\ DOMAIN new = DOMAIN slots
    BY <1>2, ReplacingOne
  <1> QED
    BY <1>3, <1>4, <1>5

(* The methods of one behavior that had none are installed.                *)
LEMMA FreshInstalled ==
  ASSUME NEW U, Unique(U), NEW sp \in Species, sp.module = Kernel, NEW methods \in Seq(MethodSpec), Fits(methods),
         NEW known,
         \A i \in 1 .. Len(methods) :
            methods[i].compiles => Knows(known, NamesOfMethod(methods[i]), U),
         NEW slots, {"next", "md"} \subseteq DOMAIN slots, "pairs" \in DOMAIN slots.md,
         slots.md.pairs = <<>>,
         NEW new, new = WithPairs(slots, InstallAll(known, slots.md.pairs, sp, methods))
  PROVE  new.next = slots.next /\ Says(new.md.pairs, sp, LastOnes(methods), {})
  <1>1. PICK pairs : pairs = slots.md.pairs
    OBVIOUS
  <1>2. PICK all : all = InstallAll(known, pairs, sp, methods)
    OBVIOUS
  <1>3. pairs = <<>>
    BY <1>1
  <1>4. Says(all, sp, LastOnes(methods), {})
    BY <1>2, <1>3, InstallAllSays DEF Kernel
  <1>5. new = WithPairs(slots, all)
    BY <1>1, <1>2
  <1>6. new.md.pairs = all /\ new.next = slots.next
    BY <1>5, WithPairsIs
  <1> QED
    BY <1>4, <1>6

(* The steps that change neither behaviors nor what has been converted.    *)
LEMMA SamePairs ==
  ASSUME Inv, LinksInv, LinksInv', DictionariesInv, UNCHANGED loaderVars,
         loadKernelSpecs \/ createInitialObjects \/ createKernelNamespace
         \/ createRuntimeWithBootstrappedKernel \/ fillSymbolTable \/ switchToDynamicSymbolProvider
  PROVE  DictionariesInv' /\ objects' = objects /\ installation' = installation
  <1>1. UNCHANGED <<modules, kernelModules>>
    BY DEF loaderVars
  <1>2. CASE loadKernelSpecs
    <2>1. /\ phase = "specs" /\ phase' \in {"initial", "failed"}
          /\ UNCHANGED <<installation, objects, newMd>>
      BY <1>2 DEF loadKernelSpecs
    <2>2. DOMAIN objects = {}
      BY <2>1 DEF Inv, BootInv, SpeciesInv
    <2> QED
      BY <2>1, <2>2 DEF DictionariesInv
  <1>3. CASE createInitialObjects
    BY <1>3 DEF createInitialObjects, DictionariesInv
  <1>4. CASE createKernelNamespace
    <2>1. /\ phase = "namespace" /\ phase' = "methods" /\ todo' = DOMAIN spec
          /\ UNCHANGED <<installation, objects, newMd, spec>>
      BY <1>4 DEF createKernelNamespace
    <2>2. \A sp \in DOMAIN objects : sp.name \in DOMAIN spec /\ IsFresh(sp)
      BY <2>1, SpeciesOf DEF LinksInv, KernelInv, DictionariesInv
    <2>3. \A sp \in DOMAIN objects' : sp.name \in todo' /\ IsFresh(sp)'
      BY <1>1, <2>1, <2>2 DEF IsFresh
    <2> QED
      BY <2>1, <2>3 DEF DictionariesInv
  <1>5. CASE createRuntimeWithBootstrappedKernel \/ fillSymbolTable \/ switchToDynamicSymbolProvider
    <2>1. /\ phase \in {"runtime", "fill", "switch"} /\ phase' \in {"fill", "switch", "convert", "failed"}
          /\ UNCHANGED <<installation, objects, newMd>>
      BY <1>5 DEF createRuntimeWithBootstrappedKernel, fillSymbolTable, Continue,
                  switchToDynamicSymbolProvider
    <2>2. newMd = Nil /\ \A sp \in DOMAIN objects : IsFaithful(sp)
      BY <2>1 DEF DictionariesInv
    <2>3. \A sp \in DOMAIN objects' : IsFaithful(sp)'
      BY <1>1, <2>1, <2>2 DEF IsFaithful
    <2> QED
      BY <2>1, <2>2, <2>3 DEF DictionariesInv
  <1>6. objects' = objects /\ installation' = installation
    BY DEF loadKernelSpecs, createInitialObjects, createKernelNamespace, fillSymbolTable,
           createRuntimeWithBootstrappedKernel, switchToDynamicSymbolProvider
  <1> QED
    BY <1>2, <1>3, <1>4, <1>5, <1>6

(* instantiateMetaobjectsOf.                                               *)
LEMMA InstantiatePairs ==
  ASSUME Inv, LinksInv, LinksInv', SpecsMerged, DictionariesInv, instantiateMetaobjectsOf
  PROVE  /\ DictionariesInv' /\ installation' = installation
         /\ DOMAIN objects' \subseteq SpeciesIn(DOMAIN installation.kernel) \cup DOMAIN objects
  <1>1. /\ phase = "instantiate" /\ UNCHANGED <<installation, newMd, spec>>
        /\ phase' \in {"instantiate", "initialize"}
        /\ objects' = Over(objects, [sp \in {Class(First), Metaclass(Class(First))} |-> Empty])
    BY DEF instantiateMetaobjectsOf, Continue
  <1>2. todo # {} /\ todo \subseteq DOMAIN spec /\ spec = Merged(installation) /\ newMd = Nil
        /\ installation \in Installations
    BY <1>1 DEF Inv, BootInv, SpecInv, SpecsMerged, DictionariesInv
  <1>3. First \in todo
    BY <1>2 DEF First
  <1>4. First \in DOMAIN installation.kernel
    BY <1>2, <1>3, MergedIs
  <1>5. DOMAIN objects' = DOMAIN objects \cup {Class(First), Metaclass(Class(First))}
    BY <1>1 DEF Over
  <1>6. DOMAIN objects' \subseteq SpeciesIn(DOMAIN installation.kernel) \cup DOMAIN objects
    BY <1>4, <1>5 DEF SpeciesIn
  <1>7. ASSUME phase' = "initialize" PROVE \A sp \in DOMAIN objects' : sp.name \in todo'
    <2>1. todo' = DOMAIN spec
      BY <1>1, <1>7 DEF instantiateMetaobjectsOf, Continue
    <2>2. DOMAIN objects' = SpeciesIn(DOMAIN spec)
      BY <1>1, <1>7 DEF LinksInv, KernelInv
    <2> QED
      BY <2>1, <2>2, SpeciesOf
  <1> QED
    BY <1>1, <1>2, <1>6, <1>7 DEF DictionariesInv

(* initializeMetaobjectsOf: a class is linked to what its sources name.    *)
LEMMA InitializePairs ==
  ASSUME Inv, LinksInv, SpecsMerged, DictionariesInv, initializeMetaobjectsOf, UNCHANGED loaderVars
  PROVE  DictionariesInv' /\ installation' = installation /\ DOMAIN objects' = DOMAIN objects
  <1>1. /\ phase = "initialize" /\ Continue("namespace", {})
        /\ UNCHANGED <<installation, spec, namespace, symbolTable, provider, newMd, modules, kernelModules>>
    BY DEF initializeMetaobjectsOf, loaderVars
  <1>2. todo # {} /\ todo \subseteq DOMAIN spec /\ spec = Merged(installation) /\ newMd = Nil
        /\ installation \in Installations /\ DOMAIN objects = SpeciesIn(DOMAIN spec)
    BY <1>1 DEF Inv, BootInv, SpecInv, SpecsMerged, DictionariesInv, LinksInv, KernelInv
  <1>3. /\ First \in todo
        /\ \/ todo = {First} /\ todo' = {} /\ phase' = "namespace"
           \/ todo' = todo \ {First} /\ phase' = phase /\ todo' # {} /\ todo' \subseteq todo
    BY <1>1, <1>2, ContinueOn
  <1>4. DOMAIN spec = DOMAIN installation.kernel
        /\ \A n \in DOMAIN spec : n \in STRING /\ spec[n].supername = installation.kernel[n].supername
    BY <1>2, MergedIs
  <1>5. PICK class, metaclass : class = Class(First) /\ metaclass = Metaclass(class)
    OBVIOUS
  <1>6. PICK slots, metaslots : slots = SlotsOfClass /\ metaslots = SlotsOfMetaclass
    OBVIOUS
  <1>7. /\ DOMAIN objects' = DOMAIN objects
        /\ \A sp \in DOMAIN objects :
              objects'[sp] = IF sp = metaclass THEN metaslots
                             ELSE IF sp = class THEN slots ELSE objects[sp]
    <2>1. objects' = [objects EXCEPT ![class] = slots, ![metaclass] = metaslots]
      BY <1>5, <1>6 DEF initializeMetaobjectsOf, SlotsOfClass, SlotsOfMetaclass, KnownByInitialize
    <2> QED
      BY <2>1
  <1>8. PICK links, super : links = Links(First) /\ super = spec[First].supername
    OBVIOUS
  <1>9. /\ slots.next = links.class /\ slots.md = newMethodArray
        /\ metaslots.next = links.metaclass /\ metaslots.md = newMethodArray
    BY <1>6, <1>8 DEF SlotsOfClass, SlotsOfMetaclass
  <1>10. newMethodArray.pairs = <<>>
    BY DEF newMethodArray
  <1>11. /\ links.class = IF super # Nil /\ super \in DOMAIN spec THEN Class(super) ELSE Nil
         /\ links.metaclass = IF super = Nil THEN Class("Class")
                              ELSE IF super \in DOMAIN spec THEN Metaclass(Class(super)) ELSE Nil
    <2>1. CASE super = Nil
      <3>1. Nil \notin DOMAIN spec
        BY <1>4, NilAssumption
      <3> QED
        BY <1>8, <2>1, <3>1 DEF Links
    <2>2. CASE super # Nil /\ super \in DOMAIN spec
      BY <1>8, <2>2 DEF Links
    <2>3. CASE super # Nil /\ super \notin DOMAIN spec
      BY <1>8, <2>3 DEF Links
    <2> QED
      BY <2>1, <2>2, <2>3
  <1>12. /\ links.class = AboveIn(installation, modules, kernelModules, class)
         /\ links.metaclass = AboveIn(installation, modules, kernelModules, metaclass)
    BY <1>2, <1>3, <1>4, <1>5, <1>8, <1>11, KernelAbove
  <1>13. /\ Fresh(slots, class, installation, modules, kernelModules)
         /\ Fresh(metaslots, metaclass, installation, modules, kernelModules)
    BY <1>9, <1>10, <1>12 DEF Fresh, Placed
  <1>14. ASSUME NEW sp \in DOMAIN objects, sp.name \notin todo \ {First}
         PROVE  Fresh(objects'[sp], sp, installation, modules, kernelModules)
    <2>1. CASE sp = class \/ sp = metaclass
      <3>1. class # metaclass
        BY <1>2, <1>3, <1>4, <1>5, KernelClassIs
      <3> QED
        BY <1>7, <1>13, <2>1, <3>1
    <2>2. CASE ~(sp = class \/ sp = metaclass)
      <3>1. sp.name # First
        BY <1>2, <1>5, <2>2, SpeciesOf
      <3>2. IsFresh(sp)
        BY <1>1, <1>14, <3>1 DEF DictionariesInv
      <3> QED
        BY <1>7, <2>2, <3>2 DEF IsFresh
    <2> QED
      BY <2>1, <2>2
  <1>15. \A sp \in DOMAIN objects' : sp.name \in todo \ {First} \/ IsFresh(sp)'
    BY <1>1, <1>7, <1>14 DEF IsFresh
  <1>16. DictionariesInv'
    BY <1>1, <1>2, <1>3, <1>15 DEF DictionariesInv
  <1> QED
    BY <1>1, <1>7, <1>16

(* loadKernelMethods: a behavior answers the methods of its sources.       *)
LEMMA LoadMethodsPairs ==
  ASSUME Inv, Inv', LinksInv, KnownSymbols', SpecsMerged, DictionariesInv, Roomy(installation),
         loadKernelMethods, UNCHANGED loaderVars
  PROVE  DictionariesInv' /\ installation' = installation /\ DOMAIN objects' = DOMAIN objects
  <1>1. /\ phase = "methods" /\ Continue("runtime", {})
        /\ UNCHANGED <<installation, spec, namespace, symbolTable, provider, newMd, modules, kernelModules>>
    BY DEF loadKernelMethods, loaderVars
  <1>2. /\ todo # {} /\ todo \subseteq DOMAIN spec /\ spec = Merged(installation) /\ newMd = Nil
        /\ installation \in Installations /\ DOMAIN objects = SpeciesIn(DOMAIN spec) /\ symbolTable = {}
        /\ Linked(objects) /\ AllFull(objects, Universe)
    BY <1>1 DEF Inv, BootInv, SpecInv, SymbolInv, ObjectInv, SpecsMerged, DictionariesInv, LinksInv, KernelInv
  <1>3. /\ First \in todo
        /\ \/ todo = {First} /\ todo' = {} /\ phase' = "runtime"
           \/ todo' = todo \ {First} /\ phase' = phase /\ todo' # {} /\ todo' \subseteq todo
    BY <1>1, <1>2, ContinueOn
  <1>4. PICK n, s, U, known : n = First /\ s = spec[First] /\ U = Universe' /\ known = symbols'
    OBVIOUS
  <1>5. DOMAIN spec = DOMAIN installation.kernel /\ n \in DOMAIN spec /\ n \in STRING
        /\ s.methods \in Seq(MethodSpec) /\ s.metaMethods \in Seq(MethodSpec)
    BY <1>2, <1>3, <1>4, MergedIs
  <1>6. PICK class, metaclass : class = Class(n) /\ metaclass = Metaclass(class)
    OBVIOUS
  <1>7. class # metaclass /\ class \in Species /\ metaclass \in Species
        /\ class.name = n /\ metaclass.name = n /\ class.module = Kernel /\ metaclass.module = Kernel
        /\ class.side = "class" /\ metaclass.side # "class"
        /\ class \in DOMAIN objects /\ metaclass \in DOMAIN objects
    BY <1>2, <1>5, <1>6, KernelClassIs DEF SpeciesIn
  <1>8. Fits(s.methods) /\ Fits(s.metaMethods)
    BY <1>2, <1>4, <1>5 DEF Roomy
  <1>9. symbols' = Interned(symbols, UNION {NamesOfMethod(m) : m \in CompiledOf(s)})
    BY <1>4 DEF loadKernelMethods, CompiledOf
  <1>10. /\ Unique(U) /\ U \subseteq Symbol
         /\ \A x \in DOMAIN known : known[x].name = x /\ known[x] \in U
    <2>1. Unique(U) /\ \A x \in DOMAIN known : known[x].name = x
      BY <1>4 DEF Inv, BootInv, SymbolInv
    <2>2. U \subseteq Symbol /\ \A x \in DOMAIN known : known[x] \in U
      BY <1>4 DEF KnownSymbols, Universe, Range
    <2> QED
      BY <2>1, <2>2
  <1>11. PICK D : D = DOMAIN known
    OBVIOUS
  <1>12. UNION {NamesOfMethod(m) : m \in CompiledOf(s)} \subseteq D
    BY <1>4, <1>9, <1>11 DEF Interned
  <1>13. /\ \A i \in 1 .. Len(s.methods) :
               s.methods[i].compiles => NamesOfMethod(s.methods[i]) \subseteq D
         /\ \A i \in 1 .. Len(s.metaMethods) :
               s.metaMethods[i].compiles => NamesOfMethod(s.metaMethods[i]) \subseteq D
    BY <1>5, <1>12, CompiledKnown
  <1>14. PICK methods, metaMethods : methods = s.methods /\ metaMethods = s.metaMethods
    OBVIOUS
  <1>15. /\ \A i \in 1 .. Len(methods) :
               methods[i].compiles => Knows(known, NamesOfMethod(methods[i]), U)
         /\ \A i \in 1 .. Len(metaMethods) :
               metaMethods[i].compiles => Knows(known, NamesOfMethod(metaMethods[i]), U)
    BY <1>10, <1>11, <1>13, <1>14 DEF Knows
  <1>16. /\ methods \in Seq(MethodSpec) /\ metaMethods \in Seq(MethodSpec)
         /\ Fits(methods) /\ Fits(metaMethods)
    BY <1>5, <1>8, <1>14
  <1>17. PICK objs, half, full :
            /\ objs = objects /\ half = InstallIn(objs, class, known, methods)
            /\ full = InstallIn(half, metaclass, known, metaMethods)
    OBVIOUS
  <1>18. objects' = full
    <2>1. half = InstallIn(objects, class, symbols', spec[First].methods) /\ class = Class(First)
      BY <1>4, <1>6, <1>14, <1>17, SMTT(30)
    <2>2. objects' = InstallIn(half, Metaclass(class), symbols', spec[First].metaMethods)
      BY <2>1, KernelMethodsAre
    <2> QED
      BY <1>4, <1>6, <1>14, <1>17, <2>2
  <1>19. /\ {"next", "md"} \subseteq DOMAIN objs[class] /\ "pairs" \in DOMAIN objs[class].md
         /\ {"next", "md"} \subseteq DOMAIN objs[metaclass] /\ "pairs" \in DOMAIN objs[metaclass].md
         /\ Fresh(objs[class], class, installation, modules, kernelModules)
         /\ Fresh(objs[metaclass], metaclass, installation, modules, kernelModules)
    <2>1. IsFresh(class) /\ IsFresh(metaclass)
      BY <1>1, <1>3, <1>4, <1>7 DEF DictionariesInv
    <2>2. /\ {"next", "md"} \subseteq DOMAIN objs[class] /\ "pairs" \in DOMAIN objs[class].md
          /\ {"next", "md"} \subseteq DOMAIN objs[metaclass] /\ "pairs" \in DOMAIN objs[metaclass].md
      BY <1>2, <1>7, <1>17 DEF Linked, SlotsLinked, AllFull, FullSlots, DictOK
    <2> QED
      BY <1>17, <2>1, <2>2 DEF IsFresh
  <1>20. PICK slots, metaslots :
            /\ slots = WithPairs(objs[class], InstallAll(known, objs[class].md.pairs, class, methods))
            /\ metaslots = WithPairs(objs[metaclass],
                               InstallAll(known, objs[metaclass].md.pairs, metaclass, metaMethods))
    OBVIOUS
  <1>21. /\ DOMAIN objects' = DOMAIN objects
         /\ \A sp \in DOMAIN objects :
               objects'[sp] = IF sp = class THEN slots ELSE IF sp = metaclass THEN metaslots ELSE objs[sp]
    <2>1. /\ DOMAIN half = DOMAIN objs
          /\ \A sp \in DOMAIN objs : half[sp] = IF sp = class THEN slots ELSE objs[sp]
      BY <1>17, <1>20, ReplacingOne DEF InstallIn
    <2>2. half[metaclass] = objs[metaclass]
      BY <1>7, <1>17, <2>1
    <2>3. /\ DOMAIN full = DOMAIN half
          /\ \A sp \in DOMAIN half : full[sp] = IF sp = metaclass THEN metaslots ELSE half[sp]
      BY <1>17, <1>20, <2>2, ReplacingOne DEF InstallIn
    <2> QED
      BY <1>7, <1>17, <1>18, <2>1, <2>3
  <1>22. /\ MethodsOf(installation, modules, class) = methods
         /\ MethodsOf(installation, modules, metaclass) = metaMethods
    BY <1>2, <1>4, <1>5, <1>7, <1>14, MergedIs
  <1>23. DOMAIN kernelModules \subseteq {<<"Kernel">>}
    BY <1>1, NoKernelModules
  <1>24. Faithful(slots, class, installation, modules, kernelModules)
    <2>1. PICK pairs : pairs = objs[class]
      OBVIOUS
    <2>2. /\ pairs.md.pairs = <<>> /\ {"next", "md"} \subseteq DOMAIN pairs /\ "pairs" \in DOMAIN pairs.md
          /\ pairs.next = AboveIn(installation, modules, kernelModules, class)
          /\ slots = WithPairs(pairs, InstallAll(known, pairs.md.pairs, class, methods))
      BY <1>19, <1>20, <2>1 DEF Fresh, Placed
    <2>3. slots.next = pairs.next /\ Says(slots.md.pairs, class, LastOnes(methods), {})
      BY <1>7, <1>10, <1>15, <1>16, <2>2, FreshInstalled
    <2>4. ExtendedWith(installation, kernelModules, class) = {}
      BY <1>23, NotExtended
    <2>5. Defined(installation, modules, class) = LastOnes(methods)
      BY <1>22 DEF Defined
    <2> QED
      BY <2>2, <2>3, <2>4, <2>5 DEF Faithful, Placed
  <1>25. Faithful(metaslots, metaclass, installation, modules, kernelModules)
    <2>1. PICK pairs : pairs = objs[metaclass]
      OBVIOUS
    <2>2. /\ pairs.md.pairs = <<>> /\ {"next", "md"} \subseteq DOMAIN pairs /\ "pairs" \in DOMAIN pairs.md
          /\ pairs.next = AboveIn(installation, modules, kernelModules, metaclass)
          /\ metaslots = WithPairs(pairs, InstallAll(known, pairs.md.pairs, metaclass, metaMethods))
      BY <1>19, <1>20, <2>1 DEF Fresh, Placed
    <2>3. metaslots.next = pairs.next /\ Says(metaslots.md.pairs, metaclass, LastOnes(metaMethods), {})
      BY <1>7, <1>10, <1>15, <1>16, <2>2, FreshInstalled
    <2>4. ExtendedWith(installation, kernelModules, metaclass) = {}
      BY <1>23, NotExtended
    <2>5. Defined(installation, modules, metaclass) = LastOnes(metaMethods)
      BY <1>22 DEF Defined
    <2> QED
      BY <2>2, <2>3, <2>4, <2>5 DEF Faithful, Placed
  <1>26. ASSUME NEW sp \in DOMAIN objects
         PROVE  IF sp.name \in todo \ {n} THEN IsFresh(sp)' ELSE IsFaithful(sp)'
    <2>1. CASE sp = class \/ sp = metaclass
      <3>1. objects'[sp] = IF sp = class THEN slots ELSE metaslots
        BY <1>7, <1>21, <2>1
      <3> QED
        BY <1>1, <1>7, <1>24, <1>25, <2>1, <3>1 DEF IsFaithful
    <2>2. CASE ~(sp = class \/ sp = metaclass)
      <3>1. sp.name # n
        BY <1>2, <1>6, <2>2, SpeciesOf
      <3>2. IF sp.name \in todo THEN IsFresh(sp) ELSE IsFaithful(sp)
        BY <1>1 DEF DictionariesInv
      <3>3. objects'[sp] = objects[sp]
        BY <1>17, <1>21, <2>2
      <3> QED
        BY <1>1, <3>1, <3>2, <3>3 DEF IsFresh, IsFaithful
    <2> QED
      BY <2>1, <2>2
  <1>27. DictionariesInv'
    <2>1. CASE todo = {First} /\ todo' = {} /\ phase' = "runtime"
      <3>1. \A sp \in DOMAIN objects' : IsFaithful(sp)'
        BY <1>4, <1>21, <1>26, <2>1
      <3> QED
        BY <1>1, <1>2, <2>1, <3>1 DEF DictionariesInv
    <2>2. CASE todo' = todo \ {First} /\ phase' = phase
      <3>1. \A sp \in DOMAIN objects' : IF sp.name \in todo' THEN IsFresh(sp)' ELSE IsFaithful(sp)'
        BY <1>4, <1>21, <1>26, <2>2
      <3> QED
        BY <1>1, <1>2, <2>2, <3>1 DEF DictionariesInv
    <2> QED
      BY <1>3, <2>1, <2>2
  <1> QED
    BY <1>1, <1>21, <1>27
-----------------------------------------------------------------------------
(* The conversion.  What has been put into the new dictionary are the      *)
(* first pairs of the array.                                               *)
FirstPairs(pairs, k) == SubSeq(pairs, 1, k)

(* One pair more at a time, until they are all.                            *)
LEMMA FirstPairsAre ==
  ASSUME NEW pairs, IsSeq(pairs), NEW k \in Nat, k <= Len(pairs)
  PROVE  /\ IsSeq(FirstPairs(pairs, k)) /\ Len(FirstPairs(pairs, k)) = k
         /\ \A i \in 1 .. k : FirstPairs(pairs, k)[i] = pairs[i]
         /\ k = 0 => FirstPairs(pairs, k) = <<>>
         /\ k = Len(pairs) => FirstPairs(pairs, k) = pairs
         /\ k < Len(pairs) => FirstPairs(pairs, k + 1) = Append(FirstPairs(pairs, k), pairs[k + 1])
  <1>1. PICK P : P = PairsOf(pairs)
    OBVIOUS
  <1>2. pairs \in Seq(P) /\ Len(pairs) \in Nat
    BY <1>1, OfSome DEF PairsOf, IsSeq
  <1>3. \A i \in 1 .. Len(pairs) : pairs[i] \in P
    BY <1>1 DEF PairsOf
  <1>4. ASSUME NEW n \in Nat, n <= Len(pairs)
        PROVE  /\ SubSeq(pairs, 1, n) \in Seq(P) /\ Len(SubSeq(pairs, 1, n)) = n
               /\ \A i \in 1 .. n : SubSeq(pairs, 1, n)[i] = pairs[i]
    <2>1. \A i \in 1 .. n : pairs[i] \in P
      BY <1>2, <1>3, <1>4
    <2> QED
      BY <1>2, <1>4, <2>1, SubSeqProperties
  <1>5. PICK first : first = FirstPairs(pairs, k)
    OBVIOUS
  <1>6. first \in Seq(P) /\ Len(first) = k /\ \A i \in 1 .. k : first[i] = pairs[i]
    BY <1>4, <1>5 DEF FirstPairs
  <1>7. IsSeq(first)
    BY <1>6, SeqIs
  <1>8. k = 0 => first = <<>>
    BY <1>6
  <1>9. k = Len(pairs) => first = pairs
    BY <1>6, <1>7 DEF IsSeq
  <1>10. ASSUME k < Len(pairs) PROVE FirstPairs(pairs, k + 1) = Append(first, pairs[k + 1])
    <2>1. PICK more, one : more = FirstPairs(pairs, k + 1) /\ one = Append(first, pairs[k + 1])
      OBVIOUS
    <2>2. k + 1 \in Nat /\ k + 1 <= Len(pairs)
      BY <1>2, <1>10
    <2>3. more \in Seq(P) /\ Len(more) = k + 1 /\ \A i \in 1 .. k + 1 : more[i] = pairs[i]
      BY <1>4, <2>1, <2>2 DEF FirstPairs
    <2>4. IsSeq(more)
      BY <2>3, SeqIs
    <2>5. /\ IsSeq(one) /\ Len(one) = k + 1
          /\ \A i \in 1 .. k + 1 : one[i] = IF i = k + 1 THEN pairs[k + 1] ELSE first[i]
      BY <1>6, <1>7, <2>1, Appended
    <2>6. \A i \in 1 .. k + 1 : more[i] = one[i]
      BY <1>6, <2>3, <2>5
    <2> QED
      BY <2>1, <2>3, <2>4, <2>5, <2>6 DEF IsSeq
  <1> QED
    BY <1>5, <1>6, <1>7, <1>8, <1>9, <1>10

(* What a conversion starts from.                                          *)
LEMMA ConvertingFaithful ==
  ASSUME Inv, DictionariesInv, phase = "convert",
         NEW pairs, pairs = objects[Converting].md.pairs
  PROVE  /\ Converting \in DOMAIN objects /\ IsSeq(pairs) /\ OneEach(pairs)
         /\ \A i \in 1 .. Len(pairs) : pairs[i] = <<pairs[i][1], pairs[i][2]>>
         /\ PairsOK(pairs, Universe) /\ AllFull(objects, Universe) /\ Unique(Universe)
         /\ \A sp \in DOMAIN objects : IsFaithful(sp)
         /\ newMd # Nil => /\ newMd = FirstPairs(pairs, Len(newMd)) /\ Len(newMd) <= Len(pairs)
                           /\ PairsOK(newMd, Universe) /\ Len(newMd) \in Nat /\ IsSeq(newMd)
  <1>1. Converting \in DOMAIN objects
    BY ConvertingOK DEF Inv
  <1>2. PICK sp : sp = Converting
    OBVIOUS
  <1>3. AllFull(objects, Universe) /\ Unique(Universe) /\ \A x \in DOMAIN objects : IsFaithful(x)
    BY DEF Inv, BootInv, ObjectInv, SymbolInv, DictionariesInv
  <1>4. PairsOK(pairs, Universe) /\ IsSeq(pairs)
    BY <1>1, <1>2, <1>3 DEF AllFull, FullSlots, DictOK, PairsOK
  <1>5. OneEach(pairs) /\ \A i \in 1 .. Len(pairs) : pairs[i] = <<pairs[i][1], pairs[i][2]>>
    <2>1. IsFaithful(sp)
      BY <1>1, <1>2, <1>3
    <2>2. OneEach(pairs) /\ \A x \in PairsOf(pairs) : x = <<x[1], x[2]>>
      BY <1>2, <2>1 DEF IsFaithful, Faithful, Says, Answers
    <2> QED
      BY <2>2 DEF PairsOf
  <1>6. ASSUME newMd # Nil
        PROVE  /\ newMd = FirstPairs(pairs, Len(newMd)) /\ Len(newMd) <= Len(pairs)
               /\ PairsOK(newMd, Universe) /\ Len(newMd) \in Nat /\ IsSeq(newMd)
    <2>1. newMd = FirstPairs(pairs, Len(newMd)) /\ Len(newMd) <= Len(pairs)
      BY <1>6 DEF DictionariesInv, PairsSoFar, FirstPairs
    <2>2. PairsOK(newMd, Universe)
      BY <1>6 DEF Inv, BootInv, NewMdInv
    <2> QED
      BY <2>1, <2>2 DEF PairsOK, IsSeq
  <1> QED
    BY <1>1, <1>3, <1>4, <1>5, <1>6

(* A new dictionary is made, or a pair is put into it.                     *)
LEMMA NewMethodDictPairs ==
  ASSUME Inv, DictionariesInv, NewMethodDict, UNCHANGED loaderVars
  PROVE  DictionariesInv' /\ installation' = installation /\ objects' = objects
  <1>1. /\ phase = "convert" /\ newMd = Nil /\ phase' \in {"convert", "failed"}
        /\ phase' = "convert" => newMd' = <<>>
        /\ UNCHANGED <<installation, todo, objects, modules, kernelModules>>
    BY DEF NewMethodDict, loaderVars
  <1>2. PICK pairs : pairs = objects[Converting].md.pairs
    OBVIOUS
  <1>3. IsSeq(pairs) /\ \A sp \in DOMAIN objects : IsFaithful(sp)
    BY <1>1, <1>2, ConvertingFaithful
  <1>4. \A sp \in DOMAIN objects' : IsFaithful(sp)'
    BY <1>1, <1>3 DEF IsFaithful
  <1>5. FirstPairs(pairs, 0) = <<>> /\ Len(pairs) >= 0
    BY <1>3, FirstPairsAre DEF IsSeq
  <1>6. objects'[Converting'].md.pairs = pairs
    BY <1>1, <1>2 DEF Converting
  <1>7. ASSUME phase' = "convert"
        PROVE  newMd' = PairsSoFar' /\ Len(newMd)' <= Len(objects'[Converting'].md.pairs)
    <2>1. newMd' = <<>> /\ Len(newMd') = 0
      BY <1>1, <1>7, Emptied
    <2>2. PairsSoFar' = FirstPairs(pairs, Len(newMd'))
      BY <1>6 DEF PairsSoFar, FirstPairs
    <2> QED
      BY <1>5, <1>6, <2>1, <2>2
  <1> QED
    BY <1>1, <1>4, <1>7 DEF DictionariesInv

(* A pair more is converted.                                               *)
LEMMA ConvertPairPairs ==
  ASSUME Inv, DictionariesInv, ConvertPair, UNCHANGED loaderVars
  PROVE  DictionariesInv' /\ installation' = installation /\ objects' = objects
  <1>1. /\ phase = "convert" /\ newMd # Nil /\ Missing # <<>> /\ phase' \in {"convert", "failed"}
        /\ phase' = "convert" => newMd' = AtPut(newMd, Head(Missing)[1], Head(Missing)[2])
        /\ UNCHANGED <<installation, todo, objects, modules, kernelModules>>
    BY DEF ConvertPair, loaderVars
  <1>2. PICK pairs, k, U : pairs = objects[Converting].md.pairs /\ k = Len(newMd) /\ U = Universe
    OBVIOUS
  <1>3. /\ IsSeq(pairs) /\ OneEach(pairs) /\ PairsOK(pairs, U) /\ Unique(U) /\ PairsOK(newMd, U)
        /\ \A i \in 1 .. Len(pairs) : pairs[i] = <<pairs[i][1], pairs[i][2]>>
        /\ \A sp \in DOMAIN objects : IsFaithful(sp)
        /\ newMd = FirstPairs(pairs, k) /\ k <= Len(pairs) /\ k \in Nat /\ IsSeq(newMd)
    BY <1>1, <1>2, ConvertingFaithful
  <1>4. \A sp \in DOMAIN objects' : IsFaithful(sp)'
    BY <1>1, <1>3 DEF IsFaithful
  <1>5. objects'[Converting'].md.pairs = pairs
    BY <1>1, <1>2 DEF Converting
  <1>6. PICK missing : missing = Missing
    OBVIOUS
  <1>7. k + 1 \in 1 .. Len(pairs) /\ Head(missing) = pairs[k + 1]
    <2>1. PICK P : P = PairsOf(pairs)
      OBVIOUS
    <2>2. pairs \in Seq(P) /\ Len(pairs) \in Nat /\ \A i \in 1 .. Len(pairs) : pairs[i] \in P
      BY <1>3, <2>1, OfSome DEF PairsOf, IsSeq
    <2>3. missing = SubSeq(pairs, k + 1, Len(pairs))
      BY <1>2, <1>6 DEF Missing
    <2>4. /\ missing \in Seq(P)
          /\ Len(missing) = IF k + 1 <= Len(pairs) THEN Len(pairs) - k ELSE 0
          /\ \A i \in 1 .. Len(pairs) - k : missing[i] = pairs[k + i]
      <3>1. \A i \in k + 1 .. Len(pairs) : pairs[i] \in P
        BY <1>3, <2>2
      <3> QED
        BY <1>3, <2>2, <2>3, <3>1, SubSeqProperties
    <2>5. missing # <<>>
      BY <1>1, <1>6
    <2>6. k + 1 <= Len(pairs)
      BY <2>4, <2>5
    <2>7. Head(missing) = missing[1] /\ missing[1] = pairs[k + 1]
      BY <1>3, <2>2, <2>4, <2>5, <2>6, HeadTailProperties
    <2> QED
      BY <1>3, <2>2, <2>6, <2>7
  <1>8. PICK p : p = pairs[k + 1]
    OBVIOUS
  <1>9. p = <<p[1], p[2]>> /\ p[1] \in U
    BY <1>3, <1>7, <1>8 DEF PairsOK
  <1>10. PositionOf(newMd, p[1]) = 0
    <2>1. ASSUME NEW x \in PairsOf(newMd) PROVE KeyOf(x) # p[1].name
      <3>1. PICK i \in 1 .. k : x = newMd[i]
        BY <1>2, <2>1 DEF PairsOf
      <3>2. x = pairs[i]
        BY <1>3, <3>1, FirstPairsAre
      <3>3. i \in 1 .. Len(pairs) /\ i # k + 1
        BY <1>3, <1>7, <3>1 DEF IsSeq
      <3> QED
        BY <1>3, <1>7, <1>8, <3>2, <3>3 DEF OneEach, KeyOf
    <2> QED
      BY <1>3, <1>9, <2>1, PositionIs
  <1>11. AtPut(newMd, p[1], p[2]) = Append(newMd, p)
    BY <1>9, <1>10 DEF AtPut
  <1>12. Append(newMd, p) = FirstPairs(pairs, k + 1) /\ Len(Append(newMd, p)) = k + 1
    <2>1. k < Len(pairs)
      BY <1>3, <1>7 DEF IsSeq
    <2>2. FirstPairs(pairs, k + 1) = Append(FirstPairs(pairs, k), pairs[k + 1])
      BY <1>3, <2>1, FirstPairsAre
    <2>3. Len(Append(newMd, p)) = Len(newMd) + 1
      BY <1>3, Appended
    <2> QED
      BY <1>2, <1>3, <1>8, <2>2, <2>3
  <1>13. ASSUME phase' = "convert"
         PROVE  newMd' = PairsSoFar' /\ Len(newMd)' <= Len(objects'[Converting'].md.pairs)
    <2>1. newMd' = FirstPairs(pairs, k + 1) /\ Len(newMd') = k + 1
      BY <1>1, <1>6, <1>7, <1>8, <1>11, <1>12, <1>13
    <2>2. PairsSoFar' = FirstPairs(pairs, Len(newMd'))
      BY <1>5 DEF PairsSoFar, FirstPairs
    <2> QED
      BY <1>5, <1>7, <2>1, <2>2
  <1> QED
    BY <1>1, <1>4, <1>13 DEF DictionariesInv

(* The dictionary that takes the place of an array has the same pairs.     *)
LEMMA ReplaceMethodDictPairs ==
  ASSUME Inv, LinksInv, DictionariesInv, ReplaceMethodDict, UNCHANGED loaderVars
  PROVE  DictionariesInv' /\ installation' = installation /\ DOMAIN objects' = DOMAIN objects
  <1>1. /\ phase = "convert" /\ newMd # Nil /\ Missing = <<>> /\ newMd' = Nil
        /\ phase' \in {"convert", "done"}
        /\ UNCHANGED <<installation, modules, kernelModules>>
    BY DEF ReplaceMethodDict, loaderVars
  <1>2. PICK sp, pairs, k, U :
           sp = Converting /\ pairs = objects[sp].md.pairs /\ k = Len(newMd) /\ U = Universe
    OBVIOUS
  <1>3. /\ IsSeq(pairs) /\ sp \in DOMAIN objects /\ AllFull(objects, U)
        /\ \A x \in DOMAIN objects : IsFaithful(x)
        /\ newMd = FirstPairs(pairs, k) /\ k <= Len(pairs) /\ k \in Nat
    BY <1>1, <1>2, ConvertingFaithful
  <1>4. k = Len(pairs)
    <2>1. PICK P : P = PairsOf(pairs)
      OBVIOUS
    <2>2. pairs \in Seq(P) /\ Len(pairs) \in Nat /\ \A i \in 1 .. Len(pairs) : pairs[i] \in P
      BY <1>3, <2>1, OfSome DEF PairsOf, IsSeq
    <2>3. SubSeq(pairs, k + 1, Len(pairs)) = <<>>
      BY <1>1, <1>2 DEF Missing
    <2>4. \A i \in k + 1 .. Len(pairs) : pairs[i] \in P
      BY <1>3, <2>2
    <2>5. Len(SubSeq(pairs, k + 1, Len(pairs))) = IF k + 1 <= Len(pairs) THEN Len(pairs) - k ELSE 0
      BY <1>3, <2>2, <2>4, SubSeqProperties
    <2>6. Len(SubSeq(pairs, k + 1, Len(pairs))) = 0
      BY <2>3, Emptied
    <2> QED
      BY <1>3, <2>2, <2>5, <2>6
  <1>5. newMd = pairs
    BY <1>3, <1>4, FirstPairsAre
  <1>6. PICK md : md = [kind |-> "MethodDictionary", pairs |-> newMd]
    OBVIOUS
  <1>7. PICK slots : slots = Replacing(objects[sp], "md", md)
    OBVIOUS
  <1>8. objects' = Replacing(objects, sp, slots)
    BY <1>2, <1>6, <1>7 DEF ReplaceMethodDict, Replacing
  <1>9. /\ DOMAIN objects' = DOMAIN objects
        /\ \A x \in DOMAIN objects : objects'[x] = IF x = sp THEN slots ELSE objects[x]
    BY <1>8, ReplacingOne
  <1>10. slots.md.pairs = pairs /\ slots.next = objects[sp].next
    <2>1. {"next", "md"} \subseteq DOMAIN objects[sp]
      BY <1>3 DEF LinksInv, KernelInv, Linked, SlotsLinked
    <2>2. slots.md = md /\ slots.next = objects[sp].next
      BY <1>7, <2>1, ReplacingOne
    <2> QED
      BY <1>5, <1>6, <2>2
  <1>11. \A x \in DOMAIN objects' : IsFaithful(x)'
    <2>1. \A x \in DOMAIN objects :
             objects'[x].next = objects[x].next /\ objects'[x].md.pairs = objects[x].md.pairs
      BY <1>2, <1>9, <1>10
    <2> QED
      BY <1>1, <1>3, <1>9, <2>1 DEF IsFaithful, Faithful, Placed
  <1> QED
    BY <1>1, <1>9, <1>11 DEF DictionariesInv
-----------------------------------------------------------------------------
(* The namespace of the kernel.  The order of a dictionary has all of its  *)
(* entries.                                                                *)
OrderedSoFar(c, done) ==
    /\ done \in Seq(c.S) /\ IsFiniteSet(Range(done)) /\ Len(done) <= c.k
    /\ c.S \subseteq Range(done) \/ Cardinality(Range(done)) = c.k
OrderInStep(c, done, i) == OrderStep(c.S, done, i)
OrderIn == INSTANCE FoldInduction WITH step <- OrderInStep, Holds <- OrderedSoFar
Upto(S, k) == [S |-> S, k |-> k]

(* The order has every element, and no more places than elements.          *)
LEMMA InOrderHas ==
  ASSUME NEW S, IsFiniteSet(S)
  PROVE  /\ InOrder(S) \in Seq(S) /\ S \subseteq Range(InOrder(S))
         /\ Len(InOrder(S)) <= Cardinality(S)
  <1>1. PICK size, numbers : size = Cardinality(S) /\ numbers = [i \in 1 .. size |-> i]
    OBVIOUS
  <1>2. size \in Nat
    BY <1>1, FS_CardinalityType
  <1>3. numbers \in Seq(Nat) /\ Len(numbers) = size
    BY <1>1, <1>2
  <1>4. PICK at, c : at = [k \in 0 .. size |-> Upto(S, k)] /\ c = Upto(S, 0)
    OBVIOUS
  <1>5. InOrder(S) = OrderIn!Loop(c, <<>>, numbers)
    <2>1. c.S = S
      BY <1>4 DEF Upto
    <2> QED
      BY <1>1, <2>1 DEF InOrder, OrderStep, OrderInStep, OrderIn!Loop, Folded, OrderIn!Folded
  <1>6. \A k \in 0 .. size : at[k].S = S /\ at[k].k = k
    BY <1>4 DEF Upto
  <1>7. OrderedSoFar(at[0], <<>>)
    <2>1. Range(<<>>) = {} /\ Len(<<>>) = 0 /\ <<>> \in Seq(S)
      BY DEF Range
    <2>2. at[0].S = S /\ at[0].k = 0
      BY <1>2, <1>6
    <2>3. IsFiniteSet(Range(<<>>)) /\ Cardinality(Range(<<>>)) = 0
      BY <2>1, FS_EmptySet
    <2>4. Len(<<>>) <= 0
      BY <2>1
    <2> QED
      BY <2>1, <2>2, <2>3, <2>4 DEF OrderedSoFar
  <1>8. ASSUME NEW done, NEW k \in 1 .. size, OrderedSoFar(at[k - 1], done)
        PROVE  OrderedSoFar(at[k], OrderInStep(c, done, numbers[k]))
    <2>1. k - 1 \in 0 .. size /\ k \in 0 .. size /\ k \in Nat
      BY <1>2
    <2>2. /\ done \in Seq(S) /\ IsFiniteSet(Range(done)) /\ Len(done) <= k - 1
          /\ S \subseteq Range(done) \/ Cardinality(Range(done)) = k - 1
      BY <1>6, <1>8, <2>1 DEF OrderedSoFar
    <2>3. c.S = S
      BY <1>4 DEF Upto
    <2>4. CASE S \subseteq Range(done)
      <3>1. OrderInStep(c, done, numbers[k]) = done
        BY <2>3, <2>4 DEF OrderInStep, OrderStep
      <3>2. Len(done) <= k
        BY <2>1, <2>2
      <3> QED
        BY <1>6, <2>1, <2>2, <2>4, <3>1, <3>2 DEF OrderedSoFar
    <2>5. CASE ~(S \subseteq Range(done))
      <3>1. PICK x : x = CHOOSE y \in S : y \notin Range(done)
        OBVIOUS
      <3>2. x \in S /\ x \notin Range(done)
        BY <2>5, <3>1
      <3>3. PICK more : more = Append(done, x)
        OBVIOUS
      <3>4. OrderInStep(c, done, numbers[k]) = more
        BY <2>3, <2>5, <3>1, <3>3 DEF OrderInStep, OrderStep
      <3>5. more \in Seq(S) /\ Len(more) <= k
        BY <2>1, <2>2, <3>2, <3>3
      <3>6. Range(more) = Range(done) \cup {x}
        BY <2>2, <3>3, AppendedHas, SeqIs
      <3>7. IsFiniteSet(Range(more)) /\ Cardinality(Range(more)) = k
        BY <2>1, <2>2, <2>5, <3>2, <3>6, FS_AddElement
      <3> QED
        BY <1>6, <2>1, <3>4, <3>5, <3>7 DEF OrderedSoFar
    <2> QED
      BY <2>4, <2>5
  <1>9. OrderedSoFar(at[size], OrderIn!Loop(c, <<>>, numbers))
    BY <1>2, <1>3, <1>7, <1>8, OrderIn!LoopProceeds
  <1>10. PICK all : all = InOrder(S)
    OBVIOUS
  <1>11. /\ all \in Seq(S) /\ Len(all) <= size
         /\ S \subseteq Range(all) \/ (IsFiniteSet(Range(all)) /\ Cardinality(Range(all)) = size)
    BY <1>2, <1>5, <1>6, <1>9, <1>10 DEF OrderedSoFar
  <1>12. S \subseteq Range(all)
    <2>1. Range(all) \subseteq S
      BY <1>11 DEF Range
    <2>2. CASE IsFiniteSet(Range(all)) /\ Cardinality(Range(all)) = size
      BY <1>1, <2>1, <2>2, FS_Subset
    <2> QED
      BY <1>11, <2>2
  <1> QED
    BY <1>1, <1>10, <1>11, <1>12

(* A table is large enough.                                                *)
LEMMA TableLargeEnough ==
  ASSUME NEW count \in Nat
  PROVE  TableSize(count) \in Nat /\ TableSize(count) >= count
  <1>1. PICK wanted, target : wanted = (count * 3) \div 2 /\ target = Max({7, wanted})
    OBVIOUS
  <1>2. wanted \in Nat /\ wanted >= count
    BY <1>1
  <1>3. target \in {7, wanted} /\ target >= wanted
    <2>1. PICK x : x = CHOOSE y \in {7, wanted} : \A z \in {7, wanted} : y >= z
      OBVIOUS
    <2>2. \E y \in {7, wanted} : \A z \in {7, wanted} : y >= z
      BY <1>2
    <2>3. x \in {7, wanted} /\ \A z \in {7, wanted} : x >= z
      BY <2>1, <2>2
    <2> QED
      BY <1>1, <2>1, <2>3 DEF Max
  <1>4. PICK enough : enough = {p \in Primes : p >= target}
    OBVIOUS
  <1>5. enough \subseteq Nat
    BY <1>4 DEF Primes
  <1>6. enough # {} => Min(enough) \in enough
    BY <1>5, MinIn
  <1>7. TableSize(count) = IF enough = {} THEN target ELSE Min(enough)
    BY <1>1, <1>4 DEF TableSize
  <1> QED
    BY <1>2, <1>3, <1>4, <1>5, <1>6, <1>7

(* A table of some size, of which at most k slots are used.                *)
UsedSlots(table) == {i \in DOMAIN table : table[i] # Nil}
TableOf(table, size, k) ==
    /\ DOMAIN table = 0 .. size - 1 /\ IsFiniteSet(UsedSlots(table)) /\ Cardinality(UsedSlots(table)) <= k
HasIt(table, assoc) == \E i \in DOMAIN table : table[i] = assoc
AnEntry(assoc) == assoc \in Association /\ assoc.key.name \in DOMAIN HashOf

(* What is in a table stays there.                                         *)
LEMMA InsertKeeps ==
  ASSUME NEW size \in Nat, 0 < size, NEW table, DOMAIN table = 0 .. size - 1, NEW assoc, AnEntry(assoc),
         NEW new, new = insertInOpenHashTable(table, assoc)
  PROVE  /\ DOMAIN new = DOMAIN table
         /\ \A i \in DOMAIN table : table[i] # Nil => new[i] = table[i]
         /\ \A k \in Nat : TableOf(table, size, k) => TableOf(new, size, k + 1)
         /\ \A k \in Nat : TableOf(table, size, k) /\ k < size => HasIt(new, assoc)
  <1>1. PICK start : start = HashOf[assoc.key.name] % size
    OBVIOUS
  <1>2. start \in Nat /\ start < size
    BY <1>1, HashAssumption DEF AnEntry
  <1>3. Cardinality(DOMAIN table) = size
    BY FS_Interval
  <1>4. PICK free : free = {k \in 0 .. size - 1 : table[(start + k) % size] = Nil}
    BY Zenon
  <1>5. new = IF free = {} THEN table ELSE Replacing(table, (start + Min(free)) % size, assoc)
    BY <1>1, <1>3, <1>4, Zenon DEF insertInOpenHashTable, Replacing
  <1>6. assoc # Nil
    BY NilAssumption DEF AnEntry
  <1>7. CASE free = {}
    <2>1. ASSUME NEW k \in Nat, TableOf(table, size, k), k < size PROVE FALSE
      <3>1. UsedSlots(table) # 0 .. size - 1
        <4>1. Cardinality(0 .. size - 1) = size
          BY FS_Interval
        <4> QED
          BY <2>1, <4>1 DEF TableOf
      <3>2. PICK j \in 0 .. size - 1 : table[j] = Nil
        BY <3>1 DEF UsedSlots
      <3>3. PICK i : i = IF j >= start THEN j - start ELSE j - start + size
        OBVIOUS
      <3>4. i \in 0 .. size - 1 /\ (start + i = j \/ start + i = j + size)
        BY <1>2, <3>3
      <3>5. j % size = j /\ (j + size) % size = j
        OBVIOUS
      <3>6. table[(start + i) % size] = Nil
        BY <3>2, <3>4, <3>5
      <3> QED
        BY <1>4, <1>7, <3>4, <3>6
    <2>2. \A k \in Nat : TableOf(table, size, k) => TableOf(table, size, k + 1)
      BY FS_CardinalityType DEF TableOf
    <2> QED
      BY <1>5, <1>7, <2>1, <2>2
  <1>8. CASE free # {}
    <2>1. PICK first, at : first = Min(free) /\ at = (start + first) % size
      OBVIOUS
    <2>2. first \in free
      BY <1>4, <1>8, <2>1, MinIn
    <2>3. at \in 0 .. size - 1 /\ table[at] = Nil
      BY <1>2, <1>4, <2>1, <2>2
    <2>4. new = Replacing(table, at, assoc)
      BY <1>5, <1>8, <2>1
    <2>5. DOMAIN new = DOMAIN table /\ \A i \in DOMAIN table : new[i] = IF i = at THEN assoc ELSE table[i]
      BY <2>4, ReplacingOne
    <2>6. UsedSlots(new) = UsedSlots(table) \cup {at} /\ at \notin UsedSlots(table)
      BY <1>6, <2>3, <2>5 DEF UsedSlots
    <2>7. \A k \in Nat : TableOf(table, size, k) => TableOf(new, size, k + 1)
      <3> SUFFICES ASSUME NEW k \in Nat, TableOf(table, size, k)
                   PROVE  TableOf(new, size, k + 1)
        OBVIOUS
      <3>1. PICK used : used = UsedSlots(table)
        OBVIOUS
      <3>2. IsFiniteSet(used) /\ Cardinality(used) \in Nat /\ Cardinality(used) <= k
        BY <3>1, FS_CardinalityType DEF TableOf
      <3>3. IsFiniteSet(used \cup {at}) /\ Cardinality(used \cup {at}) = Cardinality(used) + 1
        BY <2>6, <3>1, <3>2, FS_AddElement
      <3> QED
        BY <2>5, <2>6, <3>1, <3>2, <3>3 DEF TableOf
    <2>8. HasIt(new, assoc)
      BY <2>3, <2>5 DEF HasIt
    <2> QED
      BY <2>3, <2>5, <2>7, <2>8
  <1> QED
    BY <1>7, <1>8

(* A dictionary has every entry that it is made for.                       *)
FilledSoFar(c, table) ==
    /\ TableOf(table, c.size, c.k)
    /\ \A j \in 1 .. c.k : HasIt(table, c.entries[j])
InsertInStep(c, table, assoc) == insertInOpenHashTable(table, assoc)
InsertIn == INSTANCE FoldInduction WITH step <- InsertInStep, Holds <- FilledSoFar
EntriesUpto(entries, size, k) == [entries |-> entries, size |-> size, k |-> k]

(* A dictionary made of entries has them all.                              *)
LEMMA NewDictionaryHas ==
  ASSUME NEW S, IsFiniteSet(S), S # {}, \A e \in S : AnEntry(e)
  PROVE  /\ \A e \in S : HasIt(newDictionary(S), e)
         /\ \E size \in Nat : 0 < size /\ DOMAIN newDictionary(S) = 0 .. size - 1
  <1>1. PICK count, size, entries :
           count = Cardinality(S) /\ size = TableSize(count) /\ entries = InOrder(S)
    OBVIOUS
  <1>2. count \in Nat /\ 0 < count
    <2>1. count # 0
      BY <1>1, FS_EmptySet
    <2> QED
      BY <1>1, <2>1, FS_CardinalityType
  <1>3. size \in Nat /\ count <= size /\ 0 < size
    BY <1>1, <1>2, TableLargeEnough
  <1>4. entries \in Seq(S) /\ S \subseteq Range(entries) /\ Len(entries) <= count
    BY <1>1, InOrderHas
  <1>5. PICK table, total : table = [i \in 0 .. size - 1 |-> Nil] /\ total = Len(entries)
    OBVIOUS
  <1>6. total \in Nat /\ \A i \in 1 .. total : entries[i] \in S
    BY <1>4, <1>5
  <1>7. PICK at, c : at = [k \in 0 .. total |-> EntriesUpto(entries, size, k)]
                     /\ c = EntriesUpto(entries, size, 0)
    OBVIOUS
  <1>8. \A k \in 0 .. total : at[k].entries = entries /\ at[k].size = size /\ at[k].k = k
    BY <1>7 DEF EntriesUpto
  <1>9. newDictionary(S) = InsertIn!Loop(c, table, entries)
    BY <1>1, <1>5 DEF newDictionary, InsertInStep, InsertIn!Loop, Folded, InsertIn!Folded
  <1>10. FilledSoFar(at[0], table)
    <2>1. UsedSlots(table) = {} /\ DOMAIN table = 0 .. size - 1
      BY <1>5 DEF UsedSlots
    <2>2. IsFiniteSet(UsedSlots(table)) /\ Cardinality(UsedSlots(table)) = 0
      BY <2>1, FS_EmptySet
    <2>3. TableOf(table, size, 0)
      BY <2>1, <2>2 DEF TableOf
    <2>4. at[0].entries = entries /\ at[0].size = size /\ at[0].k = 0
      BY <1>6, <1>8
    <2> QED
      BY <2>3, <2>4 DEF FilledSoFar
  <1>11. ASSUME NEW u, NEW k \in 1 .. total, FilledSoFar(at[k - 1], u)
         PROVE  FilledSoFar(at[k], InsertInStep(c, u, entries[k]))
    <2>1. k - 1 \in Nat /\ k - 1 < size /\ k - 1 \in 0 .. total /\ k \in 0 .. total
      BY <1>2, <1>3, <1>4, <1>5, <1>6
    <2>2. TableOf(u, size, k - 1) /\ \A j \in 1 .. k - 1 : HasIt(u, entries[j])
      BY <1>8, <1>11, <2>1 DEF FilledSoFar
    <2>3. PICK e, new : e = entries[k] /\ new = insertInOpenHashTable(u, e)
      OBVIOUS
    <2>4. AnEntry(e) /\ DOMAIN u = 0 .. size - 1
      BY <1>6, <2>2, <2>3 DEF TableOf
    <2>5. /\ DOMAIN new = DOMAIN u /\ \A i \in DOMAIN u : u[i] # Nil => new[i] = u[i]
          /\ \A l \in Nat : TableOf(u, size, l) => TableOf(new, size, l + 1)
          /\ \A l \in Nat : TableOf(u, size, l) /\ l < size => HasIt(new, e)
      BY <1>3, <2>3, <2>4, InsertKeeps
    <2>6. TableOf(new, size, k) /\ HasIt(new, e)
      <3>1. TableOf(new, size, (k - 1) + 1) /\ (k - 1) + 1 = k
        BY <2>1, <2>2, <2>5
      <3> QED
        BY <2>1, <2>2, <2>5, <3>1
    <2>7. ASSUME NEW j \in 1 .. k PROVE HasIt(new, entries[j])
      <3>1. CASE j = k
        BY <2>3, <2>6, <3>1
      <3>2. CASE j # k
        <4>1. j \in 1 .. k - 1 /\ j \in 1 .. total
          BY <1>6, <2>1, <3>2
        <4>2. PICK i \in DOMAIN u : u[i] = entries[j]
          BY <2>2, <4>1 DEF HasIt
        <4>3. entries[j] # Nil
          BY <1>6, <4>1, NilAssumption DEF AnEntry
        <4> QED
          BY <2>5, <4>2, <4>3 DEF HasIt
      <3> QED
        BY <3>1, <3>2
    <2> QED
      BY <1>8, <2>1, <2>3, <2>6, <2>7 DEF FilledSoFar, InsertInStep
  <1>12. FilledSoFar(at[total], InsertIn!Loop(c, table, entries))
    BY <1>5, <1>6, <1>10, <1>11, InsertIn!LoopProceeds
  <1>13. PICK all : all = newDictionary(S)
    OBVIOUS
  <1>14. TableOf(all, size, total) /\ \A j \in 1 .. total : HasIt(all, entries[j])
    BY <1>6, <1>8, <1>9, <1>12, <1>13 DEF FilledSoFar
  <1>15. ASSUME NEW e \in S PROVE HasIt(all, e)
    <2>1. PICK j \in DOMAIN entries : entries[j] = e
      BY <1>4 DEF Range
    <2>2. j \in 1 .. total
      BY <1>4, <1>5, <2>1
    <2> QED
      BY <1>14, <2>1, <2>2
  <1> QED
    BY <1>3, <1>13, <1>14, <1>15 DEF TableOf

(* createKernelNamespace: every class of the kernel is in its namespace.   *)
LEMMA NamespaceHasClasses ==
  ASSUME Inv, LinksInv, SpecsMerged, KnownSymbols', createKernelNamespace
  PROVE  \A n \in DOMAIN installation.kernel : n \in DOMAIN symbols' /\ HasEntry(namespace', symbols'[n])
  <1>1. phase = "namespace"
    BY DEF createKernelNamespace
  <1>2. PICK known : known = Interned(symbols, DOMAIN spec \cup {"WordSize", "Kernel"})
    OBVIOUS
  <1>3. PICK wordSize, kernel : /\ wordSize = [key |-> known["WordSize"], value |-> Other("WordSize")]
                                /\ kernel = [key |-> known["Kernel"], value |-> Other("Kernel")]
    OBVIOUS
  <1>4. PICK entries : entries = ClassEntries(known, DOMAIN spec) \cup {wordSize}
    OBVIOUS
  <1>5. namespace' = insertInOpenHashTable(newDictionary(entries), kernel) /\ symbols' = known
    BY <1>2, <1>3, <1>4 DEF createKernelNamespace, ClassEntries
  <1>6. IsFiniteSet(entries)
    <2>1. IsFiniteSet(DOMAIN spec)
      BY <1>1 DEF LinksInv, KernelInv
    <2>2. PICK f : f = [n \in DOMAIN spec |-> [key |-> known[n], value |-> Class(n)]]
      OBVIOUS
    <2>3. ClassEntries(known, DOMAIN spec) = {f[n] : n \in DOMAIN f} /\ IsFiniteSet(DOMAIN f)
      BY <2>1, <2>2 DEF ClassEntries
    <2> QED
      BY <1>4, <2>3, FiniteImage, FS_AddElement
  <1>7. spec = Merged(installation) /\ installation \in Installations
    BY <1>1 DEF SpecsMerged, Inv, BootInv
  <1>8. DOMAIN spec = DOMAIN installation.kernel /\ \A n \in DOMAIN spec : n \in STRING
    BY <1>7, MergedIs
  <1>9. PICK names : names = DOMAIN spec \cup {"WordSize", "Kernel"}
    OBVIOUS
  <1>10. \A n \in names : n \in STRING /\ n \in DOMAIN HashOf
    BY <1>7, <1>8, <1>9, StringsAssumption, HashAssumption
  <1>11. \A n \in names : n \in DOMAIN known /\ known[n].name = n /\ known[n] \in Symbol
    <2>1. Named(symbols)
      BY DEF Inv, BootInv, SymbolInv, Named
    <2>2. Extended(symbols, names, known)
      BY <1>2, <1>9, <2>1, InternedOK
    <2>3. \A n \in names : n \in DOMAIN known
      BY <1>2, <1>9 DEF Interned
    <2>4. \A n \in DOMAIN known : known[n] \in Symbol
      BY <1>5 DEF KnownSymbols, Universe, Range
    <2> QED
      BY <2>2, <2>3, <2>4 DEF Extended
  <1>12. ASSUME NEW n \in names, NEW value \in Species, NEW e, e = [key |-> known[n], value |-> value]
         PROVE  AnEntry(e)
    <2>1. e.key = known[n] /\ e \in Association
      BY <1>11, <1>12 DEF Association
    <2> QED
      BY <1>10, <1>11, <2>1 DEF AnEntry
  <1>13. ASSUME NEW n \in STRING PROVE Other(n) \in Species
    BY <1>13 DEF Other, Species
  <1>14. AnEntry(wordSize) /\ AnEntry(kernel)
    BY <1>3, <1>9, <1>10, <1>12, <1>13
  <1>15. ASSUME NEW e \in entries PROVE AnEntry(e)
    <2>1. CASE e \in ClassEntries(known, DOMAIN spec)
      <3>1. PICK n \in DOMAIN spec : e = [key |-> known[n], value |-> Class(n)]
        BY <2>1 DEF ClassEntries
      <3>2. Class(n) \in Species /\ n \in names
        BY <1>8, <1>9, <3>1, KernelClassIs
      <3> QED
        BY <1>12, <3>1, <3>2
    <2> QED
      BY <1>4, <1>14, <1>15, <2>1
  <1>16. PICK table : table = newDictionary(entries)
    OBVIOUS
  <1>17. entries # {}
    BY <1>4
  <1>18. PICK size \in Nat : 0 < size /\ DOMAIN table = 0 .. size - 1
    BY <1>6, <1>15, <1>16, <1>17, NewDictionaryHas
  <1>19. \A e \in entries : HasIt(table, e)
    BY <1>6, <1>15, <1>16, <1>17, NewDictionaryHas
  <1>20. PICK new : new = insertInOpenHashTable(table, kernel)
    OBVIOUS
  <1>21. DOMAIN new = DOMAIN table /\ \A i \in DOMAIN table : table[i] # Nil => new[i] = table[i]
    BY <1>14, <1>18, <1>20, InsertKeeps
  <1>22. ASSUME NEW n \in DOMAIN spec PROVE n \in DOMAIN known /\ HasEntry(new, known[n])
    <2>1. PICK e : e = [key |-> known[n], value |-> Class(n)]
      OBVIOUS
    <2>2. e \in entries /\ e.key = known[n]
      BY <1>4, <2>1 DEF ClassEntries
    <2>3. PICK i \in DOMAIN table : table[i] = e
      BY <1>19, <2>2 DEF HasIt
    <2>4. e # Nil
      BY <1>15, <2>2, NilAssumption DEF AnEntry
    <2>5. i \in DOMAIN new /\ new[i] # Nil /\ new[i].key = known[n]
      BY <1>21, <2>2, <2>3, <2>4
    <2> QED
      BY <1>9, <1>11, <2>5 DEF HasEntry
  <1> QED
    BY <1>5, <1>8, <1>16, <1>20, <1>22
-----------------------------------------------------------------------------
(* Every step of the bootstrap keeps what it has read.                     *)
LEMMA BootSpecs ==
  ASSUME Inv, LinksInv, KnownSymbols, KnownSymbols', SpecsMerged, BootNext
  PROVE  SpecsMerged'
  <1>1. \A n \in DOMAIN symbols : n \in DOMAIN symbols' /\ symbols'[n] = symbols[n]
    BY BootSymbols
  <1>2. CASE loadKernelSpecs
    BY <1>2 DEF loadKernelSpecs, SpecsMerged, Merged
  <1>3. CASE createKernelNamespace
    <2>1. \A n \in DOMAIN installation.kernel : n \in DOMAIN symbols' /\ HasEntry(namespace', symbols'[n])
      BY <1>3, NamespaceHasClasses
    <2>2. phase = "namespace" /\ UNCHANGED <<installation, spec>>
      BY <1>3 DEF createKernelNamespace
    <2> QED
      BY <2>1, <2>2 DEF SpecsMerged
  <1>4. CASE ~(loadKernelSpecs \/ createKernelNamespace)
    <2>1. /\ UNCHANGED <<installation, spec, namespace>>
          /\ phase' = "failed"
             \/ (phase \notin {"specs", "failed"} /\ phase' \in {"instantiate", "initialize", "namespace"})
             \/ phase \notin {"specs", "initial", "instantiate", "initialize", "namespace", "failed"}
      BY <1>4 DEF BootNext, createInitialObjects, instantiateMetaobjectsOf, Continue,
           initializeMetaobjectsOf, loadKernelMethods,
           createRuntimeWithBootstrappedKernel, fillSymbolTable,
           switchToDynamicSymbolProvider, NewMethodDict, ConvertPair, ReplaceMethodDict
    <2>2. spec' = spec /\ installation' = installation /\ namespace' = namespace
      BY <2>1
    <2>3. phase' \notin {"specs", "failed"} => spec' = Merged(installation')
      BY <1>4, <2>1, <2>2 DEF SpecsMerged, BootNext, createInitialObjects
    <2>4. ASSUME phase' \notin {"specs", "initial", "instantiate", "initialize", "namespace", "failed"},
                 NEW n \in DOMAIN installation.kernel
          PROVE  n \in DOMAIN symbols' /\ HasEntry(namespace, symbols'[n])
      <3>1. n \in DOMAIN symbols /\ HasEntry(namespace, symbols[n])
        BY <2>1, <2>4 DEF SpecsMerged
      <3> QED
        BY <1>1, <3>1
    <2> QED
      BY <2>2, <2>3, <2>4 DEF SpecsMerged
  <1> QED
    BY <1>2, <1>3, <1>4

(* Every step of the bootstrap keeps all of it.                            *)
LEMMA BootstrapLooks ==
  ASSUME Inv, Inv', LinksInv, LinksInv', LookInv, BootNext, UNCHANGED loaderVars
  PROVE  LookInv'
  <1>1. KnownSymbols /\ SpecsMerged /\ KnownSymbols' /\ SpecsMerged'
    BY BootSymbols, BootSpecs DEF LookInv
  <1>2. /\ phase # "done" /\ UNCHANGED installation
        /\ UNCHANGED <<modules, loadedModules, kernelModules, loads>>
    BY DEF BootNext, loadKernelSpecs, createInitialObjects, instantiateMetaobjectsOf,
           initializeMetaobjectsOf, createKernelNamespace, loadKernelMethods,
           createRuntimeWithBootstrappedKernel, fillSymbolTable,
           switchToDynamicSymbolProvider, NewMethodDict, ConvertPair, ReplaceMethodDict, loaderVars
  <1>3. SUFFICES ASSUME Clear(installation) PROVE DictionariesInv' /\ SourcesInv'
    BY <1>1, <1>2 DEF LookInv
  <1>4. DictionariesInv /\ SourcesInv /\ Roomy(installation)
    BY <1>3 DEF LookInv, Clear
  <1>5. /\ DictionariesInv'
        /\ DOMAIN objects' \subseteq SpeciesIn(DOMAIN installation.kernel) \cup DOMAIN objects
    <2>1. CASE loadKernelSpecs \/ createInitialObjects \/ createKernelNamespace
               \/ createRuntimeWithBootstrappedKernel \/ fillSymbolTable \/ switchToDynamicSymbolProvider
      BY <1>4, <2>1, SamePairs
    <2>2. CASE instantiateMetaobjectsOf
      BY <1>1, <1>4, <2>2, InstantiatePairs
    <2>3. CASE initializeMetaobjectsOf
      BY <1>1, <1>4, <2>3, InitializePairs
    <2>4. CASE loadKernelMethods
      BY <1>1, <1>4, <2>4, LoadMethodsPairs
    <2>5. CASE NewMethodDict \/ ConvertPair
      BY <1>4, <2>5, NewMethodDictPairs, ConvertPairPairs
    <2>6. CASE ReplaceMethodDict
      BY <1>4, <2>6, ReplaceMethodDictPairs
    <2> QED
      BY <2>1, <2>2, <2>3, <2>4, <2>5, <2>6 DEF BootNext
  <1>6. SourcesInv'
    BY <1>2, <1>4, <1>5, KernelSources DEF SourcesInv
  <1> QED
    BY <1>5, <1>6

-----------------------------------------------------------------------------
(* What a name means: the last import of it counts.                        *)
From(imports, name) == {i \in DOMAIN imports : imports[i].name = name}

(* The last import of a name is there, if the name is imported.            *)
LEMMA LastImport ==
  ASSUME NEW imports \in Seq(Import), NEW name
  PROVE  /\ Len(imports) \in Nat
         /\ \A i \in 1 .. Len(imports) : imports[i] \in Import
         /\ From(imports, name) = {} => \A i \in 1 .. Len(imports) : imports[i].name # name
         /\ From(imports, name) # {} =>
               /\ Max(From(imports, name)) \in 1 .. Len(imports)
               /\ imports[Max(From(imports, name))].name = name
               /\ \A i \in 1 .. Len(imports) : imports[i].name = name => i <= Max(From(imports, name))
  <1>1. PICK n, from : n = Len(imports) /\ from = From(imports, name)
    OBVIOUS
  <1>2. n \in Nat /\ DOMAIN imports = 1 .. n /\ \A i \in 1 .. n : imports[i] \in Import
    BY <1>1, LenProperties
  <1>3. from \subseteq 1 .. n /\ \A i \in 1 .. n : i \in from <=> imports[i].name = name
    BY <1>1, <1>2 DEF From
  <1>4. from # {} => Max(from) \in from /\ \A i \in from : Max(from) >= i
    BY <1>2, <1>3, MaxIn
  <1>5. from # {} => /\ Max(from) \in 1 .. n /\ imports[Max(from)].name = name
                     /\ \A i \in 1 .. n : imports[i].name = name => i <= Max(from)
    BY <1>2, <1>3, <1>4
  <1>6. from = {} => \A i \in 1 .. n : imports[i].name # name
    BY <1>3
  <1> QED
    BY <1>1, <1>2, <1>5, <1>6

MeantBy(source, kernels, m, name) ==
    IF name \in DOMAIN source.classes THEN ClassIn(m, name)
    ELSE IF From(source.imports, name) # {}
    THEN ClassIn(kernels[source.imports[Max(From(source.imports, name))].module], name)
    ELSE Class(name)
LEMMA MeantIs ==
  ASSUME NEW files, NEW kernels, NEW m, NEW path, NEW name
  PROVE  MeantIn(files, kernels, m, path, name) = MeantBy(files.modules[path], kernels, m, name)
  <1>1. PICK source, from : source = files.modules[path] /\ from = From(source.imports, name)
    OBVIOUS
  <1>2. from = {i \in DOMAIN source.imports : source.imports[i].name = name}
    BY <1>1, SMTT(30) DEF From
  <1>3. CASE name \in DOMAIN source.classes
    BY <1>1, <1>3 DEF MeantIn, MeantBy
  <1>4. CASE name \notin DOMAIN source.classes /\ from # {}
    BY <1>1, <1>2, <1>4 DEF MeantIn, MeantBy
  <1>5. CASE name \notin DOMAIN source.classes /\ from = {}
    BY <1>1, <1>2, <1>5 DEF MeantIn, MeantBy
  <1> QED
    BY <1>3, <1>4, <1>5

(* It goes on to mean that when the kernel registers other modules.        *)
SettledAt(files, path, kernels) ==
    files.modules[path].imports \in Seq(Import) /\ Settled(files.modules[path], kernels)
LEMMA MeantStays ==
  ASSUME NEW files, NEW kernels, NEW more, Widens(more, kernels), NEW path,
         SettledAt(files, path, kernels),
         NEW m, NEW name
  PROVE  MeantIn(files, more, m, path, name) = MeantIn(files, kernels, m, path, name)
  <1>2. PICK source, from : source = files.modules[path] /\ from = From(source.imports, name)
    OBVIOUS
  <1>3. source.imports \in Seq(Import) /\ Settled(source, kernels)
    BY <1>2 DEF SettledAt
  <1>4. PICK i : i = Max(from)
    OBVIOUS
  <1>5. from # {} => more[source.imports[i].module] = kernels[source.imports[i].module]
    <2>1. SUFFICES ASSUME from # {} PROVE more[source.imports[i].module] = kernels[source.imports[i].module]
      OBVIOUS
    <2>2. i \in 1 .. Len(source.imports)
      BY <1>2, <1>3, <1>4, <2>1, LastImport
    <2>3. DOMAIN source.imports = 1 .. Len(source.imports)
      BY <1>3, LenProperties
    <2>4. source.imports[i].module \in DOMAIN kernels
      BY <1>3, <2>2, <2>3 DEF Settled
    <2> QED
      BY <2>4 DEF Widens
  <1>6. /\ MeantIn(files, more, m, path, name) = MeantBy(source, more, m, name)
        /\ MeantIn(files, kernels, m, path, name) = MeantBy(source, kernels, m, name)
    BY <1>2, MeantIs
  <1> QED
    BY <1>2, <1>4, <1>5, <1>6 DEF MeantBy

(* So do superclasses, and what the sources define.                        *)
SamePlace(sp, files, mods, mods2) ==
    sp.module # Kernel => /\ mods2[sp.module].path = mods[sp.module].path
                          /\ mods[sp.module].path \in DOMAIN files.modules
LEMMA SourcesStay ==
  ASSUME NEW files \in Installations, NEW mods, NEW mods2, NEW kernels, NEW more, Widens(more, kernels),
         NEW sp, OfSource(sp, files, mods, kernels), SamePlace(sp, files, mods, mods2)
  PROVE  /\ OfSource(sp, files, mods2, more)
         /\ AboveIn(files, mods2, more, sp) = AboveIn(files, mods, kernels, sp)
         /\ Defined(files, mods2, sp) = Defined(files, mods, sp)
  <1>1. SpecIn(files, mods2, sp) = SpecIn(files, mods, sp)
    BY DEF SpecIn, SamePlace
  <1>2. Defined(files, mods2, sp) = Defined(files, mods, sp)
    BY <1>1 DEF Defined, MethodsOf
  <1>3. CASE sp.module = Kernel
    BY <1>1, <1>2, <1>3 DEF OfSource, AboveIn
  <1>4. CASE sp.module # Kernel
    <2>1. PICK m, path : m = sp.module /\ path = mods[m].path
      OBVIOUS
    <2>2. PICK source, super : source = files.modules[path] /\ super = source.classes[sp.name].supername
      OBVIOUS
    <2>3. mods2[m].path = path /\ path \in DOMAIN files.modules
      BY <1>4, <2>1 DEF SamePlace
    <2>4. source.imports \in Seq(Import)
      BY <2>2, <2>3, InstallationsAssumption DEF InstallationOK, ModuleSourceOK
    <2>5. super = "Module" \/ Settled(source, kernels)
      BY <1>4, <2>1, <2>2 DEF OfSource
    <2>6. DOMAIN kernels \subseteq DOMAIN more
      BY DEF Widens
    <2>7. Settled(source, kernels) => Settled(source, more)
      BY <2>6, SMTT(30) DEF Settled
    <2>8. OfSource(sp, files, mods2, more)
      BY <1>4, <2>1, <2>2, <2>3, <2>5, <2>7 DEF OfSource
    <2>9. SpecIn(files, mods, sp).supername = super /\ SpecIn(files, mods2, sp).supername = super
      BY <1>1, <1>4, <2>1, <2>2 DEF SpecIn
    <2>10. super # "Module" => MeantIn(files, more, m, path, super) = MeantIn(files, kernels, m, path, super)
      <3>1. super # "Module" => SettledAt(files, path, kernels)
        BY <2>2, <2>4, <2>5 DEF SettledAt
      <3> QED
        BY <3>1, MeantStays
    <2>11. AboveIn(files, mods2, more, sp) = AboveIn(files, mods, kernels, sp)
      <3>1. CASE super = Nil
        BY <2>9, <3>1 DEF AboveIn
      <3>2. CASE super # Nil /\ super = "Module"
        BY <1>4, <2>9, <3>2 DEF AboveIn
      <3>3. CASE super # Nil /\ super # "Module"
        <4>1. PICK class, class2 : /\ class = MeantIn(files, kernels, m, path, super)
                                   /\ class2 = MeantIn(files, more, m, path, super)
          OBVIOUS
        <4>2. AboveIn(files, mods, kernels, sp)
                = IF sp.side = "class" \/ class = Nil THEN class ELSE Metaclass(class)
          BY <1>4, <2>1, <2>9, <3>3, <4>1 DEF AboveIn
        <4>3. AboveIn(files, mods2, more, sp)
                = IF sp.side = "class" \/ class2 = Nil THEN class2 ELSE Metaclass(class2)
          BY <1>4, <2>1, <2>3, <2>9, <3>3, <4>1 DEF AboveIn
        <4> QED
          BY <2>10, <3>3, <4>1, <4>2, <4>3
      <3> QED
        BY <3>1, <3>2, <3>3
    <2> QED
      BY <1>2, <2>8, <2>11
  <1> QED
    BY <1>3, <1>4

(* And extensions.                                                         *)
LEMMA ExtensionsStay ==
  ASSUME NEW files, NEW kernels, NEW more, Widens(more, kernels), NEW path,
         SettledAt(files, path, kernels)
  PROVE  \A m, sp : ExtensionsIn(files, more, m, path, sp) = ExtensionsIn(files, kernels, m, path, sp)
  <1>1. SUFFICES ASSUME NEW m, NEW sp
                 PROVE  ExtensionsIn(files, more, m, path, sp) = ExtensionsIn(files, kernels, m, path, sp)
    OBVIOUS
  <1>2. MeantIn(files, more, m, path, sp.name) = MeantIn(files, kernels, m, path, sp.name)
    BY MeantStays
  <1>3. PICK source : source = files.modules[path]
    OBVIOUS
  <1>4. PICK all : all = SelectorsOf(MethodsOfSide(sp, source.extensions[sp.name]), m)
    OBVIOUS
  <1>5. ASSUME NEW x
        PROVE  ExtensionsIn(files, x, m, path, sp)
                 = IF /\ sp.name \in DOMAIN source.extensions /\ sp.name \in Known(source)
                      /\ MeantIn(files, x, m, path, sp.name) = ClassOf(sp)
                   THEN all ELSE {}
    BY <1>3, <1>4 DEF ExtensionsIn
  <1> QED
    BY <1>2, <1>5

(* The imports of a module that has them all are settled.                  *)
LEMMA ReadSettled ==
  ASSUME NEW files \in Installations, NEW path \in DOMAIN files.modules,
         NEW source, source = files.modules[path], NEW module, NEW m, NEW kernels, NEW rest,
         AsFar(module, m, source, kernels, Len(source.imports), rest)
  PROVE  SettledAt(files, path, kernels) /\ Settled(source, kernels)
  <1>1. source.imports \in Seq(Import)
    BY InstallationsAssumption DEF InstallationOK, ModuleSourceOK
  <1>2. DOMAIN source.imports = 1 .. Len(source.imports)
    BY <1>1, LenProperties
  <1> QED
    BY <1>1, <1>2 DEF AsFar, ImportsRead, Settled, SettledAt
-----------------------------------------------------------------------------
(* What a name means is a class: of the module itself, of the kernel, or   *)
(* of a module that the kernel has registered.                             *)
LEMMA WhereMeant ==
  ASSUME NEW files, NEW path, NEW kernels, SettledAt(files, path, kernels), NEW m, NEW name,
         NEW class, class = MeantIn(files, kernels, m, path, name)
  PROVE  /\ class.side = "class" /\ class.name = name
         /\ class.module \in {m, Kernel} \cup Range(kernels)
         /\ class = ClassIn(class.module, name)
         /\ class.module = m \/ name \notin DOMAIN files.modules[path].classes
  <1>1. PICK source, from : source = files.modules[path] /\ from = From(source.imports, name)
    OBVIOUS
  <1>2. source.imports \in Seq(Import) /\ Settled(source, kernels)
    BY <1>1 DEF SettledAt
  <1>3. class = MeantBy(source, kernels, m, name)
    BY <1>1, MeantIs
  <1>4. ASSUME NEW k
        PROVE  /\ ClassIn(k, name).side = "class" /\ ClassIn(k, name).name = name
               /\ ClassIn(k, name).module = k
    BY DEF ClassIn
  <1>5. CASE name \in DOMAIN source.classes
    BY <1>1, <1>3, <1>4, <1>5 DEF MeantBy
  <1>6. CASE name \notin DOMAIN source.classes /\ from # {}
    <2>1. PICK i, p : i = Max(from) /\ p = source.imports[i].module
      OBVIOUS
    <2>2. i \in 1 .. Len(source.imports)
      BY <1>1, <1>2, <1>6, <2>1, LastImport
    <2>3. DOMAIN source.imports = 1 .. Len(source.imports)
      BY <1>2, LenProperties
    <2>4. p \in DOMAIN kernels
      BY <1>2, <2>1, <2>2, <2>3 DEF Settled
    <2>5. class = ClassIn(kernels[p], name) /\ kernels[p] \in Range(kernels)
      BY <1>1, <1>3, <1>6, <2>1, <2>4 DEF MeantBy, Range
    <2> QED
      BY <1>1, <1>4, <1>6, <2>5
  <1>7. CASE name \notin DOMAIN source.classes /\ from = {}
    <2>1. class = ClassIn(Kernel, name)
      BY <1>1, <1>3, <1>7 DEF MeantBy, Class, ClassIn, Kernel
    <2> QED
      BY <1>1, <1>4, <1>7, <2>1
  <1> QED
    BY <1>5, <1>6, <1>7

(* The modules that the kernel has registered.                             *)
LEMMA RegisteredAre ==
  ASSUME Inv, CompleteInv, Unambiguous(installation), DOMAIN modules # {},
         NEW path \in DOMAIN kernelModules, path # <<"Kernel">>
  PROVE  /\ path \in DOMAIN installation.modules /\ SettledAt(installation, path, kernelModules)
         /\ kernelModules[path] \in Registered \ {Kernel} /\ modules[kernelModules[path]].path = path
         /\ Whole(modules[kernelModules[path]], kernelModules[path], installation, kernelModules)
  <1>1. PICK m, module : m = kernelModules[path] /\ module = modules[m]
    OBVIOUS
  <1>2. m \in Registered /\ module.path = path
    BY <1>1 DEF CompleteInv, PathsKept, Range
  <1>3. m # Kernel
    BY <1>1, <1>2 DEF CompleteInv, RegisteredWhole
  <1>4. Whole(module, m, installation, kernelModules)
    BY <1>1, <1>2, <1>3 DEF CompleteInv, RegisteredWhole
  <1>5. installation \in Installations
    BY DEF Inv, BootInv
  <1>6. PICK source : source = installation.modules[path]
    OBVIOUS
  <1>7. /\ path \in DOMAIN installation.modules
        /\ AsFar(module, m, source, kernelModules, Len(source.imports), {})
    BY <1>2, <1>4, <1>6 DEF Whole
  <1>8. SettledAt(installation, path, kernelModules)
    BY <1>5, <1>6, <1>7, ReadSettled
  <1> QED
    BY <1>1, <1>2, <1>3, <1>4, <1>7, <1>8

(* The sources of the module of a species.                                 *)
LEMMA SpeciesModule ==
  ASSUME LinksInv, SourcesInv, NEW sp \in DOMAIN objects, sp.module # Kernel
  PROVE  sp.module \in DOMAIN modules /\ modules[sp.module].path \in DOMAIN installation.modules
  <1>1. sp.module \in DOMAIN modules \ {Kernel}
    BY DEF LinksInv, ModuleInv, ModulesLinked
  <1> QED
    BY <1>1 DEF SourcesInv, KnowsNames

(* A class of a module that is not registered is not extended.             *)
LEMMA NewNotExtended ==
  ASSUME Inv, CompleteInv, Unambiguous(installation), DOMAIN modules # {},
         NEW sp, ClassOf(sp).module \notin Range(kernelModules) \cup {Kernel}
  PROVE  ExtendedWith(installation, kernelModules, sp) = {}
  <1>1. ASSUME NEW path \in DOMAIN kernelModules, path # <<"Kernel">>
        PROVE  ExtensionsIn(installation, kernelModules, kernelModules[path], path, sp) = {}
    <2>1. PICK m, class : /\ m = kernelModules[path]
                          /\ class = MeantIn(installation, kernelModules, m, path, sp.name)
      OBVIOUS
    <2>2. SettledAt(installation, path, kernelModules)
      BY <1>1, RegisteredAre
    <2>3. class.module \in {m, Kernel} \cup Range(kernelModules)
      BY <2>1, <2>2, WhereMeant
    <2>4. m \in Range(kernelModules)
      BY <2>1 DEF Range
    <2>5. class # ClassOf(sp)
      BY <2>3, <2>4
    <2> QED
      BY <2>1, <2>5 DEF ExtensionsIn
  <1> QED
    BY <1>1 DEF ExtendedWith

(* When the kernel registers one more module, that extends what it does.   *)
LEMMA OneMoreExtends ==
  ASSUME Inv, CompleteInv, Unambiguous(installation), DOMAIN modules # {},
         NEW m, NEW path, path \notin DOMAIN kernelModules, path # <<"Kernel">>,
         SettledAt(installation, path, kernelModules),
         NEW more, more = Over(At(path, m), kernelModules)
  PROVE  /\ Widens(more, kernelModules)
         /\ \A sp : ExtendedWith(installation, more, sp)
               = ExtendedWith(installation, kernelModules, sp)
                 \cup ExtensionsIn(installation, kernelModules, m, path, sp)
  <1>1. /\ DOMAIN more = DOMAIN kernelModules \cup {path} /\ more[path] = m
        /\ \A p \in DOMAIN kernelModules : more[p] = kernelModules[p]
    BY DEF Over, At
  <1>2. Widens(more, kernelModules)
    BY <1>1 DEF Widens
  <1>3. ASSUME NEW sp
        PROVE  ExtendedWith(installation, more, sp)
                 = ExtendedWith(installation, kernelModules, sp)
                   \cup ExtensionsIn(installation, kernelModules, m, path, sp)
    <2>1. ExtensionsIn(installation, more, m, path, sp) = ExtensionsIn(installation, kernelModules, m, path, sp)
      BY <1>2, ExtensionsStay
    <2>2. ASSUME NEW p \in DOMAIN kernelModules, p # <<"Kernel">>
          PROVE  ExtensionsIn(installation, more, more[p], p, sp)
                   = ExtensionsIn(installation, kernelModules, kernelModules[p], p, sp)
      <3>1. SettledAt(installation, p, kernelModules)
        BY <2>2, RegisteredAre
      <3>2. ExtensionsIn(installation, more, kernelModules[p], p, sp)
               = ExtensionsIn(installation, kernelModules, kernelModules[p], p, sp)
        BY <1>2, <3>1, ExtensionsStay
      <3> QED
        BY <1>1, <3>2
    <2>3. PICK all, old, its : /\ all = ExtendedWith(installation, more, sp)
                               /\ old = ExtendedWith(installation, kernelModules, sp)
                               /\ its = ExtensionsIn(installation, kernelModules, m, path, sp)
      OBVIOUS
    <2>4. ASSUME NEW x \in all PROVE x \in old \cup its
      <3>1. PICK p \in DOMAIN more \ {<<"Kernel">>} : x \in ExtensionsIn(installation, more, more[p], p, sp)
        BY <2>3, <2>4 DEF ExtendedWith
      <3>2. CASE p = path
        BY <1>1, <2>1, <2>3, <3>1, <3>2
      <3>3. CASE p # path
        <4>1. p \in DOMAIN kernelModules \ {<<"Kernel">>}
          BY <1>1, <3>3
        <4>2. x \in ExtensionsIn(installation, kernelModules, kernelModules[p], p, sp)
          BY <2>2, <3>1, <4>1
        <4> QED
          BY <2>3, <4>1, <4>2 DEF ExtendedWith
      <3> QED
        BY <3>2, <3>3
    <2>5. ASSUME NEW x \in old PROVE x \in all
      <3>1. PICK p \in DOMAIN kernelModules \ {<<"Kernel">>} :
               x \in ExtensionsIn(installation, kernelModules, kernelModules[p], p, sp)
        BY <2>3, <2>5 DEF ExtendedWith
      <3>2. p \in DOMAIN more \ {<<"Kernel">>} /\ x \in ExtensionsIn(installation, more, more[p], p, sp)
        BY <1>1, <2>2, <3>1
      <3> QED
        BY <2>3, <3>2 DEF ExtendedWith
    <2>6. ASSUME NEW x \in its PROVE x \in all
      <3>1. path \in DOMAIN more \ {<<"Kernel">>} /\ x \in ExtensionsIn(installation, more, more[path], path, sp)
        BY <1>1, <2>1, <2>3, <2>6
      <3> QED
        BY <2>3, <3>1 DEF ExtendedWith
    <2> QED
      BY <2>3, <2>4, <2>5, <2>6
  <1> QED
    BY <1>2, <1>3
-----------------------------------------------------------------------------
(* A step that changes one module that is not registered, and new species. *)
OnlyChanges(m, new) ==
    /\ m \notin Registered
    /\ \A k \in DOMAIN modules' \ {m} : k \in DOMAIN modules /\ modules'[k] = modules[k]
    /\ m \in DOMAIN modules' => /\ KnowsNames(modules'[m], m, installation)
                                /\ m \in DOMAIN modules => modules'[m].path = modules[m].path
    /\ \A sp \in DOMAIN objects' \ new : sp \in DOMAIN objects /\ objects'[sp] = objects[sp]
    /\ \A sp \in DOMAIN objects' \cap new :
          /\ OfSource(sp, installation, modules', kernelModules)
          /\ Faithful(objects'[sp], sp, installation, modules', kernelModules)
    /\ \A k \in Registered' \ {Kernel} :
          k \in Registered \/ Extending(modules'[k], k, installation, kernelModules)
    /\ \A i \in 1 .. Len(loads') : loads'[i].step = "register" =>
          Extending(modules'[loads'[i].module], loads'[i].module, installation, kernelModules)

(* All else is what it was.                                                *)
LEMMA OthersFaithful ==
  ASSUME Inv, Inv', LinksInv, LinksInv', DictionariesInv, SourcesInv, phase = "done",
         UNCHANGED <<installation, phase, newMd, kernelModules>>,
         NEW m, NEW new, OnlyChanges(m, new)
  PROVE  DictionariesInv' /\ SourcesInv'
  <1>1. /\ installation' = installation /\ phase' = phase /\ newMd' = newMd
        /\ kernelModules' = kernelModules
    OBVIOUS
  <1>2. \A sp \in DOMAIN objects : IsFaithful(sp)
    BY DEF DictionariesInv
  <1>3. PICK files, mods, mods2, kernels : /\ files = installation /\ mods = modules
                                           /\ mods2 = modules' /\ kernels = kernelModules
    OBVIOUS
  <1>4. files \in Installations /\ Widens(kernels, kernels)
    BY <1>3 DEF Inv, BootInv, Widens
  <1>5. ASSUME NEW sp \in DOMAIN objects'
        PROVE  /\ OfSource(sp, files, mods2, kernels)
               /\ Faithful(objects'[sp], sp, files, mods2, kernels)
    <2>1. CASE sp \in new
      BY <2>1, <1>3, <1>5 DEF OnlyChanges
    <2>2. CASE sp \notin new
      <3>1. sp \in DOMAIN objects /\ objects'[sp] = objects[sp]
        BY <2>2, <1>5 DEF OnlyChanges
      <3>2. /\ OfSource(sp, files, mods, kernels)
            /\ Faithful(objects[sp], sp, files, mods, kernels)
        BY <3>1, <1>2, <1>3 DEF SourcesInv, IsFaithful
      <3>3. SamePlace(sp, files, mods, mods2)
        <4>1. SUFFICES ASSUME sp.module # Kernel
                       PROVE  /\ mods2[sp.module].path = mods[sp.module].path
                              /\ mods[sp.module].path \in DOMAIN files.modules
          BY DEF SamePlace
        <4>2. /\ sp.module \in DOMAIN modules /\ modules[sp.module].path \in DOMAIN installation.modules
          BY <3>1, <4>1, SpeciesModule
        <4>3. sp.module \in DOMAIN modules'
          BY <1>5, <4>1 DEF LinksInv, ModuleInv, ModulesLinked
        <4> QED
          BY <1>3, <4>2, <4>3 DEF OnlyChanges
      <3>4. /\ OfSource(sp, files, mods2, kernels)
            /\ AboveIn(files, mods2, kernels, sp) = AboveIn(files, mods, kernels, sp)
            /\ Defined(files, mods2, sp) = Defined(files, mods, sp)
        BY <1>4, <3>2, <3>3, SourcesStay
      <3> QED
        BY <3>1, <3>2, <3>4 DEF Faithful, Placed
    <2> QED
      BY <2>1, <2>2
  <1>6. DictionariesInv'
    <2>1. \A sp \in DOMAIN objects' : IsFaithful(sp)'
      BY <1>1, <1>3, <1>5 DEF IsFaithful
    <2>2. newMd' = Nil
      BY <1>1 DEF DictionariesInv
    <2> QED
      BY <1>1, <2>1, <2>2 DEF DictionariesInv
  <1>7. \A k \in DOMAIN modules' \ {Kernel} : KnowsNames(modules'[k], k, installation)
    <2>1. \A k \in DOMAIN modules \ {Kernel} : KnowsNames(modules[k], k, installation)
      BY DEF SourcesInv
    <2> QED
      BY <2>1 DEF OnlyChanges
  <1>8. \A k \in Registered' \ {Kernel} : Extending(modules'[k], k, installation, kernelModules)
    <2>1. SUFFICES ASSUME NEW k \in Registered', k # Kernel, k \in Registered
                   PROVE  Extending(modules'[k], k, installation, kernelModules)
      BY DEF OnlyChanges
    <2>2. k \in Range(loadedModules)'
      BY <2>1 DEF Registered
    <2>3. k \in DOMAIN modules'
      BY <2>2 DEF Inv, LoaderInv
    <2>4. k # m
      BY <2>1 DEF OnlyChanges
    <2>5. modules'[k] = modules[k]
      BY <2>3, <2>4 DEF OnlyChanges
    <2> QED
      BY <2>1, <2>5 DEF SourcesInv
  <1> QED
    BY <1>1, <1>3, <1>5, <1>6, <1>7, <1>8 DEF SourcesInv, OnlyChanges

(* There are more symbols.                                                 *)
MoreNames(names) == names \subseteq STRING \cup {Nil} /\ symbolTable' = WithSymbols(symbolTable, names)
LEMMA MoreNamesKnown ==
  ASSUME LookInv, phase = "done", UNCHANGED <<phase, symbols, provider>>,
         symbolTable' = symbolTable \/ \E names : MoreNames(names)
  PROVE  KnownSymbols'
  <1>1. /\ phase' = phase /\ symbols' = symbols /\ provider' = provider /\ provider = "dynamic"
        /\ KnownSymbols
    BY DEF LookInv, KnownSymbols
  <1>2. Range(symbols)' = Range(symbols)
    BY <1>1 DEF Range
  <1>3. symbolTable \subseteq symbolTable' /\ symbolTable' \subseteq symbolTable \cup Symbol
    <2>1. CASE symbolTable' = symbolTable
      BY <2>1
    <2>2. CASE \E names : MoreNames(names)
      <3>1. PICK names : MoreNames(names)
        BY <2>2
      <3> QED
        BY <3>1 DEF MoreNames, WithSymbols, Symbol
    <2> QED
      BY <2>1, <2>2
  <1>4. Universe' \subseteq Symbol /\ Range(symbols)' \subseteq symbolTable'
    BY <1>1, <1>2, <1>3 DEF KnownSymbols, Universe
  <1>5. phase' = "done" /\ provider' = "dynamic"
    BY <1>1
  <1> QED
    BY <1>4, <1>5 DEF KnownSymbols

(* It is enough to look at a clear installation.                           *)
LEMMA LooksOn ==
  ASSUME LookInv, UNCHANGED <<installation, phase, spec, namespace, symbols>>, KnownSymbols',
         Clear(installation) => DictionariesInv' /\ SourcesInv'
  PROVE  LookInv'
  <1>1. /\ installation' = installation /\ phase' = phase /\ spec' = spec
        /\ namespace' = namespace /\ symbols' = symbols /\ SpecsMerged
    BY DEF LookInv
  <1>2. \A s : HasEntry(namespace', s) <=> HasEntry(namespace, s)
    BY <1>1 DEF HasEntry
  <1>3. SpecsMerged'
    BY <1>1, <1>2 DEF SpecsMerged
  <1> QED
    BY <1>1, <1>3 DEF LookInv

(* A load that waits for another one has not come to registering.          *)
Waiting(ls) == \A i \in 1 .. Len(ls) : ls[i].step # "register"
LEMMA OneWaiting ==
  ASSUME Inv, LinksInv, loads # <<>>
  PROVE  /\ Waiting(Pop) /\ Waiting(<<>>)
         /\ \A l : l.step # "register" => Waiting(Append(Pop, l))
  <1>1. PICK ls : ls = Pop
    OBVIOUS
  <1>2. IsSeq(ls) /\ \A i \in 1 .. Len(ls) : ls[i].step = "import"
    BY <1>1, TopIs, StackIs DEF LoadsOK
  <1>3. Waiting(ls)
    BY <1>2 DEF Waiting
  <1>4. ASSUME NEW l, l.step # "register" PROVE Waiting(Append(ls, l))
    <2>1. PICK new : new = Append(ls, l)
      OBVIOUS
    <2>2. /\ Len(ls) \in Nat /\ Len(new) = Len(ls) + 1
          /\ \A i \in 1 .. Len(ls) + 1 : new[i] = IF i = Len(ls) + 1 THEN l ELSE ls[i]
      BY <1>2, <2>1, Appended DEF IsSeq
    <2> QED
      BY <1>2, <1>4, <2>1, <2>2 DEF Waiting
  <1>5. Waiting(<<>>)
    BY DEF Waiting
  <1> QED
    BY <1>1, <1>3, <1>4, <1>5

(* A step after which no load is to be registered, and that changes no     *)
(* module or species.                                                      *)
LEMMA OnlyLoadsLook ==
  ASSUME Inv, Inv', LinksInv, LinksInv', LookInv, phase = "done",
         UNCHANGED <<bootVars, modules, loadedModules, kernelModules>>, Waiting(loads')
  PROVE  LookInv'
  <1>1. /\ UNCHANGED <<installation, phase, spec, namespace, symbols, provider, newMd, kernelModules>>
        /\ symbolTable' = symbolTable /\ objects' = objects /\ modules' = modules
        /\ loadedModules' = loadedModules
    BY DEF bootVars
  <1>2. ASSUME Clear(installation) PROVE DictionariesInv' /\ SourcesInv'
    <2>1. PICK m, new : m = Nil /\ new = {}
      OBVIOUS
    <2>2. m \notin Registered
      BY <2>1, NilAssumption DEF Registered, Inv, LoaderInv, Kernel
    <2>3. m \notin DOMAIN modules'
      BY <1>1, <2>1, NilAssumption DEF Inv, LoaderInv
    <2>4. Registered' = Registered
      BY <1>1 DEF Registered, Range
    <2>5. OnlyChanges(m, new)
      BY <1>1, <2>1, <2>2, <2>3, <2>4 DEF OnlyChanges, Waiting
    <2>6. DictionariesInv /\ SourcesInv
      BY <1>2 DEF LookInv
    <2> QED
      BY <1>1, <2>5, <2>6, OthersFaithful
  <1> QED
    BY <1>1, <1>2, MoreNamesKnown, LooksOn

(* Stop, load, and the order of the classes.                               *)
LEMMA StopLooks ==
  ASSUME Inv, Inv', LinksInv, LinksInv', LookInv, loads # <<>>, NEW why, Stop(why)
  PROVE  LookInv'
  <1>1. loads' = <<>> /\ UNCHANGED <<bootVars, modules, loadedModules, kernelModules>>
    BY DEF Stop
  <1>2. phase = "done" /\ Waiting(loads')
    BY <1>1, Loading, OneWaiting
  <1> QED
    BY <1>1, <1>2, OnlyLoadsLook

(* A load that starts changes nothing that a lookup reads.                 *)
LEMMA LoadLooks ==
  ASSUME Inv, Inv', LinksInv, LinksInv', LookInv, NEW path, load(path)
  PROVE  LookInv'
  <1>1. /\ DOMAIN modules # {} /\ loads' = <<LoadOf(path)>>
        /\ UNCHANGED <<bootVars, modules, loadedModules, kernelModules>>
    BY DEF load
  <1>2. phase = "done"
    BY <1>1, Loading
  <1>3. PICK l, ls : l = LoadOf(path) /\ ls = <<l>>
    OBVIOUS
  <1>4. l.step # "register"
    BY <1>3 DEF LoadOf
  <1>5. Len(ls) = 1 /\ ls[1] = l
    BY <1>3
  <1>6. Waiting(ls)
    BY <1>4, <1>5 DEF Waiting
  <1> QED
    BY <1>1, <1>2, <1>3, <1>6, OnlyLoadsLook

(* Neither does the order of the files.                                    *)
LEMMA SortClassesLooks ==
  ASSUME Inv, Inv', LinksInv, LinksInv', LookInv, sortClasses
  PROVE  LookInv'
  <1>1. loads # <<>> /\ UNCHANGED <<bootVars, modules, loadedModules, kernelModules>>
    BY DEF sortClasses
  <1>2. PICK l : /\ l = [Top EXCEPT !.step = "classes",
                    !.files = Sorted(Source.classes,
                                     CHOOSE n \in DOMAIN Source.classes : n \notin Range(Top.files),
                                     Top.files)]
                 /\ loads' = Append(Pop, l)
    BY Zenon DEF sortClasses
  <1>3. l.step = "classes"
    <2>1. "step" \in DOMAIN Top
      BY <1>1, TopIs DEF LoadOK
    <2> QED
      BY <1>2, <2>1
  <1>4. phase = "done" /\ Waiting(loads')
    BY <1>1, <1>2, <1>3, Loading, OneWaiting
  <1> QED
    BY <1>1, <1>4, OnlyLoadsLook

(* What is thrown away is of no other module.                              *)
LEMMA FailLooks ==
  ASSUME Inv, Inv', LinksInv, LinksInv', LookInv, loads # <<>>, Fail, Top.module \notin Registered
  PROVE  LookInv'
  <1>1. /\ loads' = <<>>
        /\ UNCHANGED <<installation, phase, spec, namespace, symbols, provider, newMd, kernelModules>>
        /\ symbolTable' = symbolTable /\ loadedModules' = loadedModules
    BY DEF Fail
  <1>2. phase = "done" /\ Waiting(loads')
    BY <1>1, Loading, OneWaiting
  <1>3. PICK m, new : m = Top.module /\ new = {}
    OBVIOUS
  <1>4. /\ \A sp \in DOMAIN objects' : sp \in DOMAIN objects /\ objects'[sp] = objects[sp]
        /\ DOMAIN modules' = DOMAIN modules \ {m}
        /\ \A k \in DOMAIN modules' : modules'[k] = modules[k]
    BY <1>3 DEF Fail
  <1>5. Registered' = Registered
    BY <1>1 DEF Registered, Range
  <1>6. OnlyChanges(m, new)
    BY <1>2, <1>3, <1>4, <1>5 DEF OnlyChanges, Waiting
  <1>7. Clear(installation) => DictionariesInv' /\ SourcesInv'
    BY <1>1, <1>2, <1>6, OthersFaithful DEF LookInv
  <1> QED
    BY <1>1, <1>2, <1>7, MoreNamesKnown, LooksOn

(* Neither does a module that is not there.                                *)
LEMMA ModuleNotFoundLooks ==
  ASSUME Inv, Inv', LinksInv, LinksInv', LookInv, moduleNotFound
  PROVE  LookInv'
  <1>1. loads # <<>> /\ Top.step = "create" /\ Fail
    BY DEF moduleNotFound
  <1>2. Top.module = Nil
    BY <1>1, TopIs DEF LoadOK
  <1>3. Top.module \notin Registered
    BY <1>2, NilAssumption DEF Registered, Inv, LoaderInv, Kernel
  <1> QED
    BY <1>1, <1>3, FailLooks
(* A name that is imported, or a class of the module's own, is one more    *)
(* that the module knows.                                                  *)
LEMMA KnowsOneMore ==
  ASSUME NEW module, NEW m, NEW files, KnowsNames(module, m, files),
         NEW source, source = files.modules[module.path],
         NEW name, NEW value,
         (name \in Imported(source) /\ name \notin DOMAIN source.classes)
         \/ (name \in DOMAIN source.classes /\ value = ClassIn(m, name)),
         NEW new, new.path = module.path, new.namespace = Over(At(name, value), module.namespace)
  PROVE  KnowsNames(new, m, files)
  <1>1. /\ DOMAIN new.namespace = {name} \cup DOMAIN module.namespace
        /\ \A x \in DOMAIN new.namespace :
              new.namespace[x] = IF x = name THEN value ELSE module.namespace[x]
    BY DEF Over, At
  <1>2. PICK path : path = module.path
    OBVIOUS
  <1>3. /\ path \in DOMAIN files.modules /\ "Module" \in DOMAIN files.kernel
        /\ source = files.modules[path] /\ new.path = path
    BY <1>2 DEF KnowsNames
  <1>4. \A n \in KernelExports \ (DOMAIN source.classes \cup Imported(source)) :
           /\ n \in DOMAIN files.kernel => n \in DOMAIN new.namespace
           /\ n \in DOMAIN new.namespace => new.namespace[n] = Class(n)
    <2>1. SUFFICES ASSUME NEW n \in KernelExports \ (DOMAIN source.classes \cup Imported(source))
                   PROVE  /\ n \in DOMAIN files.kernel => n \in DOMAIN new.namespace
                          /\ n \in DOMAIN new.namespace => new.namespace[n] = Class(n)
      OBVIOUS
    <2>2. n # name
      BY <2>1
    <2>3. /\ n \in DOMAIN files.kernel => n \in DOMAIN module.namespace
          /\ n \in DOMAIN module.namespace => module.namespace[n] = Class(n)
      BY <1>2, <1>3, <2>1 DEF KnowsNames
    <2> QED
      BY <1>1, <2>2, <2>3
  <1>5. ASSUME NEW n \in DOMAIN source.classes, n \in DOMAIN new.namespace
        PROVE  new.namespace[n] = ClassIn(m, n)
    <2>1. CASE n = name
      BY <1>1, <1>5, <2>1
    <2>2. CASE n # name
      <3>1. n \in DOMAIN module.namespace
        BY <1>1, <1>5, <2>2
      <3>2. module.namespace[n] = ClassIn(m, n)
        BY <1>2, <1>3, <1>5, <3>1 DEF KnowsNames
      <3> QED
        BY <1>1, <1>5, <2>2, <3>2
    <2> QED
      BY <2>1, <2>2
  <1> QED
    BY <1>3, <1>4, <1>5 DEF KnowsNames

(* The module of a load under way, and what it is loaded from.             *)
LEMMA TopModule ==
  ASSUME Inv, LinksInv, CompleteInv, Clear(installation), SourcesInv, loads # <<>>,
         Top.step \in Unregistered,
         NEW k, k = Top.module, NEW path, path = Top.path
  PROVE  /\ k \in DOMAIN modules \ Registered /\ k \in Nat \ {Kernel} /\ k \notin Range(kernelModules)
         /\ path \in DOMAIN installation.modules /\ modules[k].path = path
         /\ KnowsNames(modules[k], k, installation) /\ phase = "done"
  <1>1. k \in DOMAIN modules \ Registered /\ path \in DOMAIN installation.modules
    BY TopIs DEF LoadOK
  <1>2. k # Kernel /\ k \in Nat
    BY <1>1 DEF Registered, Inv, LoaderInv
  <1>3. k \notin Range(kernelModules)
    BY StackIs DEF LoadApart
  <1>4. modules[k].path = path
    BY StackAsFar DEF Clear, LoadAsFar, Unregistered
  <1>5. KnowsNames(modules[k], k, installation)
    BY <1>1, <1>2 DEF SourcesInv
  <1> QED
    BY <1>1, <1>2, <1>3, <1>4, <1>5, Loading

(* Phase 4: importRequired.                                                *)
LEMMA ImportRequiredLooks ==
  ASSUME Inv, Inv', LinksInv, LinksInv', CompleteInv, LookInv, importRequired
  PROVE  LookInv'
  <1>1. loads # <<>> /\ Top.step = "import" /\ Top.imports # <<>> /\ Top.step \in Unregistered
    BY DEF importRequired, Unregistered
  <1>2. PICK top, import : top = Top /\ import = Head(top.imports)
    OBVIOUS
  <1>3. /\ {"path", "step", "module", "files", "imports"} \subseteq DOMAIN top
        /\ top.path \in DOMAIN installation.modules /\ top.imports \in Seq(Import)
        /\ top.module \in DOMAIN modules \ Registered /\ DOMAIN modules # {}
    BY <1>1, <1>2, TopIs DEF LoadOK
  <1>4. phase = "done"
    BY <1>1, Loading
  <1>5. CASE import.module \notin DOMAIN kernelModules
    <2>1. /\ loads' = Append(loads, LoadOf(import.module))
          /\ UNCHANGED <<bootVars, modules, loadedModules, kernelModules>>
      BY <1>2, <1>5 DEF importRequired
    <2>2. PICK l, ls, new : l = LoadOf(import.module) /\ ls = loads /\ new = Append(ls, l)
      OBVIOUS
    <2>3. l.step # "register"
      BY <2>2 DEF LoadOf
    <2>4. IsSeq(ls) /\ Len(ls) \in Nat /\ Len(ls) >= 1
      BY <1>1, <2>2, PoppedIs DEF Inv, LoaderInv, LoadsOK
    <2>5. \A i \in 1 .. Len(ls) : ls[i].step # "register"
      <3>1. LoadsApart(ls, objects, modules, Range(kernelModules), Registered)
        BY <2>2 DEF LinksInv, ModuleInv
      <3>2. ls[Len(ls)].step = "import"
        BY <1>1, <2>2 DEF Top
      <3>3. \A i \in 1 .. Len(ls) : i = Len(ls) \/ i \in 1 .. Len(ls) - 1
        BY <2>4
      <3> QED
        BY <3>1, <3>2, <3>3 DEF LoadsApart
    <2>6. Len(new) = Len(ls) + 1
          /\ \A i \in 1 .. Len(ls) + 1 : new[i] = IF i = Len(ls) + 1 THEN l ELSE ls[i]
      BY <2>2, <2>4, Appended
    <2>7. Waiting(new)
      BY <2>3, <2>4, <2>5, <2>6 DEF Waiting
    <2> QED
      BY <1>4, <2>1, <2>2, <2>7, OnlyLoadsLook
  <1>6. CASE import.module \in DOMAIN kernelModules
    <2>1. PICK from, value : /\ from = kernelModules[import.module]
                             /\ value = NamespaceAt(from, import.name)
      OBVIOUS
    <2>2. CASE value = Nil
      <3>1. Stop("KeyNotFound")
        BY <1>2, <1>6, <2>1, <2>2 DEF importRequired
      <3> QED
        BY <1>1, <3>1, StopLooks
    <2>3. CASE value # Nil
      <3>1. PICK k, mods, names : /\ k = top.module /\ mods = modules
                                  /\ names = Over(At(import.name, value), mods[k].namespace)
        OBVIOUS
      <3>2. PICK l : l = Replacing(top, "imports", Tail(top.imports))
        OBVIOUS
      <3>3. PICK mods2 : mods2 = Replacing(mods, k, Replacing(mods[k], "namespace", names))
        OBVIOUS
      <3>4. /\ modules' = mods2 /\ loads' = Append(Pop, l)
            /\ UNCHANGED <<installation, phase, spec, objects, namespace, symbols, symbolTable,
                           provider, newMd, loadedModules, kernelModules>>
        BY <1>2, <1>6, <2>1, <2>3, <3>1, <3>2, <3>3 DEF importRequired, Replacing, bootVars
      <3>5. l.step # "register"
        BY <1>1, <1>2, <1>3, <3>2 DEF Replacing
      <3>6. Waiting(loads')
        BY <1>1, <3>4, <3>5, OneWaiting
      <3>7. ASSUME Clear(installation) PROVE DictionariesInv' /\ SourcesInv'
        <4>1. DictionariesInv /\ SourcesInv
          BY <3>7 DEF LookInv
        <4>2. PICK path, source, imports, left :
                 /\ path = top.path /\ source = installation.modules[path]
                 /\ imports = source.imports /\ left = top.imports
          OBVIOUS
        <4>3. /\ mods[k].path = path /\ KnowsNames(mods[k], k, installation)
              /\ path \in DOMAIN installation.modules /\ k \notin Registered
          BY <1>1, <1>2, <3>1, <3>7, <4>1, <4>2, TopModule
        <4>4. /\ imports \in Seq(Import) /\ left \in Seq(Import) /\ left # <<>>
              /\ \A i \in 1 .. Len(imports) : Plain(installation, source, imports[i])
          BY <1>1, <1>2, <1>3, <3>7, <4>2, SourceIs DEF Clear
        <4>5. LeftOver(left, imports)
          BY <1>1, <1>2, <3>7, <4>2, StackAsFar DEF Clear, LoadAsFar
        <4>6. PICK n : n = Len(imports) - Len(left)
          OBVIOUS
        <4>7. n + 1 \in 1 .. Len(imports) /\ import = imports[n + 1]
          BY <1>2, <4>2, <4>4, <4>5, <4>6, NextImport
        <4>8. import.name \in Imported(source) /\ import.name \notin DOMAIN source.classes
          BY <4>2, <4>4, <4>7, Zenon DEF Imported, Plain
        <4>9. PICK module, new, name : module = mods[k] /\ new = mods2[k] /\ name = import.name
          OBVIOUS
        <4>10. {"path", "namespace"} \subseteq DOMAIN module /\ k \in DOMAIN mods
          BY <1>3, <3>1, <4>9 DEF LinksInv, ModuleInv, ModulesLinked, NamesLinked
        <4>11. /\ new.path = module.path /\ new.namespace = names
               /\ DOMAIN mods2 = DOMAIN mods
               /\ \A x \in DOMAIN mods : x # k => mods2[x] = mods[x]
          <5>1. PICK changed : changed = Replacing(module, "namespace", names)
            OBVIOUS
          <5>2. changed.path = module.path /\ changed.namespace = names
            BY <4>10, <5>1 DEF Replacing
          <5> QED
            BY <3>3, <4>9, <4>10, <5>1, <5>2, ReplacingOne
        <4>12. KnowsNames(new, k, installation)
          <5>1. new.namespace = Over(At(name, value), module.namespace)
            BY <3>1, <4>9, <4>11
          <5>2. /\ KnowsNames(module, k, installation) /\ source = installation.modules[module.path]
                /\ name \in Imported(source) /\ name \notin DOMAIN source.classes
            BY <4>2, <4>3, <4>8, <4>9
          <5> QED
            BY <4>11, <5>1, <5>2, KnowsOneMore
        <4>13. PICK none : none = {}
          OBVIOUS
        <4>14. Registered' = Registered
          BY <3>4 DEF Registered, Range
        <4>15. OnlyChanges(k, none)
          BY <3>1, <3>4, <3>6, <4>3, <4>9, <4>11, <4>12, <4>13, <4>14 DEF OnlyChanges, Waiting
        <4> QED
          BY <1>4, <3>4, <4>1, <4>15, OthersFaithful
      <3> QED
        BY <1>4, <3>4, <3>7, MoreNamesKnown, LooksOn
    <2> QED
      BY <2>2, <2>3
  <1> QED
    BY <1>5, <1>6

(* register: the extensions of the module are those of its sources.        *)
LEMMA RegisterLooks ==
  ASSUME Inv, Inv', LinksInv, LinksInv', LookInv, register
  PROVE  LookInv'
  <1>1. /\ loads # <<>> /\ Top.step = "register"
        /\ UNCHANGED <<bootVars, modules, kernelModules, stopped>>
    BY DEF register
  <1>2. PICK l, ls : l = Replacing(Top, "step", "justLoaded") /\ ls = loads
    OBVIOUS
  <1>3. loads' = Append(Pop, l) /\ loadedModules' = Over(At(Last(Top.path), Top.module), loadedModules)
    BY <1>2 DEF register, Replacing
  <1>4. l.step # "register"
    <2>1. "step" \in DOMAIN Top
      BY <1>1, TopIs DEF LoadOK
    <2> QED
      BY <1>2, <2>1 DEF Replacing
  <1>5. phase = "done" /\ Waiting(loads')
    BY <1>1, <1>3, <1>4, Loading, OneWaiting
  <1>6. /\ UNCHANGED <<installation, phase, spec, namespace, symbols, provider, newMd, kernelModules>>
        /\ symbolTable' = symbolTable /\ objects' = objects /\ modules' = modules
    BY <1>1 DEF bootVars
  <1>7. ASSUME Clear(installation) PROVE DictionariesInv' /\ SourcesInv'
    <2>1. DictionariesInv /\ SourcesInv
      BY <1>7 DEF LookInv
    <2>2. PICK m, new : m = Nil /\ new = {}
      OBVIOUS
    <2>3. m \notin Registered /\ m \notin DOMAIN modules'
      BY <1>6, <2>2, NilAssumption DEF Registered, Inv, LoaderInv, Kernel
    <2>4. Extending(modules[Top.module], Top.module, installation, kernelModules)
      <3>1. IsSeq(ls) /\ Len(ls) \in Nat /\ Len(ls) >= 1 /\ Top = ls[Len(ls)]
        BY <1>1, <1>2, PoppedIs DEF Inv, LoaderInv, LoadsOK, Top
      <3>2. Len(ls) \in 1 .. Len(ls)
        BY <3>1
      <3> QED
        BY <1>1, <1>2, <2>1, <3>1, <3>2 DEF SourcesInv
    <2>5. Registered' \subseteq Registered \cup {Top.module}
      BY <1>3 DEF Registered, Range, Over, At
    <2>6. OnlyChanges(m, new)
      BY <1>5, <1>6, <2>2, <2>3, <2>4, <2>5 DEF OnlyChanges, Waiting
    <2> QED
      BY <1>5, <1>6, <2>1, <2>6, OthersFaithful
  <1> QED
    BY <1>5, <1>6, <1>7, MoreNamesKnown, LooksOn

(* The kernel extends nothing.                                             *)
LEMMA LoadKernelLooks ==
  ASSUME Inv, Inv', LinksInv, LinksInv', LookInv, loadKernel
  PROVE  LookInv'
  <1>1. /\ phase = "done" /\ DOMAIN modules = {}
        /\ UNCHANGED <<bootVars, loads, stopped>>
    BY DEF loadKernel
  <1>2. /\ UNCHANGED <<installation, phase, spec, namespace, symbols, provider, newMd>>
        /\ symbolTable' = symbolTable /\ objects' = objects /\ loads' = <<>>
    BY <1>1 DEF bootVars, Inv, LoaderInv
  <1>3. /\ DOMAIN modules' = {Kernel} /\ DOMAIN kernelModules' = {<<"Kernel">>}
        /\ Range(loadedModules)' = {Kernel} /\ DOMAIN kernelModules = {}
    <2>1. DOMAIN modules' = {Kernel} /\ DOMAIN kernelModules' = {<<"Kernel">>}
      BY DEF loadKernel, At
    <2>2. Range(loadedModules)' = {Kernel}
      BY DEF loadKernel, At, Range
    <2>3. Range(kernelModules) = {}
      BY <1>1 DEF LinksInv, ModuleInv
    <2>4. DOMAIN kernelModules = {}
      BY <2>3 DEF Range
    <2> QED
      BY <2>1, <2>2, <2>4
  <1>4. ASSUME Clear(installation) PROVE DictionariesInv' /\ SourcesInv'
    <2>1. DictionariesInv /\ SourcesInv
      BY <1>4 DEF LookInv
    <2>2. PICK files, mods, mods2, kernels, more :
             /\ files = installation /\ mods = modules /\ mods2 = modules'
             /\ kernels = kernelModules /\ more = kernelModules'
      OBVIOUS
    <2>3. files \in Installations /\ Widens(more, kernels)
      BY <1>3, <2>2 DEF Inv, BootInv, Widens
    <2>4. ASSUME NEW sp \in DOMAIN objects
          PROVE  OfSource(sp, files, mods2, more) /\ Faithful(objects[sp], sp, files, mods2, more)
      <3>1. sp.module = Kernel
        BY <1>1, <2>4 DEF LinksInv, ModuleInv, ModulesLinked
      <3>2. SamePlace(sp, files, mods, mods2)
        BY <3>1 DEF SamePlace
      <3>3. OfSource(sp, files, mods, kernels) /\ Faithful(objects[sp], sp, files, mods, kernels)
        BY <1>1, <2>1, <2>2, <2>4 DEF SourcesInv, DictionariesInv, IsFaithful
      <3>4. /\ OfSource(sp, files, mods2, more)
            /\ AboveIn(files, mods2, more, sp) = AboveIn(files, mods, kernels, sp)
            /\ Defined(files, mods2, sp) = Defined(files, mods, sp)
        BY <2>3, <3>2, <3>3, SourcesStay
      <3>5. ExtendedWith(files, more, sp) = {} /\ ExtendedWith(files, kernels, sp) = {}
        BY <1>3, <2>2, NotExtended
      <3> QED
        BY <3>3, <3>4, <3>5 DEF Faithful, Placed
    <2>5. DictionariesInv'
      <3>1. \A sp \in DOMAIN objects' : IsFaithful(sp)'
        BY <1>2, <2>2, <2>4 DEF IsFaithful
      <3>2. newMd' = Nil /\ phase' = "done"
        BY <1>1, <1>2, <2>1 DEF DictionariesInv
      <3> QED
        BY <3>1, <3>2 DEF DictionariesInv
    <2>6. Registered' = {Kernel} /\ Waiting(loads')
      BY <1>2, <1>3 DEF Registered, Waiting
    <2>7. SourcesInv'
      BY <1>2, <1>3, <2>2, <2>4, <2>6 DEF SourcesInv, Waiting
    <2> QED
      BY <2>5, <2>7
  <1> QED
    BY <1>1, <1>2, <1>4, MoreNamesKnown, LooksOn
-----------------------------------------------------------------------------
(* A class that is made below the right one is what its sources say.       *)
HasNames(table, names) ==
    Unique(table) /\ table \subseteq Symbol /\ \A n \in names : DynamicSymbol(table, n) \in table
SuperIs(super, files, kernels, k, path, name) ==
    /\ super \in Species /\ super.side = "class" /\ name \in STRING
    /\ super = IF name = "Module" THEN Class(name) ELSE MeantIn(files, kernels, k, path, name)
LEMMA ClassFaithful ==
  ASSUME NEW files \in Installations, NEW mods, NEW kernels, NEW path \in DOMAIN files.modules,
         NEW k \in Nat \ {Kernel}, mods[k].path = path,
         NEW source, source = files.modules[path],
         NEW name \in DOMAIN source.classes, NEW s, s = source.classes[name], AllCompile(s),
         s.supername = "Module" \/ Settled(source, kernels),
         NEW super, SuperIs(super, files, kernels, k, path, s.supername),
         NEW table, HasNames(table, NamesOf(name, s)),
         NEW sp, NEW slots,
         \/ sp = ClassIn(k, name) /\ slots = ClassSlots(table, sp, name, s, super)
         \/ sp = Metaclass(ClassIn(k, name)) /\ slots = MetaclassSlots(table, sp, s, Metaclass(super)),
         ExtendedWith(files, kernels, sp) = {}
  PROVE  OfSource(sp, files, mods, kernels) /\ Faithful(slots, sp, files, mods, kernels)
  <1>1. name \in STRING /\ s \in ClassSpec
    BY InstallationsAssumption DEF InstallationOK, ModuleSourceOK
  <1>2. /\ s.methods \in Seq(MethodSpec) /\ s.metaMethods \in Seq(MethodSpec)
    BY <1>1 DEF ClassSpec
  <1>3. PICK class, above : class = ClassIn(k, name) /\ above = s.supername
    OBVIOUS
  <1>4. /\ sp \in Species /\ sp.module = k /\ sp.name = name
        /\ sp.side = IF sp = class THEN "class" ELSE "metaclass"
    BY <1>1, <1>3, ClassIs
  <1>5. SpecIn(files, mods, sp) = s
    BY <1>4 DEF SpecIn
  <1>6. PICK methods : methods = MethodsOfSide(sp, s)
    OBVIOUS
  <1>7. /\ methods = IF sp = class THEN s.methods ELSE s.metaMethods
        /\ methods \in Seq(MethodSpec)
    BY <1>2, <1>4, <1>6 DEF MethodsOfSide
  <1>8. OfSource(sp, files, mods, kernels)
    BY <1>4 DEF OfSource
  <1>9. above # Nil /\ super # Nil /\ above \in STRING
    BY <1>3, NilAssumption DEF SuperIs
  <1>10. AboveIn(files, mods, kernels, sp) = IF sp = class THEN super ELSE Metaclass(super)
    <2>1. super = IF above = "Module" THEN Class(above)
                  ELSE MeantIn(files, kernels, sp.module, mods[sp.module].path, above)
      BY <1>3, <1>4 DEF SuperIs
    <2>2. PICK meant : meant = MeantIn(files, kernels, sp.module, mods[sp.module].path, above)
      OBVIOUS
    <2>3. AboveIn(files, mods, kernels, sp) =
             IF sp.side = "class" \/ super = Nil \/ above = Nil THEN super ELSE Metaclass(super)
      <3>1. SpecIn(files, mods, sp).supername = above /\ sp.module # Kernel
        BY <1>3, <1>4, <1>5
      <3>2. CASE above = "Module"
        BY <1>9, <2>1, <3>1, <3>2 DEF AboveIn
      <3>3. CASE above # "Module"
        BY <1>9, <2>1, <3>1, <3>3 DEF AboveIn
      <3> QED
        BY <3>2, <3>3
    <2> QED
      BY <1>4, <1>9, <2>3
  <1>11. Placed(slots, sp, files, mods, kernels) /\ slots.md = Installed(table, sp, methods)
    <2>1. CASE sp = class
      <3>1. slots = ClassSlots(table, sp, name, s, super)
        <4>1. class.side = "class" /\ Metaclass(class).side = "metaclass"
          BY <1>1, <1>3, ClassIs
        <4> QED
          BY <1>3, <2>1, <4>1
      <3> QED
        BY <1>7, <1>10, <2>1, <3>1 DEF ClassSlots, Placed
    <2>2. CASE sp # class
      <3>1. slots = MetaclassSlots(table, sp, s, Metaclass(super))
        BY <1>3, <2>2
      <3> QED
        BY <1>7, <1>10, <2>2, <3>1 DEF MetaclassSlots, Placed
    <2> QED
      BY <2>1, <2>2
  <1>12. MethodsOf(files, mods, sp) = methods
    <2>1. methods \o <<>> = methods
      BY <1>7
    <2> QED
      BY <1>4, <1>5, <1>6, <2>1 DEF MethodsOf
  <1>13. PICK first, second, both : first = s.methods /\ second = s.metaMethods /\ both = first \o second
    BY ZenonT(40)
  <1>14. /\ IsSeq(first) /\ IsSeq(second) /\ methods = IF sp = class THEN first ELSE second
         /\ Len(methods) \in Nat
    <2>1. first \in Seq(MethodSpec) /\ second \in Seq(MethodSpec)
      BY <1>2, <1>13, Zenon
    <2>2. IsSeq(first) /\ IsSeq(second)
      BY <2>1, SeqIs
    <2>3. IsSeq(methods)
      BY <1>7, SeqIs
    <2>4. Len(methods) \in Nat
      BY <2>3 DEF IsSeq
    <2> QED
      BY <1>7, <1>13, <2>2, <2>4, Zenon
  <1>15. \A i \in 1 .. Len(methods) : methods[i].compiles
    <2>1. \A i \in DOMAIN both : both[i].compiles
      BY <1>13, ZenonT(40) DEF AllCompile
    <2>2. /\ IsSeq(both) /\ Len(both) = Len(first) + Len(second)
          /\ \A i \in 1 .. Len(first) + Len(second) :
                both[i] = IF i <= Len(first) THEN first[i] ELSE second[i - Len(first)]
      <3>1. IsSeq(first) /\ IsSeq(second)
        BY <1>14
      <3>2. both = first \o second
        BY <1>13, Zenon
      <3>3. /\ IsSeq(first \o second) /\ Len(first \o second) = Len(first) + Len(second)
            /\ \A i \in 1 .. Len(first) + Len(second) :
                  (first \o second)[i] = IF i <= Len(first) THEN first[i] ELSE second[i - Len(first)]
        BY <3>1, ConcatIs
      <3> QED
        BY <3>2, <3>3
    <2>3. \A i \in 1 .. Len(first) + Len(second) : both[i].compiles
      BY <2>1, <2>2 DEF IsSeq
    <2>4. Len(first) \in Nat /\ Len(second) \in Nat
      BY <1>14 DEF IsSeq
    <2>5. ASSUME NEW i \in 1 .. Len(methods) PROVE methods[i].compiles
      <3>1. CASE sp = class
        <4>1. i \in 1 .. Len(first) + Len(second) /\ i <= Len(first)
          BY <1>14, <2>4, <2>5, <3>1
        <4> QED
          BY <1>14, <2>2, <2>3, <3>1, <4>1
      <3>2. CASE sp # class
        <4>1. PICK j : j = Len(first) + i
          OBVIOUS
        <4>2. j \in 1 .. Len(first) + Len(second) /\ ~(j <= Len(first)) /\ j - Len(first) = i
          BY <1>14, <2>4, <2>5, <3>2, <4>1
        <4> QED
          BY <1>14, <2>2, <2>3, <3>2, <4>2
      <3> QED
        BY <3>1, <3>2
    <2> QED
      BY <2>5, SMTT(30)
  <1>16. NamesIn(methods) \subseteq NamesOf(name, s)
    <2>1. NamesIn(methods) \subseteq NamesIn(both)
      BY <1>13, <1>14, NamesOfBoth, ZenonT(40)
    <2> QED
      BY <1>13, <2>1, ZenonT(40) DEF NamesOf
  <1>17. Says(Installed(table, sp, methods).pairs, sp, LastOnes(methods), {})
    <2>1. \A n \in NamesIn(methods) : DynamicSymbol(table, n) \in table /\ DynamicSymbol(table, n).name = n
      BY <1>16, DynamicNamed DEF HasNames
    <2>2. Unique(table) /\ table \subseteq Symbol
      BY DEF HasNames
    <2> QED
      BY <1>4, <1>7, <1>15, <2>1, <2>2, InstalledSays, Zenon
  <1>18. Faithful(slots, sp, files, mods, kernels)
    BY <1>11, <1>12, <1>17 DEF Faithful, Defined
  <1> QED
    BY <1>8, <1>18

(* What the module knows under a name is what the name means there.        *)
AllRead(module, m, files, path, kernels, rest) ==
    LET source == files.modules[path]
    IN  AsFar(module, m, source, kernels, Len(source.imports), rest)
LEMMA Means ==
  ASSUME NEW files \in Installations, NEW path \in DOMAIN files.modules,
         NEW module, module.path = path, NEW m, NEW kernels, NEW rest,
         AllRead(module, m, files, path, kernels, rest),
         KnowsNames(module, m, files), NEW names, names = module.namespace, NEW n \in DOMAIN names
  PROVE  /\ names[n] = MeantIn(files, kernels, m, path, n)
         /\ n \in STRING
  <1>0. PICK source : source = files.modules[path]
    OBVIOUS
  <1>8. AsFar(module, m, source, kernels, Len(source.imports), rest)
    BY <1>0 DEF AllRead
  <1>1. source.imports \in Seq(Import) /\ DOMAIN source.classes \subseteq STRING
    BY <1>0, InstallationsAssumption DEF InstallationOK, ModuleSourceOK
  <1>2. PICK imports, total, i : /\ imports = source.imports /\ total = Len(imports)
                                 /\ i = Max(From(imports, n))
    OBVIOUS
  <1>3. /\ total \in Nat /\ imports \in Seq(Import)
        /\ \A j \in 1 .. total : imports[j] \in Import
    BY <1>1, <1>2, LastImport
  <1>4. MeantIn(files, kernels, m, path, n) = MeantBy(source, kernels, m, n)
    BY <1>0, MeantIs
  <1>5. CASE n \in DOMAIN source.classes
    <2>1. module.namespace[n] = ClassIn(m, n)
      BY <1>0, <1>5 DEF KnowsNames
    <2> QED
      BY <1>1, <1>4, <1>5, <2>1 DEF MeantBy
  <1>6. CASE n \notin DOMAIN source.classes /\ From(imports, n) # {}
    <2>1. /\ i \in 1 .. total /\ imports[i].name = n
          /\ \A j \in 1 .. total : imports[j].name = n => j <= i
      BY <1>2, <1>3, <1>6, LastImport
    <2>2. ImportsRead(module, imports, kernels, total)
      BY <1>2, <1>8 DEF AsFar
    <2>3. \/ module.namespace[n] = ClassIn(kernels[imports[i].module], n)
          \/ \E l \in i + 1 .. total : imports[l].name = n
      BY <2>1, <2>2 DEF ImportsRead
    <2>4. ~\E l \in i + 1 .. total : imports[l].name = n
      BY <1>3, <2>1
    <2>5. n \in STRING
      BY <1>3, <2>1 DEF Import
    <2> QED
      BY <1>2, <1>4, <1>6, <2>3, <2>4, <2>5 DEF MeantBy
  <1>7. CASE n \notin DOMAIN source.classes /\ From(imports, n) = {}
    <2>1. n \notin Imported(source)
      BY <1>2, <1>3, <1>7, LastImport DEF Imported
    <2>2. n \in KernelExports
      BY <1>7, <1>8, <2>1 DEF AsFar, NoOtherNames
    <2>3. module.namespace[n] = Class(n)
      BY <1>0, <1>7, <2>1, <2>2 DEF KnowsNames
    <2> QED
      BY <1>2, <1>4, <1>7, <2>2, <2>3, StringsAssumption DEF MeantBy, KernelExports
  <1> QED
    BY <1>5, <1>6, <1>7

(* The names in a class are strings, but for a superclass that is nil.     *)
LEMMA NamesOfClass ==
  ASSUME NEW s \in ClassSpec, NEW name \in STRING
  PROVE  NamesOf(name, s) \subseteq STRING \cup {Nil}
  <1>1. PICK both, variables : both = s.methods \o s.metaMethods /\ variables = s.instVarNames
    OBVIOUS
  <1>2. /\ both \in Seq(MethodSpec) /\ variables \in Seq(STRING)
        /\ s.supername \in STRING \cup {Nil}
    BY <1>1 DEF ClassSpec
  <1>3. NamesIn(both) \subseteq STRING
    BY <1>2, NamesOfMethods
  <1>4. Range(variables) \subseteq STRING
    <2>1. \A i \in DOMAIN variables : variables[i] \in STRING
      BY <1>2
    <2> QED
      BY <2>1 DEF Range
  <1> QED
    BY <1>1, <1>2, <1>3, <1>4 DEF NamesOf

(* Both sides of a class that a module makes are in the module.            *)
LEMMA MadeClassIs ==
  ASSUME NEW n, NEW m, NEW class, class = ClassIn(m, n),
         NEW metaclass, metaclass = Metaclass(class)
  PROVE  /\ class.side = "class" /\ metaclass.side = "metaclass"
         /\ ClassOf(class).module = m /\ ClassOf(metaclass).module = m
  BY SMTT(30) DEF ClassIn, Metaclass, ClassOf

(* A class that is made by a load.                                         *)
MadeRight(objs2, objs, new, files, mods, kernels) ==
    /\ \A sp \in DOMAIN objs2 \ new : sp \in DOMAIN objs /\ objs2[sp] = objs[sp]
    /\ \A sp \in DOMAIN objs2 \cap new :
          OfSource(sp, files, mods, kernels) /\ Faithful(objs2[sp], sp, files, mods, kernels)
LEMMA ClassIsMade ==
  ASSUME Inv, CompleteInv, KnownSymbols, phase = "done", Clear(installation), DOMAIN modules # {},
         NEW k \in Nat \ {Kernel}, k \notin Range(kernelModules),
         NEW path \in DOMAIN installation.modules, NEW mods2, mods2[k].path = path,
         NEW source, source = installation.modules[path],
         NEW name \in DOMAIN source.classes, NEW s, s = source.classes[name], AllCompile(s),
         s.supername = "Module" \/ Settled(source, kernelModules),
         NEW super, SuperIs(super, installation, kernelModules, k, path, s.supername),
         NEW table, table = WithSymbols(symbolTable, NamesOf(name, s)),
         NEW objs, objs = objects,
         NEW objs2, objs2 = Over(NewClass(table, k, name, s, super), objs),
         NEW new, new = {ClassIn(k, name), Metaclass(ClassIn(k, name))}
  PROVE  MadeRight(objs2, objs, new, installation, mods2, kernelModules)
  <1>1. PICK files, kernels, class, metaclass :
           /\ files = installation /\ kernels = kernelModules
           /\ class = ClassIn(k, name) /\ metaclass = Metaclass(class)
    OBVIOUS
  <1>2. files \in Installations /\ Unambiguous(files)
    BY <1>1 DEF Inv, BootInv, Clear
  <1>3. s \in ClassSpec /\ name \in STRING
    BY <1>1, <1>2, InstallationsAssumption DEF InstallationOK, ModuleSourceOK
  <1>5. PICK names : names = NamesOf(name, s)
    OBVIOUS
  <1>6. names \subseteq STRING \cup {Nil}
    BY <1>3, <1>5, NamesOfClass
  <1>7. HasNames(table, names)
    <2>1. Unique(symbolTable) /\ Universe = symbolTable
      BY Loading
    <2>2. Unique(table) /\ \A n \in names : DynamicSymbol(table, n) \in table
      <3>1. table = WithSymbols(symbolTable, names)
        BY <1>5
      <3>2. PICK old : old = symbolTable
        OBVIOUS
      <3> QED
        BY <2>1, <3>1, <3>2, WithSymbolsOK
    <2>3. symbolTable \subseteq Symbol
      BY <2>1 DEF KnownSymbols
    <2>4. table \subseteq Symbol
      BY <1>5, <1>6, <2>3 DEF WithSymbols, Symbol
    <2> QED
      BY <2>2, <2>4 DEF HasNames
  <1>8. PICK slots, metaslots : /\ slots = ClassSlots(table, class, name, s, super)
                                /\ metaslots = MetaclassSlots(table, metaclass, s, Metaclass(super))
    OBVIOUS
  <1>9. /\ class.side = "class" /\ metaclass.side = "metaclass"
        /\ ClassOf(class).module = k /\ ClassOf(metaclass).module = k
    BY <1>1, <1>3, MadeClassIs
  <1>10. /\ DOMAIN objs2 = new \cup DOMAIN objs
         /\ objs2[class] = slots /\ objs2[metaclass] = metaslots
         /\ \A sp \in DOMAIN objs : sp \notin new => objs2[sp] = objs[sp]
    <2>1. class # metaclass /\ new = {class, metaclass}
      BY <1>1, <1>9
    <2>2. PICK made : made = NewClass(table, k, name, s, super)
      BY SMTT(30)
    <2>3. made = Over(At(class, slots), At(metaclass, metaslots))
      BY <1>1, <1>8, <2>2 DEF NewClass, ClassSlots, MetaclassSlots
    <2>4. DOMAIN made = {class, metaclass} /\ made[class] = slots /\ made[metaclass] = metaslots
      BY <2>1, <2>3 DEF Over, At
    <2>5. objs2 = Over(made, objs)
      BY <2>2
    <2> QED
      BY <2>1, <2>4, <2>5, Zenon DEF Over
  <1>11. ASSUME NEW sp \in new
         PROVE  /\ OfSource(sp, installation, mods2, kernelModules)
                /\ Faithful(objs2[sp], sp, installation, mods2, kernelModules)
    <2>1. sp = class \/ sp = metaclass
      BY <1>1, <1>11
    <2>2. ClassOf(sp).module = k
      BY <1>9, <2>1
    <2>3. ExtendedWith(files, kernels, sp) = {}
      BY <1>1, <1>2, <2>2, NewNotExtended
    <2>4. PICK its : its = objs2[sp]
      BY SMTT(30)
    <2>5. \/ sp = ClassIn(k, name) /\ its = ClassSlots(table, sp, name, s, super)
          \/ sp = Metaclass(ClassIn(k, name)) /\ its = MetaclassSlots(table, sp, s, Metaclass(super))
      BY <1>1, <1>8, <1>10, <2>1, <2>4
    <2>6. /\ path \in DOMAIN files.modules /\ source = files.modules[path]
          /\ s.supername = "Module" \/ Settled(source, kernels)
          /\ SuperIs(super, files, kernels, k, path, s.supername)
          /\ HasNames(table, NamesOf(name, s))
      BY <1>1, <1>5, <1>7
    <2>7. OfSource(sp, files, mods2, kernels) /\ Faithful(its, sp, files, mods2, kernels)
      BY <1>2, <2>3, <2>5, <2>6, ClassFaithful, ZenonT(40)
    <2> QED
      BY <1>1, <2>4, <2>7
  <1> QED
    BY <1>10, <1>11, Zenon DEF MadeRight

(* createClass: the superclass is what the module knows under its name.    *)
LEMMA CreateClassLooks ==
  ASSUME Inv, Inv', LinksInv, LinksInv', CompleteInv, LookInv, createClass
  PROVE  LookInv'
  <1>1. /\ loads # <<>> /\ Top.step = "classes" /\ Top.step \in Unregistered /\ Top.files # <<>>
    BY DEF createClass, Unregistered
  <1>2. PICK top, name : top = Top /\ name = Head(top.files)
    OBVIOUS
  <1>3. /\ {"path", "step", "module", "files", "imports"} \subseteq DOMAIN top
        /\ top.path \in DOMAIN installation.modules
        /\ top.files \in Seq(DOMAIN installation.modules[top.path].classes)
        /\ top.module \in DOMAIN modules \ Registered /\ DOMAIN modules # {}
    BY <1>1, <1>2, TopIs DEF LoadOK
  <1>4. PICK k, path, mods : k = top.module /\ path = top.path /\ mods = modules
    OBVIOUS
  <1>5. PICK source, names : /\ source = installation.modules[path]
                             /\ names = Over(At(name, ClassIn(k, name)), mods[k].namespace)
    OBVIOUS
  <1>6. PICK l, s : l = Replacing(top, "files", Tail(top.files)) /\ s = source.classes[name]
    OBVIOUS
  <1>7. PICK mods2 : mods2 = Replacing(mods, k, Replacing(mods[k], "namespace", names))
    OBVIOUS
  <1>8. PICK super, table : /\ super = NamespaceAt(k, s.supername)
                            /\ table = WithSymbols(symbolTable, NamesOf(name, s))
    BY SMTT(30)
  <1>9. \/ Stop("KeyNotFound") \/ Stop("MessageNotUnderstood")
        \/ Fail
        \/ /\ super # Nil /\ IsClass(super) /\ AllCompile(s)
           /\ symbolTable' = table
           /\ objects' = Over(NewClass(table, k, name, s, super), objects)
           /\ modules' = mods2 /\ loads' = Append(Pop, l)
           /\ UNCHANGED <<installation, phase, spec, todo, namespace, symbols, provider,
                          newMd, loadedModules, kernelModules, stopped>>
    BY <1>2, <1>4, <1>5, <1>6, <1>7, <1>8, Zenon DEF createClass, Replacing, Source
  <1>10. CASE Stop("KeyNotFound") \/ Stop("MessageNotUnderstood")
    BY <1>1, <1>10, StopLooks
  <1>11. CASE Fail
    BY <1>1, <1>2, <1>3, <1>11, FailLooks
  <1>12. CASE /\ super # Nil /\ IsClass(super) /\ AllCompile(s)
              /\ symbolTable' = table
              /\ objects' = Over(NewClass(table, k, name, s, super), objects)
              /\ modules' = mods2 /\ loads' = Append(Pop, l)
              /\ UNCHANGED <<installation, phase, spec, todo, namespace, symbols, provider,
                             newMd, loadedModules, kernelModules, stopped>>
    <2>1. phase = "done" /\ KnownSymbols
      BY <1>1, Loading DEF LookInv
    <2>2. l.step # "register"
      BY <1>1, <1>2, <1>3, <1>6 DEF Replacing
    <2>3. Waiting(loads')
      BY <1>1, <1>12, <2>2, OneWaiting
    <2>4. name \in DOMAIN source.classes
      <3>1. PICK files : files = top.files
        OBVIOUS
      <3>2. files \in Seq(DOMAIN source.classes) /\ files # <<>>
        BY <1>1, <1>2, <1>3, <1>4, <1>5, <3>1
      <3> QED
        BY <1>2, <3>1, <3>2
    <2>5. k \in DOMAIN mods /\ {"path", "namespace"} \subseteq DOMAIN mods[k]
      BY <1>3, <1>4 DEF LinksInv, ModuleInv, ModulesLinked, NamesLinked
    <2>6. PICK module, new : module = mods[k] /\ new = mods2[k]
      OBVIOUS
    <2>7. /\ new.path = module.path /\ new.namespace = names /\ DOMAIN mods2 = DOMAIN mods
          /\ \A x \in DOMAIN mods : x # k => mods2[x] = mods[x]
      <3>1. PICK changed : changed = Replacing(module, "namespace", names)
        OBVIOUS
      <3>2. changed.path = module.path /\ changed.namespace = names
        BY <2>5, <2>6, <3>1 DEF Replacing
      <3> QED
        BY <1>7, <2>5, <2>6, <3>1, <3>2, ReplacingOne
    <2>8. PICK above : above = s.supername
      OBVIOUS
    <2>9. above \in DOMAIN module.namespace /\ super = module.namespace[above] /\ k # Kernel
      <3>1. k # Kernel
        BY <1>3, <1>4 DEF Registered
      <3> QED
        BY <1>4, <1>8, <1>12, <2>6, <2>8, <3>1 DEF NamespaceAt
    <2>10. ASSUME Clear(installation) PROVE DictionariesInv' /\ SourcesInv'
      <3>1. DictionariesInv /\ SourcesInv
        BY <2>10 DEF LookInv
      <3>2. /\ path \in DOMAIN installation.modules /\ module.path = path
            /\ KnowsNames(module, k, installation) /\ k \in Nat \ {Kernel}
            /\ k \notin Range(kernelModules) /\ k \notin Registered
        BY <1>1, <1>2, <1>4, <2>6, <2>10, <3>1, TopModule
      <3>3. installation \in Installations /\ Unambiguous(installation)
        BY <2>10 DEF Inv, BootInv, Clear
      <3>4. PICK rest : rest = Range(top.files)
        OBVIOUS
      <3>5. AsFar(module, k, source, kernelModules, Len(source.imports), rest)
        BY <1>1, <1>2, <1>4, <1>5, <2>6, <3>3, <3>4, StackAsFar DEF LoadAsFar
      <3>6. Settled(source, kernelModules) /\ SettledAt(installation, path, kernelModules)
        BY <1>5, <3>2, <3>3, <3>5, ReadSettled
      <3>7. super = MeantIn(installation, kernelModules, k, path, above) /\ above \in STRING
        <4>1. PICK files, kernels : files = installation /\ kernels = kernelModules
          OBVIOUS
        <4>2. PICK known : known = module.namespace
          OBVIOUS
        <4>3. /\ files \in Installations /\ path \in DOMAIN files.modules
              /\ KnowsNames(module, k, files)
              /\ AllRead(module, k, files, path, kernels, rest) /\ above \in DOMAIN known
          BY <1>5, <2>9, <3>2, <3>3, <3>5, <4>1, <4>2 DEF AllRead
        <4>4. known[above] = MeantIn(files, kernels, k, path, above) /\ above \in STRING
          BY <3>2, <4>2, <4>3, Means
        <4> QED
          BY <2>9, <4>1, <4>2, <4>4
      <3>8. SuperIs(super, installation, kernelModules, k, path, above)
        <4>1. super.side = "class" /\ super.name = above
          BY <3>6, <3>7, WhereMeant
        <4>2. super \in DOMAIN objects
          BY <1>3, <1>4, <1>12, <2>6, <2>9 DEF LinksInv, ModuleInv, ModulesLinked, NamesLinked
        <4>3. OfSource(super, installation, mods, kernelModules)
          BY <1>4, <3>1, <4>2 DEF SourcesInv
        <4>4. super \in Species
          BY <4>3 DEF OfSource
        <4>5. ASSUME above = "Module" PROVE super = Class(above)
          <5>1. "Module" \in DOMAIN installation.kernel
            BY <3>2 DEF KnowsNames
          <5>2. super.module = Kernel
            <6>1. SUFFICES ASSUME super.module # Kernel PROVE FALSE
              OBVIOUS
            <6>2. PICK p : p = mods[super.module].path
              OBVIOUS
            <6>3. p \in DOMAIN installation.modules
              BY <1>4, <3>1, <4>2, <6>1, <6>2, SpeciesModule
            <6>4. super.name \in DOMAIN installation.modules[p].classes
              BY <4>3, <6>1, <6>2 DEF OfSource
            <6>5. DOMAIN installation.modules[p].classes \cap DOMAIN installation.kernel = {}
              BY <2>10, <6>3 DEF Clear, OwnNames
            <6> QED
              BY <4>1, <4>5, <5>1, <6>4, <6>5
          <5>3. super = ClassIn(super.module, above)
            BY <3>6, <3>7, WhereMeant
          <5> QED
            BY <5>2, <5>3 DEF ClassIn, Class, Kernel
        <4> QED
          BY <3>7, <4>1, <4>4, <4>5 DEF SuperIs
      <3>9. PICK objs, objs2, both : /\ objs = objects /\ objs2 = objects'
                                     /\ both = {ClassIn(k, name), Metaclass(ClassIn(k, name))}
        OBVIOUS
      <3>10. objs2 = Over(NewClass(table, k, name, s, super), objs)
        BY <1>12, <3>9
      <3>11. MadeRight(objs2, objs, both, installation, mods2, kernelModules)
        <4>1. /\ mods2[k].path = path /\ AllCompile(s) /\ DOMAIN modules # {}
              /\ SuperIs(super, installation, kernelModules, k, path, s.supername)
          BY <1>3, <1>12, <2>6, <2>7, <2>8, <3>2, <3>8
        <4>2. phase = "done" /\ KnownSymbols /\ Clear(installation)
          BY <2>1, <2>10
        <4>3. /\ k \in Nat \ {Kernel} /\ k \notin Range(kernelModules)
              /\ path \in DOMAIN installation.modules
          BY <3>2
        <4>4. /\ source = installation.modules[path]
              /\ name \in DOMAIN source.classes /\ s = source.classes[name]
              /\ table = WithSymbols(symbolTable, NamesOf(name, s))
          BY <1>5, <1>6, <1>8, <2>4
        <4>5. s.supername = "Module" \/ Settled(source, kernelModules)
          BY <3>6
        <4>6. /\ objs = objects /\ objs2 = Over(NewClass(table, k, name, s, super), objs)
              /\ both = {ClassIn(k, name), Metaclass(ClassIn(k, name))}
          BY <3>9, <3>10
        <4> QED
          BY <4>1, <4>2, <4>3, <4>4, <4>5, <4>6, ClassIsMade, SMTT(30)
      <3>12. KnowsNames(new, k, installation)
        <4>1. PICK value : value = ClassIn(k, name)
          OBVIOUS
        <4>2. /\ new.namespace = Over(At(name, value), module.namespace)
              /\ source = installation.modules[module.path]
          BY <1>5, <2>6, <2>7, <3>2, <4>1
        <4> QED
          BY <2>4, <2>7, <3>2, <4>1, <4>2, KnowsOneMore
      <3>13. Registered' = Registered
        BY <1>12 DEF Registered, Range
      <3>14. OnlyChanges(k, both)
        BY <1>4, <1>12, <2>3, <2>6, <2>7, <3>2, <3>9, <3>11, <3>12, <3>13 DEF OnlyChanges, Waiting, MadeRight
      <3>15. DictionariesInv' /\ SourcesInv'
        BY <1>12, <2>1, <3>1, <3>14, OthersFaithful
      <3> QED
        BY <3>15
    <2>11. KnownSymbols'
      <3>1. s \in ClassSpec /\ name \in STRING
        BY <1>3, <1>4, <1>5, <1>6, <2>4, InstallationsAssumption
           DEF Inv, BootInv, InstallationOK, ModuleSourceOK
      <3>2. MoreNames(NamesOf(name, s))
        BY <1>8, <1>12, <3>1, NamesOfClass DEF MoreNames
      <3> QED
        BY <1>12, <2>1, <3>2, MoreNamesKnown
    <2> QED
      BY <1>12, <2>10, <2>11, LooksOn
  <1> QED
    BY <1>9, <1>10, <1>11, <1>12
-----------------------------------------------------------------------------
(* The superclass of a module class, which is not of the directory, is     *)
(* Module when Module is reached from there.                               *)
UpNamed(specs, name) == IF name \in DOMAIN specs THEN specs[name].supername ELSE Nil
NameStep(c, chain, i) ==
    IF UpNamed(c.specs, Last(chain)) = Nil THEN chain
    ELSE Append(chain, UpNamed(c.specs, Last(chain)))
NamesAbove(specs, name) ==
    LET up(c) == UpNamed(specs, c) IN Upwards(name, up, Cardinality(DOMAIN specs))
OneUp(c, chain) == chain = <<c.name>> \/ (chain = Append(<<c.name>>, c.above) /\ c.above # Nil)
NamesUp == INSTANCE FoldInduction WITH step <- NameStep, Holds <- OneUp

(* A class whose superclass is of no file reaches Module at once or not    *)
(* at all.                                                                 *)
LEMMA ReachesAtOnce ==
  ASSUME NEW specs, IsFiniteSet(DOMAIN specs), NEW name \in DOMAIN specs,
         NEW above, above = specs[name].supername, above \notin DOMAIN specs,
         ReachesModule(specs, name)
  PROVE  above = "Module"
  <1>1. PICK c : c = [specs |-> specs, name |-> name, above |-> above]
    OBVIOUS
  <1>2. c.specs = specs /\ c.name = name /\ c.above = above
    BY <1>1
  <1>3. PICK numbers, chain : /\ numbers = [i \in 1 .. Cardinality(DOMAIN specs) |-> i]
                              /\ chain = NamesUp!Loop(c, <<name>>, numbers)
    OBVIOUS
  <1>4. Len(numbers) \in Nat
    <2>1. Cardinality(DOMAIN specs) \in Nat
      BY FS_CardinalityType
    <2>2. numbers \in Seq(Nat)
      BY <1>3, <2>1
    <2> QED
      BY <2>2
  <1>5. "Module" \in Range(Tail(chain))
    <2>1. "Module" \in Range(Tail(NamesAbove(specs, name)))
      BY DEF ReachesModule, NamesAbove, UpNamed
    <2>2. NamesAbove(specs, name) = chain
      BY <1>2, <1>3 DEF NamesAbove, Upwards, NameStep, NamesUp!Loop, Folded, NamesUp!Folded
    <2> QED
      BY <2>1, <2>2
  <1>6. OneUp(c, <<name>>)
    BY <1>2 DEF OneUp
  <1>7. ASSUME NEW u, NEW i, OneUp(c, u) PROVE OneUp(c, NameStep(c, u, i))
    <2>1. CASE u = <<name>>
      <3>1. Last(u) = name /\ UpNamed(c.specs, Last(u)) = above
        BY <1>2, <2>1 DEF Last, UpNamed
      <3> QED
        BY <1>2, <2>1, <3>1 DEF NameStep, OneUp
    <2>2. CASE u = Append(<<name>>, above) /\ above # Nil
      <3>1. Last(u) = above /\ UpNamed(c.specs, Last(u)) = Nil
        BY <1>2, <2>2 DEF Last, UpNamed
      <3> QED
        BY <1>7, <3>1 DEF NameStep
    <2> QED
      BY <1>2, <1>7, <2>1, <2>2 DEF OneUp
  <1>8. OneUp(c, chain)
    BY <1>3, <1>4, <1>6, <1>7, NamesUp!LoopMaintains
  <1>9. CASE chain = <<name>>
    <2>1. PICK rest : rest = Tail(chain)
      OBVIOUS
    <2>2. rest = <<>>
      BY <1>9, <2>1
    <2>3. DOMAIN rest = {}
      BY <2>2
    <2> QED
      BY <1>5, <2>1, <2>3 DEF Range
  <1>10. CASE chain = Append(<<name>>, above)
    <2>1. chain \in Seq({name, above}) /\ Len(chain) = 2 /\ chain[2] = above
      BY <1>10
    <2>2. PICK rest : rest = Tail(chain)
      OBVIOUS
    <2>3. rest \in Seq({name, above}) /\ Len(rest) = 1 /\ rest[1] = above
      BY <2>1, <2>2
    <2>4. \A i \in DOMAIN rest : rest[i] = above
      BY <2>3
    <2> QED
      BY <1>5, <2>2, <2>4 DEF Range
  <1> QED
    BY <1>2, <1>8, <1>9, <1>10 DEF OneUp

(* The module class is one of the files, and reaches Module.               *)
LEMMA ModuleClassReaches ==
  ASSUME NEW specs, IsFiniteSet(DOMAIN specs), NEW files \in Orders(DOMAIN specs),
         NEW name, name = ModuleClassName(specs, files), name # Nil
  PROVE  name \in DOMAIN specs /\ ReachesModule(specs, name)
  <1>1. PICK n, names : n = Cardinality(DOMAIN specs) /\ names = DOMAIN specs
    OBVIOUS
  <1>2. n \in Nat
    BY <1>1, FS_CardinalityType
  <1>3. files \in [1 .. n -> names]
    BY <1>1 DEF Orders
  <1>4. PICK found : found = {i \in DOMAIN files : ReachesModule(specs, files[i])}
    OBVIOUS
  <1>5. found \subseteq 1 .. n /\ found \subseteq Nat
    BY <1>2, <1>3, <1>4
  <1>6. found # {} /\ name = files[Min(found)]
    BY <1>4 DEF ModuleClassName
  <1>7. Min(found) \in found
    BY <1>5, <1>6, MinIn
  <1> QED
    BY <1>1, <1>3, <1>4, <1>5, <1>6, <1>7

(* What the kernel has under the name of a class is that class.            *)
LEMMA KernelNameIs ==
  ASSUME LinksInv, CompleteInv, SourcesInv, phase = "done", Kernel \in DOMAIN modules,
         NEW n, NEW value, value = NamespaceAt(Kernel, n), value # Nil,
         IsClass(value) \/ n \notin {"WordSize", "Kernel"}
  PROVE  /\ value \in Species /\ value.side = "class" /\ value.module = Kernel
         /\ value.name \in DOMAIN installation.kernel
         /\ n \notin {"WordSize", "Kernel"} => value = Class(n) /\ value.name = n
  <1>1. KernelNamed(namespace) /\ DOMAIN namespace \subseteq Nat
    BY DEF LinksInv, KernelNames, CompleteInv
  <1>2. n \notin {"WordSize", "Kernel"} => value = ClassIn(Kernel, n)
    BY <1>1, KernelMeans
  <1>3. n \notin {"WordSize", "Kernel"} => value = Class(n) /\ value.name = n /\ value.side = "class"
    BY <1>2 DEF ClassIn, Class, Kernel
  <1>4. IsClass(value) /\ value.side = "class"
    BY <1>3 DEF IsClass
  <1>5. value \in DOMAIN objects /\ value.module = Kernel
    BY <1>4, NamespaceLinks
  <1>6. OfSource(value, installation, modules, kernelModules)
    BY <1>5 DEF SourcesInv
  <1> QED
    BY <1>3, <1>4, <1>5, <1>6 DEF OfSource

(* A symbol that the table has is the symbol of its name.                  *)
LEMMA SymbolIs ==
  ASSUME NEW table, Unique(table), NEW s \in table, NEW n, n = s.name
  PROVE  DynamicSymbol(table, n) = s
  <1>1. ExistingSymbols(table, n) # {}
    BY DEF ExistingSymbols
  <1>2. WithSymbols(table, {n}) = table
    BY <1>1 DEF WithSymbols
  <1>3. PICK t : t = DynamicSymbol(table, n)
    OBVIOUS
  <1>4. t = CHOOSE x \in table : x.name = n
    BY <1>2, <1>3 DEF DynamicSymbol
  <1>5. t \in table /\ t.name = n
    BY <1>4
  <1> QED
    BY <1>3, <1>5 DEF Unique

(* The kernel has every class of its sources.                              *)
LEMMA KernelKnows ==
  ASSUME Inv, LinksInv, CompleteInv, KnownSymbols, SpecsMerged, phase = "done",
         NEW n \in DOMAIN installation.kernel, n \notin {"WordSize", "Kernel"}
  PROVE  NamespaceAt(Kernel, n) # Nil
  <1>1. n \in DOMAIN symbols /\ HasEntry(namespace, symbols[n])
    BY DEF SpecsMerged
  <1>2. PICK s, table : s = symbols[n] /\ table = namespace
    OBVIOUS
  <1>3. s \in symbolTable /\ s.name = n
    <2>1. Range(symbols) \subseteq symbolTable /\ s.name = n
      BY <1>1, <1>2 DEF KnownSymbols, Inv, BootInv, SymbolInv
    <2> QED
      BY <1>1, <1>2, <2>1 DEF Range
  <1>4. DynamicSymbol(symbolTable, n) = s
    <2>1. PICK known : known = symbolTable
      OBVIOUS
    <2>2. Unique(known)
      BY <2>1, Loading
    <2> QED
      BY <1>3, <2>1, <2>2, SymbolIs
  <1>5. PICK found : found = {i \in DOMAIN table : table[i] # Nil /\ table[i].key = s}
    OBVIOUS
  <1>6. found # {} /\ found \subseteq DOMAIN table
    BY <1>1, <1>2, <1>5 DEF HasEntry
  <1>7. DOMAIN table \subseteq Nat /\ KernelNamed(table)
    BY <1>2 DEF LinksInv, KernelNames, CompleteInv
  <1>8. PICK i : i = Min(found)
    OBVIOUS
  <1>9. i \in found
    <2>1. found \subseteq Nat
      BY <1>6, <1>7
    <2> QED
      BY <1>6, <1>8, <2>1, MinIn
  <1>10. table[i] # Nil /\ table[i].key.name = n /\ i \in DOMAIN table
    BY <1>3, <1>5, <1>9
  <1>11. table[i].value = Class(n)
    BY <1>7, <1>10 DEF KernelNamed
  <1>12. lookupAssociationFor(s, table) = table[i]
    BY <1>5, <1>6, <1>8 DEF lookupAssociationFor
  <1>13. NamespaceAt(Kernel, n) = Class(n)
    <2>1. lookupAssociationFor(DynamicSymbol(symbolTable, n), namespace) = table[i]
      BY <1>2, <1>4, <1>12
    <2> QED
      BY <1>10, <1>11, <2>1 DEF NamespaceAt
  <1>14. n \in STRING
    BY InstallationsAssumption DEF Inv, BootInv, InstallationOK
  <1>15. Class(n) # Nil
    BY <1>14, KernelClassIs
  <1> QED
    BY <1>13, <1>15

(* What a new module knows.                                                *)
LEMMA NewKnowsNames ==
  ASSUME Inv, LinksInv, CompleteInv, LookInv, SourcesInv, Clear(installation), phase = "done",
         Kernel \in DOMAIN modules, "Module" \in DOMAIN installation.kernel,
         NEW path \in DOMAIN installation.modules,
         NEW name \in DOMAIN installation.modules[path].classes,
         NEW k, NEW new, new.path = path,
         NEW exports, exports = bindKernelExports,
         new.namespace = Over(At(name, ClassIn(k, name)), exports)
  PROVE  KnowsNames(new, k, installation)
  <1>1. PICK source, names : source = installation.modules[path] /\ names = new.namespace
    OBVIOUS
  <1>2. DOMAIN source.classes \cap DOMAIN installation.kernel = {}
    BY <1>1 DEF Clear, OwnNames
  <1>3. /\ \A n \in DOMAIN exports : /\ n \in KernelExports /\ NamespaceAt(Kernel, n) # Nil
                                     /\ exports[n] = NamespaceAt(Kernel, n)
        /\ \A n \in KernelExports : NamespaceAt(Kernel, n) # Nil => n \in DOMAIN exports
    BY DEF bindKernelExports
  <1>4. ASSUME NEW n \in KernelExports PROVE n \notin {"WordSize", "Kernel"}
    BY DEF KernelExports
  <1>5. ASSUME NEW n \in DOMAIN exports
        PROVE  exports[n] = Class(n) /\ n \in DOMAIN installation.kernel
    <2>1. PICK value : value = NamespaceAt(Kernel, n)
      OBVIOUS
    <2>2. value # Nil /\ exports[n] = value /\ n \notin {"WordSize", "Kernel"}
      BY <1>3, <1>4, <1>5, <2>1
    <2>3. value = Class(n) /\ value.name = n /\ value.name \in DOMAIN installation.kernel
      BY <2>1, <2>2, KernelNameIs
    <2> QED
      BY <2>2, <2>3
  <1>6. /\ DOMAIN names = {name} \cup DOMAIN exports /\ names[name] = ClassIn(k, name)
        /\ \A n \in DOMAIN exports : n # name => names[n] = exports[n]
    BY <1>1 DEF Over, At
  <1>7. ASSUME NEW n \in KernelExports \ (DOMAIN source.classes \cup Imported(source))
        PROVE  /\ n \in DOMAIN installation.kernel => n \in DOMAIN names
               /\ n \in DOMAIN names => names[n] = Class(n)
    <2>1. n # name /\ n \notin {"WordSize", "Kernel"} /\ n \in KernelExports
      BY <1>1, <1>4, <1>7
    <2>2. n \in DOMAIN installation.kernel => n \in DOMAIN names
      <3>1. SpecsMerged /\ KnownSymbols
        BY DEF LookInv
      <3>2. n \in DOMAIN installation.kernel => NamespaceAt(Kernel, n) # Nil
        BY <2>1, <3>1, KernelKnows
      <3> QED
        BY <1>3, <1>6, <2>1, <3>2
    <2>3. n \in DOMAIN names => names[n] = Class(n)
      BY <1>5, <1>6, <2>1
    <2> QED
      BY <2>2, <2>3
  <1>8. ASSUME NEW n \in DOMAIN source.classes \cap DOMAIN names
        PROVE  names[n] = ClassIn(k, n)
    BY <1>2, <1>5, <1>6, <1>8
  <1> QED
    BY <1>1, <1>7, <1>8 DEF KnowsNames

(* The superclass of the class that a module begins with is Module.        *)
LEMMA ModuleClassIsBelowModule ==
  ASSUME Inv, LinksInv, CompleteInv, SourcesInv, Clear(installation), phase = "done",
         Kernel \in DOMAIN modules,
         NEW path \in DOMAIN installation.modules,
         NEW specs, specs = installation.modules[path].classes, IsFiniteSet(DOMAIN specs),
         NEW name \in DOMAIN specs, ReachesModule(specs, name),
         NEW above, above = specs[name].supername,
         NEW super, super = NamespaceAt(Kernel, above), super # Nil, IsClass(super)
  PROVE  /\ above = "Module" /\ "Module" \in DOMAIN installation.kernel
         /\ \A k : SuperIs(super, installation, kernelModules, k, path, above)
  <1>1. /\ super \in Species /\ super.side = "class" /\ super.name \in DOMAIN installation.kernel
        /\ above \notin {"WordSize", "Kernel"} => super = Class(above) /\ super.name = above
    BY KernelNameIs
  <1>2. DOMAIN specs \cap (DOMAIN installation.kernel \cup {"WordSize", "Kernel"}) = {}
    BY DEF Clear, OwnNames
  <1>3. above \notin DOMAIN specs
    BY <1>1, <1>2
  <1>4. above = "Module"
    BY <1>3, ReachesAtOnce
  <1>5. super = Class(above) /\ above \in DOMAIN installation.kernel
    BY <1>1, <1>4
  <1>6. above \in STRING
    BY <1>5, InstallationsAssumption DEF Inv, BootInv, InstallationOK
  <1> QED
    BY <1>1, <1>4, <1>5, <1>6 DEF SuperIs

(* createModule: the module begins with a class below Module and what the  *)
(* kernel exports.                                                         *)
LEMMA CreateModuleLooks ==
  ASSUME Inv, Inv', LinksInv, LinksInv', CompleteInv, LookInv, loads # <<>>,
         NEW order \in Orders(DOMAIN Source.classes), createModule(order)
  PROVE  LookInv'
  <1>1. loads # <<>> /\ Top.step = "create" /\ Top.path \in DOMAIN installation.modules
    BY Zenon DEF createModule
  <1>2. PICK top, k : top = Top /\ k = NewModule
    OBVIOUS
  <1>3. /\ {"path", "step", "module", "files", "imports"} \subseteq DOMAIN top
        /\ top.module = Nil /\ DOMAIN modules # {}
    BY <1>1, <1>2, TopIs DEF LoadOK
  <1>4. /\ DOMAIN modules \subseteq Nat /\ IsFiniteSet(DOMAIN modules) /\ Kernel \in DOMAIN modules
        /\ Registered \subseteq DOMAIN modules /\ Range(kernelModules) \subseteq DOMAIN modules
    BY <1>3 DEF Inv, LoaderInv, Registered, LinksInv, ModuleInv
  <1>5. k \in Nat \ DOMAIN modules /\ k # Kernel
    <2>1. PICK D : D = DOMAIN modules
      OBVIOUS
    <2> QED
      BY <1>2, <1>4, <2>1, NewModuleIs DEF NewModule, Kernel
  <1>6. PICK path, source, specs : /\ path = top.path /\ source = installation.modules[path]
                                   /\ specs = source.classes
    OBVIOUS
  <1>7. IsFiniteSet(DOMAIN specs) /\ path \in DOMAIN installation.modules
    BY <1>1, <1>2, <1>6, SourceIs
  <1>8. Source = source /\ Source.classes = specs /\ order \in Orders(DOMAIN specs)
    BY <1>2, <1>6 DEF Source
  <1>9. PICK name : name = ModuleClassName(specs, order)
    OBVIOUS
  <1>10. PICK s, exports : s = specs[name] /\ exports = bindKernelExports
    OBVIOUS
  <1>11. PICK super, table : /\ super = NamespaceAt(Kernel, s.supername)
                             /\ table = WithSymbols(symbolTable, NamesOf(name, s))
    OBVIOUS
  <1>12. PICK names : names = Over(At(name, ClassIn(k, name)), exports)
    OBVIOUS
  <1>13. PICK new : new = [path |-> top.path, namespace |-> names,
                           extensions |-> <<>>, overriden |-> <<>>]
    OBVIOUS
  <1>14. PICK l : l = [top EXCEPT !.step = "import", !.module = k,
                                  !.files = Without(name, order), !.imports = source.imports]
    OBVIOUS
  <1>15. \/ Fail
         \/ Stop("no Module subclass") \/ Stop("KeyNotFound") \/ Stop("MessageNotUnderstood")
         \/ /\ name # Nil /\ super # Nil /\ IsClass(super) /\ AllCompile(s)
            /\ Created(name, k, super, table, order)
    <2>1. \E n \in {ModuleClassName(Source.classes, order)} :
             \/ Fail
             \/ Stop("no Module subclass")
             \/ /\ n # Nil
                /\ \E above \in {NamespaceAt(Kernel, Source.classes[n].supername)},
                      known \in {WithSymbols(symbolTable, NamesOf(n, Source.classes[n]))} :
                     \/ Stop("KeyNotFound") \/ Stop("MessageNotUnderstood")
                     \/ Fail
                     \/ /\ above # Nil /\ IsClass(above) /\ AllCompile(Source.classes[n])
                        /\ Created(n, NewModule, above, known, order)
      BY ZenonT(40) DEF createModule, Created
    <2>2. Source.classes = specs /\ NewModule = k
      BY <1>2, <1>8
    <2>3. \E n \in {name} :
             \/ Fail
             \/ Stop("no Module subclass")
             \/ /\ n # Nil
                /\ \E above \in {NamespaceAt(Kernel, specs[n].supername)},
                      known \in {WithSymbols(symbolTable, NamesOf(n, specs[n]))} :
                     \/ Stop("KeyNotFound") \/ Stop("MessageNotUnderstood")
                     \/ Fail
                     \/ /\ above # Nil /\ IsClass(above) /\ AllCompile(specs[n])
                        /\ Created(n, k, above, known, order)
      BY <1>9, <2>1, <2>2, Zenon
    <2>4. \/ Fail
          \/ Stop("no Module subclass") \/ Stop("KeyNotFound") \/ Stop("MessageNotUnderstood")
          \/ /\ name # Nil
             /\ \E above \in {super}, known \in {table} :
                   above # Nil /\ IsClass(above) /\ AllCompile(s) /\ Created(name, k, above, known, order)
      BY <1>10, <1>11, <2>3, Zenon
    <2> QED
      BY <2>4, Zenon
  <1>16. CASE Fail
    BY <1>1, <1>2, <1>3, <1>4, <1>16, FailLooks, NilAssumption
  <1>17. CASE Stop("no Module subclass") \/ Stop("KeyNotFound") \/ Stop("MessageNotUnderstood")
    BY <1>1, <1>17, StopLooks, Zenon
  <1>18. CASE /\ name # Nil /\ super # Nil /\ IsClass(super) /\ AllCompile(s)
              /\ Created(name, k, super, table, order)
    <2>1. PICK mods, mods2 : mods = modules /\ mods2 = Over(mods, At(k, new))
      OBVIOUS
    <2>2. /\ symbolTable' = table
          /\ objects' = Over(NewClass(table, k, name, s, super), objects)
          /\ modules' = mods2 /\ loads' = Append(Pop, l)
          /\ UNCHANGED <<installation, phase, spec, todo, namespace, symbols, provider,
                         newMd, loadedModules, kernelModules>>
      BY <1>2, <1>8, <1>10, <1>12, <1>13, <1>14, <1>18, <2>1 DEF Created
    <2>3. phase = "done" /\ KnownSymbols
      BY <1>1, Loading DEF LookInv
    <2>4. name \in DOMAIN specs /\ ReachesModule(specs, name)
      BY <1>7, <1>8, <1>9, <1>18, ModuleClassReaches
    <2>5. l.step # "register"
      BY <1>3, <1>14
    <2>6. Waiting(loads')
      BY <1>1, <2>2, <2>5, OneWaiting
    <2>7. /\ mods2[k] = new /\ DOMAIN mods2 = DOMAIN mods \cup {k}
          /\ \A x \in DOMAIN mods : x # k => mods2[x] = mods[x]
      BY <1>5, <2>1 DEF Over, At
    <2>8. new.path = path /\ new.namespace = names
      BY <1>6, <1>13
    <2>9. k \notin Registered /\ k \notin Range(kernelModules) /\ k \in Nat \ {Kernel}
      BY <1>4, <1>5
    <2>10. PICK above : above = s.supername
      OBVIOUS
    <2>11. ASSUME Clear(installation) PROVE DictionariesInv' /\ SourcesInv'
      <3>1. DictionariesInv /\ SourcesInv
        BY <2>11 DEF LookInv
      <3>2. /\ above = "Module" /\ "Module" \in DOMAIN installation.kernel
            /\ SuperIs(super, installation, kernelModules, k, path, above)
        <4>1. /\ specs = installation.modules[path].classes /\ above = specs[name].supername
              /\ super = NamespaceAt(Kernel, above) /\ super # Nil /\ IsClass(super)
          BY <1>6, <1>10, <1>11, <1>18, <2>10
        <4> QED
          BY <1>4, <1>7, <2>3, <2>4, <2>11, <3>1, <4>1, ModuleClassIsBelowModule
      <3>3. PICK objs, objs2, both : /\ objs = objects /\ objs2 = objects'
                                     /\ both = {ClassIn(k, name), Metaclass(ClassIn(k, name))}
        OBVIOUS
      <3>4. objs2 = Over(NewClass(table, k, name, s, super), objs)
        BY <2>2, <3>3
      <3>5. MadeRight(objs2, objs, both, installation, mods2, kernelModules)
        <4>1. /\ mods2[k].path = path /\ name \in DOMAIN source.classes /\ s = source.classes[name]
              /\ s.supername = "Module" \/ Settled(source, kernelModules)
              /\ SuperIs(super, installation, kernelModules, k, path, s.supername)
              /\ AllCompile(s) /\ DOMAIN modules # {} /\ table = WithSymbols(symbolTable, NamesOf(name, s))
          BY <1>3, <1>6, <1>10, <1>11, <1>18, <2>4, <2>7, <2>8, <2>10, <3>2
        <4>2. phase = "done" /\ KnownSymbols /\ Clear(installation)
          BY <2>3, <2>11
        <4>3. /\ k \in Nat \ {Kernel} /\ k \notin Range(kernelModules)
              /\ path \in DOMAIN installation.modules /\ source = installation.modules[path]
          BY <1>6, <1>7, <2>9
        <4>4. /\ objs = objects /\ objs2 = Over(NewClass(table, k, name, s, super), objs)
              /\ both = {ClassIn(k, name), Metaclass(ClassIn(k, name))}
          BY <3>3, <3>4
        <4> QED
          BY <4>1, <4>2, <4>3, <4>4, ClassIsMade, ZenonT(40)
      <3>6. KnowsNames(new, k, installation)
        <4>1. name \in DOMAIN installation.modules[path].classes
          BY <1>6, <2>4
        <4>2. new.namespace = Over(At(name, ClassIn(k, name)), exports)
          BY <1>12, <2>8
        <4> QED
          BY <1>4, <1>7, <1>10, <2>3, <2>8, <2>11, <3>1, <3>2, <4>1, <4>2, NewKnowsNames
      <3>7. Registered' = Registered
        BY <2>2 DEF Registered, Range
      <3>8. OnlyChanges(k, both)
        BY <1>5, <2>1, <2>2, <2>6, <2>7, <2>9, <3>3, <3>5, <3>6, <3>7 DEF OnlyChanges, Waiting, MadeRight
      <3>9. DictionariesInv' /\ SourcesInv'
        BY <2>2, <2>3, <3>1, <3>8, OthersFaithful
      <3> QED
        BY <3>9
    <2>12. KnownSymbols'
      <3>1. s \in ClassSpec /\ name \in STRING
        BY <1>6, <1>7, <1>10, <2>4, InstallationsAssumption
           DEF Inv, BootInv, InstallationOK, ModuleSourceOK
      <3>2. MoreNames(NamesOf(name, s))
        BY <1>11, <2>2, <3>1, NamesOfClass DEF MoreNames
      <3> QED
        BY <2>2, <2>3, <3>2, MoreNamesKnown
    <2> QED
      BY <2>2, <2>11, <2>12, LooksOn
  <1> QED
    BY <1>15, <1>16, <1>17, <1>18, Zenon
-----------------------------------------------------------------------------
(* Extensions.  What a concatenation is made of.                           *)
LEMMA ElementsTogether ==
  ASSUME NEW s, IsSeq(s), NEW t, IsSeq(t), NEW u, u = s \o t
  PROVE  IsSeq(u) /\ PairsOf(u) = PairsOf(s) \cup PairsOf(t)
  <1>1. /\ IsSeq(u) /\ Len(u) = Len(s) + Len(t)
        /\ \A i \in 1 .. Len(s) + Len(t) : u[i] = IF i <= Len(s) THEN s[i] ELSE t[i - Len(s)]
    BY ConcatIs
  <1>2. Len(s) \in Nat /\ Len(t) \in Nat
    BY DEF IsSeq
  <1>3. ASSUME NEW i \in 1 .. Len(u) PROVE u[i] \in PairsOf(s) \cup PairsOf(t)
    <2>1. CASE i <= Len(s)
      <3>1. i \in 1 .. Len(s) /\ u[i] = s[i]
        BY <1>1, <1>2, <2>1
      <3> QED
        BY <3>1 DEF PairsOf
    <2>2. CASE ~(i <= Len(s))
      <3>1. i - Len(s) \in 1 .. Len(t) /\ u[i] = t[i - Len(s)]
        BY <1>1, <1>2, <2>2
      <3> QED
        BY <3>1 DEF PairsOf
    <2> QED
      BY <2>1, <2>2
  <1>4. ASSUME NEW i \in 1 .. Len(s) PROVE s[i] \in PairsOf(u)
    <2>1. i \in 1 .. Len(u) /\ u[i] = s[i]
      BY <1>1, <1>2
    <2> QED
      BY <2>1 DEF PairsOf
  <1>5. ASSUME NEW i \in 1 .. Len(t) PROVE t[i] \in PairsOf(u)
    <2>1. PICK j : j = Len(s) + i
      OBVIOUS
    <2>2. j \in 1 .. Len(u) /\ u[j] = t[j - Len(s)] /\ j - Len(s) = i
      BY <1>1, <1>2, <2>1
    <2> QED
      BY <2>2 DEF PairsOf
  <1>6. PairsOf(u) \subseteq PairsOf(s) \cup PairsOf(t)
    BY <1>3 DEF PairsOf
  <1>7. PairsOf(s) \subseteq PairsOf(u) /\ PairsOf(t) \subseteq PairsOf(u)
    BY <1>4, <1>5 DEF PairsOf
  <1> QED
    BY <1>1, <1>6, <1>7

(* Every element of a finite set is in the sequence of its elements.       *)
LEMMA SetToSeqHas ==
  ASSUME NEW S, IsFiniteSet(S), NEW s, s = SetToSeq(S)
  PROVE  s \in Seq(S) /\ S \subseteq Range(s)
  <1>1. PICK n : n = Cardinality(S)
    OBVIOUS
  <1>2. n \in Nat /\ ExistsBijection(1 .. n, S)
    BY <1>1, FS_CardinalityType
  <1>3. PICK f : f \in Bijection(1 .. n, S)
    BY <1>2 DEF ExistsBijection
  <1>4. f \in [1 .. n -> S] /\ IsInjective(f)
    BY <1>3 DEF Bijection, Injection, IsInjective
  <1>5. s \in [1 .. n -> S] /\ IsInjective(s)
    BY <1>1, <1>4 DEF SetToSeq
  <1>6. s \in Orders(S)
    BY <1>1, <1>5 DEF Orders
  <1> QED
    BY <1>6, OrderHasAll

(* What sequences of the same names together are made of.                  *)
AllSoFar(c, acc) ==
    /\ IsSeq(acc)
    /\ \A x \in PairsOf(acc) : \E n \in c.done : x \in PairsOf(c.of[n])
    /\ \A n \in c.done : PairsOf(c.of[n]) \subseteq PairsOf(acc)
JoinStep(c, acc, n) == acc \o c.of[n]
Join == INSTANCE FoldInduction WITH step <- JoinStep, Holds <- AllSoFar
LEMMA AllTogether ==
  ASSUME NEW names, IsFiniteSet(names), NEW of, DOMAIN of = names, \A n \in names : IsSeq(of[n]),
         NEW all, all = Concatenated(of, SetToSeq(names))
  PROVE  /\ IsSeq(all)
         /\ \A x \in PairsOf(all) : \E n \in names : x \in PairsOf(of[n])
         /\ \A n \in names : PairsOf(of[n]) \subseteq PairsOf(all)
  <1>1. PICK s : s = SetToSeq(names)
    OBVIOUS
  <1>2. s \in Seq(names) /\ names \subseteq Range(s)
    BY <1>1, SetToSeqHas
  <1>3. IsSeq(s) /\ \A i \in 1 .. Len(s) : s[i] \in names
    BY <1>2, SeqIs
  <1>4. Len(s) \in Nat /\ DOMAIN s = 1 .. Len(s)
    BY <1>3 DEF IsSeq
  <1>5. PICK c : c = [of |-> of]
    OBVIOUS
  <1>6. c.of = of
    BY <1>5
  <1>7. PICK at : at = [k \in 0 .. Len(s) |-> [of |-> of, done |-> {s[i] : i \in 1 .. k}]]
    OBVIOUS
  <1>8. \A k \in 0 .. Len(s) : at[k].of = of /\ at[k].done = {s[i] : i \in 1 .. k}
    BY <1>7
  <1>9. PICK none : none = <<>>
    OBVIOUS
  <1>10. all = Join!Loop(c, none, s)
    BY <1>1, <1>6, <1>9 DEF Concatenated, JoinStep, Join!Loop, Folded, Join!Folded
  <1>11. AllSoFar(at[0], none)
    <2>1. at[0].done = {}
      BY <1>4, <1>8
    <2>2. IsSeq(none) /\ Len(none) = 0
      BY <1>9, Emptied DEF IsSeq
    <2> QED
      BY <2>1, <2>2 DEF AllSoFar, PairsOf
  <1>12. ASSUME NEW acc, NEW i \in 1 .. Len(s), AllSoFar(at[i - 1], acc)
         PROVE  AllSoFar(at[i], JoinStep(c, acc, s[i]))
    <2>1. PICK n, next : n = s[i] /\ next = acc \o of[n]
      OBVIOUS
    <2>2. /\ n \in names /\ at[i].of = of /\ at[i - 1].of = of /\ at[i].done = at[i - 1].done \cup {n}
      BY <1>3, <1>4, <1>8, <2>1
    <2>3. IsSeq(acc) /\ IsSeq(of[n])
      BY <1>12, <2>2 DEF AllSoFar
    <2>4. IsSeq(next) /\ PairsOf(next) = PairsOf(acc) \cup PairsOf(of[n])
      BY <2>1, <2>3, ElementsTogether
    <2>5. JoinStep(c, acc, s[i]) = next
      BY <1>6, <2>1 DEF JoinStep
    <2> QED
      BY <1>12, <2>2, <2>4, <2>5 DEF AllSoFar
  <1>13. AllSoFar(at[Len(s)], Join!Loop(c, none, s))
    BY <1>4, <1>11, <1>12, Join!LoopProceeds
  <1>14. at[Len(s)].of = of /\ at[Len(s)].done = names
    <2>1. names = {s[i] : i \in 1 .. Len(s)}
      BY <1>2, <1>3, <1>4 DEF Range
    <2> QED
      BY <1>4, <1>8, <2>1
  <1> QED
    BY <1>10, <1>13, <1>14 DEF AllSoFar

(* The methods that are compiled for a species of another module.          *)
CanCompile(methods, table) == methods \in Seq(MethodSpec) /\ HasNames(table, NamesIn(methods))
CompiledFor(v, sp, module, methods) ==
    /\ IsSeq(v) /\ Len(v) = Len(methods)
    /\ \A i \in 1 .. Len(methods) :
          /\ v[i] \in Method /\ v[i].class = sp /\ v[i].module = module
          /\ v[i].selector.name = methods[i].selector
LEMMA ExtensionsAre ==
  ASSUME NEW table, NEW methods, CanCompile(methods, table),
         NEW sp, sp \in Species, NEW module, module \in Nat,
         NEW v, v = Extensions(table, module, methods, sp)
  PROVE  CompiledFor(v, sp, module, methods)
  <1>0. methods \in Seq(MethodSpec) /\ HasNames(table, NamesIn(methods))
    BY DEF CanCompile
  <1>1. PICK known : known = KnownIn(table, NamesIn(methods))
    OBVIOUS
  <1>2. Knows(known, NamesIn(methods), table)
    BY <1>0, <1>1, DynamicNamed DEF KnownIn, Knows, HasNames
  <1>3. IsSeq(methods) /\ \A i \in 1 .. Len(methods) : methods[i] \in MethodSpec
    BY <1>0, SeqIs
  <1>4. Len(methods) \in Nat /\ DOMAIN methods = 1 .. Len(methods)
    BY <1>3 DEF IsSeq
  <1>5. v = [i \in DOMAIN methods |-> CompiledMethod(known, sp, methods[i], module)]
    BY <1>1 DEF Extensions, KnownIn
  <1>6. IsSeq(v) /\ Len(v) = Len(methods)
    BY <1>4, <1>5 DEF IsSeq
  <1>7. ASSUME NEW i \in 1 .. Len(methods)
        PROVE  /\ v[i] \in Method /\ v[i].class = sp /\ v[i].module = module
               /\ v[i].selector.name = methods[i].selector
    <2>1. PICK m, method : m = methods[i] /\ method = CompiledMethod(known, sp, m, module)
      OBVIOUS
    <2>2. v[i] = method /\ m \in MethodSpec
      BY <1>3, <1>4, <1>5, <2>1
    <2>3. Knows(known, NamesOfMethod(m), table)
      BY <1>2, <1>3, <2>1, NamesOfOne DEF Knows
    <2>4. /\ method \in Method /\ method.class = sp /\ method.module = module
          /\ method.selector.name = m.selector
      BY <2>1, <2>2, <2>3, CompiledIs
    <2> QED
      BY <2>1, <2>2, <2>4
  <1> QED
    BY <1>6, <1>7 DEF CompiledFor

(* The methods with which a module extends a species are those of its      *)
(* sources.                                                                *)
SideIs(v, sp, k, files, kernels, path) ==
    /\ IsSeq(v)
    /\ \A e \in PairsOf(v) : ExtensionIs(e, k, files, kernels, path)
    /\ \A y \in ExtensionsIn(files, kernels, k, path, sp) :
          \E e \in PairsOf(v) : e.class = sp /\ e.selector.name = y[1]
ExtendedHere(sp, files, kernels, k, path, methods) ==
    LET source == files.modules[path]
    IN  /\ sp.name \in DOMAIN source.extensions /\ sp.name \in Known(source)
        /\ MeantIn(files, kernels, k, path, sp.name) = ClassOf(sp)
        /\ methods = MethodsOfSide(sp, source.extensions[sp.name])
LEMMA SideExtends ==
  ASSUME NEW files, NEW path, NEW kernels, NEW k, k \in Nat,
         NEW sp, sp \in Species, NEW methods, ExtendedHere(sp, files, kernels, k, path, methods),
         NEW table, CanCompile(methods, table),
         NEW v, v = Extensions(table, k, methods, sp)
  PROVE  SideIs(v, sp, k, files, kernels, path)
  <1>1. /\ IsSeq(v) /\ Len(v) = Len(methods)
        /\ \A i \in 1 .. Len(methods) :
              /\ v[i] \in Method /\ v[i].class = sp /\ v[i].module = k
              /\ v[i].selector.name = methods[i].selector
    BY ExtensionsAre DEF CompiledFor
  <1>2. ExtensionsIn(files, kernels, k, path, sp) = SelectorsOf(methods, k)
    BY DEF ExtensionsIn, ExtendedHere
  <1>3. IsSeq(methods)
    BY SeqIs DEF CanCompile
  <1>4. DOMAIN methods = 1 .. Len(methods)
    BY <1>3 DEF IsSeq
  <1>5. ASSUME NEW e \in PairsOf(v) PROVE ExtensionIs(e, k, files, kernels, path)
    <2>1. PICK i \in 1 .. Len(methods) : e = v[i]
      BY <1>1 DEF PairsOf
    <2>2. <<e.selector.name, k>> \in SelectorsOf(methods, k)
      BY <1>1, <1>4, <2>1 DEF SelectorsOf
    <2>3. e \in Method /\ e.class = sp /\ e.module = k
      BY <1>1, <2>1
    <2> QED
      BY <1>2, <2>2, <2>3 DEF ExtensionIs
  <1>6. ASSUME NEW y \in ExtensionsIn(files, kernels, k, path, sp)
        PROVE  \E e \in PairsOf(v) : e.class = sp /\ e.selector.name = y[1]
    <2>1. PICK i \in 1 .. Len(methods) : y = <<methods[i].selector, k>>
      BY <1>2, <1>4 DEF SelectorsOf
    <2>2. y[1] = methods[i].selector
      BY <2>1
    <2>3. v[i] \in PairsOf(v)
      BY <1>1 DEF PairsOf
    <2> QED
      BY <1>1, <2>2, <2>3
  <1> QED
    BY <1>1, <1>5, <1>6 DEF SideIs

(* The names in one part of a class are names in the class.                *)
LEMMA FewerNames ==
  ASSUME NEW table, NEW names, HasNames(table, names), NEW few, few \subseteq names
  PROVE  HasNames(table, few)
  BY DEF HasNames

(* So are those of a class and its metaclass.                              *)
ClassIsExtended(v, class, k, files, kernels, path) ==
    /\ IsSeq(v)
    /\ \A e \in PairsOf(v) : ExtensionIs(e, k, files, kernels, path)
    /\ \A sp \in {class, Metaclass(class)} : \A y \in ExtensionsIn(files, kernels, k, path, sp) :
          \E e \in PairsOf(v) : e.class = sp /\ e.selector.name = y[1]
HasNamesOf(table, x) == HasNames(table, NamesIn(x.methods \o x.metaMethods))
LEMMA ClassExtends ==
  ASSUME NEW files, NEW path, NEW kernels, NEW k, k \in Nat,
         NEW source, source = files.modules[path],
         NEW n, n \in STRING, n \in DOMAIN source.extensions, n \in Known(source),
         NEW x, x \in ExtensionSpec, x = source.extensions[n],
         NEW class, class = ClassIn(class.module, n), class.module \in Nat,
         MeantIn(files, kernels, k, path, n) = class,
         NEW table, HasNamesOf(table, x),
         NEW v, v = ExtensionOf(table, k, x, class)
  PROVE  ClassIsExtended(v, class, k, files, kernels, path)
  <1>1. PICK metaclass, first, second : /\ metaclass = Metaclass(class)
                                        /\ first = x.methods /\ second = x.metaMethods
    OBVIOUS
  <1>m. PICK m : m = class.module
    OBVIOUS
  <1>2. /\ class \in Species /\ class.side = "class" /\ class.name = n /\ ClassOf(class) = class
        /\ metaclass \in Species /\ metaclass.side = "metaclass" /\ metaclass.name = n
        /\ ClassOf(metaclass) = class
    <2>1. m \in Nat /\ class = ClassIn(m, n)
      BY <1>m
    <2> QED
      BY <1>1, <2>1, ClassIs
  <1>3. first \in Seq(MethodSpec) /\ second \in Seq(MethodSpec)
    BY <1>1 DEF ExtensionSpec
  <1>4. first = MethodsOfSide(class, x) /\ second = MethodsOfSide(metaclass, x)
    BY <1>1, <1>2 DEF MethodsOfSide
  <1>5. HasNames(table, NamesIn(first)) /\ HasNames(table, NamesIn(second))
    <2>1. IsSeq(first) /\ IsSeq(second)
      BY <1>3, SeqIs
    <2>2. PICK names : names = NamesIn(first \o second)
      OBVIOUS
    <2>3. NamesIn(first) \subseteq names /\ NamesIn(second) \subseteq names
      BY <2>1, <2>2, NamesOfBoth
    <2>4. HasNames(table, names)
      BY <1>1, <2>2 DEF HasNamesOf
    <2> QED
      BY <2>3, <2>4, FewerNames
  <1>6. PICK s, t : s = Extensions(table, k, first, class) /\ t = Extensions(table, k, second, metaclass)
    OBVIOUS
  <1>7. SideIs(s, class, k, files, kernels, path)
    <2>1. ExtendedHere(class, files, kernels, k, path, first)
      BY <1>2, <1>4 DEF ExtendedHere
    <2>2. CanCompile(first, table)
      BY <1>3, <1>5 DEF CanCompile
    <2> QED
      BY <1>2, <1>6, <2>1, <2>2, SideExtends
  <1>8. SideIs(t, metaclass, k, files, kernels, path)
    <2>1. ExtendedHere(metaclass, files, kernels, k, path, second)
      BY <1>2, <1>4 DEF ExtendedHere
    <2>2. CanCompile(second, table)
      BY <1>3, <1>5, SMTT(30) DEF CanCompile
    <2> QED
      BY <1>2, <1>6, <2>1, <2>2, SideExtends
  <1>9. v = s \o t
    BY <1>1, <1>6, Zenon DEF ExtensionOf
  <1>10. IsSeq(v) /\ PairsOf(v) = PairsOf(s) \cup PairsOf(t)
    BY <1>7, <1>8, <1>9, ElementsTogether DEF SideIs
  <1>11. ASSUME NEW sp \in {class, Metaclass(class)}, NEW y \in ExtensionsIn(files, kernels, k, path, sp)
         PROVE  \E e \in PairsOf(v) : e.class = sp /\ e.selector.name = y[1]
    <2>1. sp = class \/ sp = metaclass
      BY <1>1, <1>11
    <2> QED
      BY <1>7, <1>8, <1>10, <1>11, <2>1 DEF SideIs
  <1> QED
    BY <1>7, <1>8, <1>10, <1>11 DEF SideIs, ClassIsExtended

(* A name that means a class of the kernel that there is, or a class of a  *)
(* module, is a name that the module knows.                                *)
LEMMA KnownIsNamed ==
  ASSUME NEW files \in Installations, NEW path \in DOMAIN files.modules,
         NEW module, module.path = path, NEW k, NEW kernels,
         AllRead(module, k, files, path, kernels, {}),
         KnowsNames(module, k, files),
         NEW n \in Known(files.modules[path]),
         NEW class, class = MeantIn(files, kernels, k, path, n),
         class.module = Kernel => class.name \in DOMAIN files.kernel
  PROVE  n \in DOMAIN module.namespace
  <1>1. PICK source : source = files.modules[path]
    OBVIOUS
  <1>2. AsFar(module, k, source, kernels, Len(source.imports), {})
    BY <1>1 DEF AllRead
  <1>3. source.imports \in Seq(Import)
    BY <1>1, InstallationsAssumption DEF InstallationOK, ModuleSourceOK
  <1>4. PICK imports, total : imports = source.imports /\ total = Len(imports)
    OBVIOUS
  <1>5. IsSeq(imports)
    BY <1>3, <1>4, SeqIs
  <1>6. DOMAIN imports = 1 .. total
    BY <1>4, <1>5 DEF IsSeq
  <1>7. CASE n \in DOMAIN source.classes
    BY <1>2, <1>7 DEF AsFar, ClassesMade
  <1>8. CASE n \in Imported(source)
    <2>1. PICK i \in 1 .. total : imports[i].name = n
      BY <1>4, <1>8 DEF Imported
    <2>2. ImportsRead(module, imports, kernels, total)
      BY <1>2, <1>4 DEF AsFar
    <2> QED
      BY <2>1, <2>2 DEF ImportsRead
  <1>9. CASE n \notin DOMAIN source.classes \cup Imported(source)
    <2>1. n \in KernelExports
      <3>1. Range([i \in DOMAIN imports |-> imports[i].name]) \subseteq Imported(source)
        BY <1>4, <1>6 DEF Range, Imported
      <3> QED
        BY <1>1, <1>4, <1>9, <3>1 DEF Known
    <2>2. From(imports, n) = {}
      BY <1>4, <1>6, <1>9 DEF From, Imported
    <2>3. class = Class(n)
      <3>1. class = MeantBy(source, kernels, k, n)
        BY <1>1, MeantIs
      <3> QED
        BY <1>4, <1>9, <2>2, <3>1 DEF MeantBy
    <2>4. class.module = Kernel /\ class.name = n
      BY <2>3 DEF Class, Kernel
    <2>5. n \in DOMAIN files.kernel
      BY <2>4
    <2> QED
      BY <1>1, <1>9, <2>1, <2>5 DEF KnowsNames
  <1> QED
    BY <1>7, <1>8, <1>9

(* What a module is known to say of the names in it, as Known has them.    *)
LEMMA KnownAre ==
  ASSUME NEW source, source.imports \in Seq(Import)
  PROVE  Known(source) = DOMAIN source.classes \cup Imported(source) \cup KernelExports
  <1>1. PICK imports, names : /\ imports = source.imports
                              /\ names = [i \in DOMAIN imports |-> imports[i].name]
    OBVIOUS
  <1>2. IsSeq(imports)
    BY <1>1, SeqIs
  <1>3. DOMAIN imports = 1 .. Len(imports)
    BY <1>2 DEF IsSeq
  <1>4. Range(names) = Imported(source)
    BY <1>1, <1>3 DEF Range, Imported
  <1> QED
    BY <1>1, <1>4 DEF Known

(* A species is the class that it is of, or the metaclass.                 *)
LEMMA ClassOrMetaclass ==
  ASSUME NEW sp \in Species, sp.side \in {"class", "metaclass"},
         NEW class, class = ClassOf(sp)
  PROVE  /\ class \in Species /\ class.module = sp.module /\ class.name = sp.name
         /\ class = ClassIn(sp.module, sp.name) /\ sp \in {class, Metaclass(class)}
  <1>1. sp = [side |-> sp.side, module |-> sp.module, name |-> sp.name]
    BY DEF Species
  <1>2. class = [side |-> "class", module |-> sp.module, name |-> sp.name]
    BY <1>1 DEF ClassOf
  <1>3. Metaclass(class) = [side |-> "metaclass", module |-> sp.module, name |-> sp.name]
    BY <1>2 DEF Metaclass
  <1> QED
    BY <1>1, <1>2, <1>3 DEF Species, ClassIn

(* The extensions that a module compiles are those that its sources have.  *)
LEMMA ExtendsAll ==
  ASSUME NEW files, files \in Installations, NEW path, path \in DOMAIN files.modules,
         NEW k, k \in Nat, k # Kernel, NEW kernels, Range(kernels) \subseteq Nat,
         NEW module, module = modules[k], module.path = path,
         AllRead(module, k, files, path, kernels, {}), KnowsNames(module, k, files),
         SettledAt(files, path, kernels),
         NEW extension, extension = files.modules[path].extensions,
         NEW bases, bases = {n \in DOMAIN extension : NamespaceAt(k, n) # Nil},
         NEW table, HasNames(table, NamesOfExtensions(extension, bases)),
         NEW v, v = ExtensionsOf(table, k, extension, bases),
         NEW new, new.path = path, new.extensions = v
  PROVE  Extending(new, k, files, kernels)
  <1>1. PICK source, names : source = files.modules[path] /\ names = module.namespace
    OBVIOUS
  <1>2. /\ source.imports \in Seq(Import) /\ IsFiniteSet(DOMAIN extension)
        /\ \A n \in DOMAIN extension : extension[n] \in ExtensionSpec
        /\ DOMAIN extension \subseteq STRING
    BY <1>1, InstallationsAssumption DEF InstallationOK, ModuleSourceOK
  <1>3. bases \subseteq DOMAIN extension /\ IsFiniteSet(bases)
    BY <1>2, FS_Subset
  <1>4. ASSUME NEW n \in bases
        PROVE  /\ n \in DOMAIN names /\ n \in Known(source) /\ NamespaceAt(k, n) = names[n]
               /\ names[n] = MeantIn(files, kernels, k, path, n)
    <2>1. n \in DOMAIN names /\ NamespaceAt(k, n) = names[n]
      BY <1>1, <1>4 DEF NamespaceAt
    <2>2. n \in Known(source)
      <3>1. AsFar(module, k, source, kernels, Len(source.imports), {})
        BY <1>1 DEF AllRead
      <3> QED
        BY <1>1, <1>2, <2>1, <3>1, KnownAre DEF AsFar, NoOtherNames
    <2>3. PICK rest : rest = {}
      OBVIOUS
    <2>4. AllRead(module, k, files, path, kernels, rest)
      BY <2>3
    <2>5. names[n] = MeantIn(files, kernels, k, path, n)
      BY <1>1, <2>1, <2>4, Means
    <2> QED
      BY <2>1, <2>2, <2>5
  <1>5. ASSUME NEW n \in bases, NEW class, class = NamespaceAt(k, n)
        PROVE  /\ class = MeantIn(files, kernels, k, path, n) /\ class = ClassIn(class.module, n)
               /\ class.module \in Nat
    <2>1. class = MeantIn(files, kernels, k, path, n)
      BY <1>4, <1>5
    <2>2. class.module \in {k, Kernel} \cup Range(kernels) /\ class = ClassIn(class.module, n)
      BY <2>1, WhereMeant
    <2> QED
      BY <2>1, <2>2 DEF Kernel
  <1>6. PICK of : of = [n \in bases |-> ExtensionOf(table, k, extension[n], NamespaceAt(k, n))]
    OBVIOUS
  <1>7. DOMAIN of = bases
    BY <1>6
  <1>8. ASSUME NEW n \in bases, NEW class, class = NamespaceAt(k, n)
        PROVE  ClassIsExtended(of[n], class, k, files, kernels, path)
    <2>1. PICK x, w : x = extension[n] /\ w = of[n]
      OBVIOUS
    <2>2. /\ class = ClassIn(class.module, n) /\ class.module \in Nat
          /\ MeantIn(files, kernels, k, path, n) = class
      BY <1>5, <1>8, <2>1
    <2>3. /\ x \in ExtensionSpec /\ n \in STRING /\ n \in DOMAIN source.extensions
          /\ n \in Known(source) /\ x = source.extensions[n]
      BY <1>1, <1>2, <1>3, <1>4, <2>1
    <2>4. w = ExtensionOf(table, k, x, class)
      BY <1>6, <1>8, <2>1
    <2>5. HasNamesOf(table, x)
      <3>1. NamesIn(x.methods \o x.metaMethods) \subseteq NamesOfExtensions(extension, bases)
        BY <2>1 DEF NamesOfExtensions
      <3> QED
        BY <3>1, FewerNames DEF HasNamesOf
    <2>6. ClassIsExtended(w, class, k, files, kernels, path)
      BY <1>1, <2>2, <2>3, <2>4, <2>5, ClassExtends
    <2> QED
      BY <2>1, <2>6
  <1>9. /\ IsSeq(v)
        /\ \A x \in PairsOf(v) : \E n \in bases : x \in PairsOf(of[n])
        /\ \A n \in bases : PairsOf(of[n]) \subseteq PairsOf(v)
    <2>1. \A n \in bases : IsSeq(of[n])
      BY <1>8 DEF ClassIsExtended
    <2>2. v = Concatenated(of, SetToSeq(bases))
      BY <1>6 DEF ExtensionsOf
    <2> QED
      BY <1>3, <1>7, <2>1, <2>2, AllTogether
  <1>10. ASSUME NEW i \in 1 .. Len(v) PROVE ExtensionIs(v[i], k, files, kernels, path)
    <2>1. v[i] \in PairsOf(v)
      BY DEF PairsOf
    <2>2. PICK n \in bases : v[i] \in PairsOf(of[n])
      BY <1>9, <2>1
    <2>3. PICK class : class = NamespaceAt(k, n)
      OBVIOUS
    <2> QED
      BY <1>8, <2>2, <2>3 DEF ClassIsExtended
  <1>11. ASSUME NEW sp, There(files, sp), NEW x \in ExtensionsIn(files, kernels, k, path, sp)
         PROVE  \E i \in 1 .. Len(v) : v[i].class = sp /\ v[i].selector.name = x[1]
    <2>1. PICK n, class : n = sp.name /\ class = ClassOf(sp)
      OBVIOUS
    <2>2. /\ n \in DOMAIN extension /\ n \in Known(source)
          /\ MeantIn(files, kernels, k, path, n) = class
      BY <1>1, <1>11, <2>1 DEF ExtensionsIn
    <2>3. /\ class \in Species /\ class.module = sp.module /\ class.name = n
          /\ sp \in {class, Metaclass(class)}
      BY <1>11, <2>1, ClassOrMetaclass DEF There
    <2>4. n \in DOMAIN names
      <3>1. class.module = Kernel => class.name \in DOMAIN files.kernel
        BY <1>11, <2>1, <2>3 DEF There
      <3>2. n \in Known(files.modules[path])
        BY <1>1, <2>2
      <3>3. n \in DOMAIN module.namespace
        BY <2>2, <3>1, <3>2, KnownIsNamed
      <3> QED
        BY <1>1, <3>3
    <2>5. names[n] = class
      <3>1. PICK rest : rest = {}
        OBVIOUS
      <3>2. AllRead(module, k, files, path, kernels, rest)
        BY <3>1
      <3> QED
        BY <1>1, <2>2, <2>4, <3>2, Means
    <2>6. NamespaceAt(k, n) = class /\ class # Nil
      BY <1>1, <2>3, <2>4, <2>5, NilAssumption DEF NamespaceAt
    <2>7. n \in bases
      BY <2>2, <2>6
    <2>8. PICK e \in PairsOf(of[n]) : e.class = sp /\ e.selector.name = x[1]
      <3>1. PICK w : w = of[n]
        OBVIOUS
      <3>2. ClassIsExtended(w, class, k, files, kernels, path)
        BY <1>8, <2>6, <2>7, <3>1
      <3>3. \E e \in PairsOf(w) : e.class = sp /\ e.selector.name = x[1]
        BY <1>11, <2>3, <3>2 DEF ClassIsExtended
      <3> QED
        BY <3>1, <3>3
    <2>9. e \in PairsOf(v)
      BY <1>9, <2>7
    <2> QED
      BY <2>8, <2>9 DEF PairsOf
  <1>12. \A i \in 1 .. Len(new.extensions) : ExtensionIs(new.extensions[i], k, files, kernels, new.path)
    BY <1>10
  <1>13. \A sp : There(files, sp) =>
            \A x \in ExtensionsIn(files, kernels, k, new.path, sp) :
               \E i \in 1 .. Len(new.extensions) :
                  new.extensions[i].class = sp /\ new.extensions[i].selector.name = x[1]
    BY <1>11
  <1> QED
    BY <1>12, <1>13 DEF Extending

(* The table has a symbol for every name that was to have one.             *)
LEMMA TableHasNames ==
  ASSUME Inv, KnownSymbols, phase = "done", NEW names, names \subseteq STRING \cup {Nil},
         NEW table, table = WithSymbols(symbolTable, names)
  PROVE  HasNames(table, names)
  <1>1. PICK old : old = symbolTable
    OBVIOUS
  <1>2. Unique(old) /\ old \subseteq Symbol
    BY <1>1, Loading DEF KnownSymbols
  <1>3. Unique(table) /\ \A n \in names : DynamicSymbol(table, n) \in table
    BY <1>1, <1>2, WithSymbolsOK
  <1>4. table \subseteq Symbol
    BY <1>1, <1>2 DEF WithSymbols, Symbol
  <1> QED
    BY <1>3, <1>4 DEF HasNames

(* The names of extensions are strings.                                    *)
LEMMA ExtensionNames ==
  ASSUME NEW extension, NEW bases, bases \subseteq DOMAIN extension,
         \A n \in DOMAIN extension : extension[n] \in ExtensionSpec
  PROVE  NamesOfExtensions(extension, bases) \subseteq STRING
  <1>1. ASSUME NEW n \in bases
        PROVE  NamesIn(extension[n].methods \o extension[n].metaMethods) \subseteq STRING
    <2>1. PICK both : both = extension[n].methods \o extension[n].metaMethods
      OBVIOUS
    <2>2. both \in Seq(MethodSpec)
      BY <2>1 DEF ExtensionSpec
    <2>3. NamesIn(both) \subseteq STRING
      BY <2>2, NamesOfMethods
    <2> QED
      BY <2>1, <2>3
  <1> QED
    BY <1>1 DEF NamesOfExtensions

(* compileExtensions: the module has what its sources say.                 *)
LEMMA CompileExtensionsLooks ==
  ASSUME Inv, Inv', LinksInv, LinksInv', CompleteInv, LookInv, compileExtensions
  PROVE  LookInv'
  <1>1. /\ loads # <<>> /\ Top.step = "classes" /\ Top.step \in Unregistered /\ Top.files = <<>>
    BY DEF compileExtensions, Unregistered
  <1>2. PICK top : top = Top
    OBVIOUS
  <1>3. /\ {"path", "step", "module", "files", "imports"} \subseteq DOMAIN top
        /\ top.path \in DOMAIN installation.modules
        /\ top.module \in DOMAIN modules \ Registered /\ DOMAIN modules # {}
    BY <1>1, <1>2, TopIs DEF LoadOK
  <1>4. PICK extension : extension = Source.extensions
    OBVIOUS
  <1>5. PICK bases : bases = {n \in DOMAIN extension : NamespaceAt(Top.module, n) # Nil}
    OBVIOUS
  <1>6. PICK names : names = bases \cup NamesOfExtensions(extension, bases)
    OBVIOUS
  <1>7. PICK table : table = WithSymbols(symbolTable, names)
    OBVIOUS
  <1>8. Fail \/ Stop("MessageNotUnderstood") \/ ExtensionsCompiled(extension, bases, table)
    BY <1>4, <1>5, <1>6, <1>7 DEF compileExtensions, ExtensionsCompiled, NamesOfExtensions
  <1>9. CASE Fail
    BY <1>1, <1>2, <1>3, <1>9, FailLooks
  <1>10. CASE Stop("MessageNotUnderstood")
    BY <1>1, <1>10, StopLooks
  <1>11. CASE ExtensionsCompiled(extension, bases, table)
    <2>1. PICK k, path, mods, v : /\ k = top.module /\ path = top.path /\ mods = modules
                                  /\ v = ExtensionsOf(table, k, extension, bases)
      OBVIOUS
    <2>2. PICK l : l = Replacing(top, "step", "register")
      OBVIOUS
    <2>3. PICK mods2 : mods2 = Replacing(mods, k, Replacing(mods[k], "extensions", v))
      OBVIOUS
    <2>4. /\ loads' = Append(Pop, l) /\ symbolTable' = table
          /\ UNCHANGED <<installation, phase, spec, todo, objects, namespace, symbols, provider,
                         newMd, loadedModules, kernelModules>>
      BY <1>2, <1>11, <2>2 DEF ExtensionsCompiled, Replacing
    <2>5. modules' = mods2
      <3>1. modules' = [modules EXCEPT ![k].extensions = v]
        BY <1>2, <1>11, <2>1 DEF ExtensionsCompiled
      <3> QED
        BY <2>1, <2>3, <3>1 DEF Replacing
    <2>6. PICK module, new : module = mods[k] /\ new = mods2[k]
      OBVIOUS
    <2>7. /\ new.path = module.path /\ new.namespace = module.namespace /\ new.extensions = v
          /\ DOMAIN mods2 = DOMAIN mods /\ \A x \in DOMAIN mods : x # k => mods2[x] = mods[x]
      <3>1. PICK changed : changed = Replacing(module, "extensions", v)
        OBVIOUS
      <3>2. {"path", "namespace"} \subseteq DOMAIN module /\ k \in DOMAIN mods
        BY <1>3, <2>1, <2>6 DEF LinksInv, ModuleInv, ModulesLinked, NamesLinked
      <3>3. "extensions" \in DOMAIN module
        BY <1>3, <2>1, <2>6 DEF Inv, LoaderInv, ModulesOK, ModuleOK
      <3>4. changed.path = module.path /\ changed.namespace = module.namespace /\ changed.extensions = v
        BY <3>1, <3>2, <3>3 DEF Replacing
      <3> QED
        BY <2>3, <2>6, <3>1, <3>2, <3>4, ReplacingOne
    <2>8. phase = "done" /\ KnownSymbols /\ installation \in Installations
      BY <1>1, Loading DEF LookInv
    <2>9. PICK source : source = installation.modules[path]
      OBVIOUS
    <2>10. /\ path \in DOMAIN installation.modules /\ extension = source.extensions
           /\ DOMAIN extension \subseteq STRING
           /\ \A n \in DOMAIN extension : extension[n] \in ExtensionSpec
      BY <1>2, <1>3, <1>4, <2>1, <2>8, <2>9, ModuleSource DEF ModuleSourceOK, Source
    <2>11. names \subseteq STRING /\ NamesOfExtensions(extension, bases) \subseteq names
      <3>1. bases \subseteq DOMAIN extension
        BY <1>5
      <3>2. NamesOfExtensions(extension, bases) \subseteq STRING
        BY <2>10, <3>1, ExtensionNames
      <3> QED
        BY <1>6, <2>10, <3>1, <3>2
    <2>12. KnownSymbols'
      <3>1. MoreNames(names)
        BY <1>7, <2>4, <2>11 DEF MoreNames
      <3> QED
        BY <2>4, <2>8, <3>1, MoreNamesKnown
    <2>13. ASSUME Clear(installation) PROVE DictionariesInv' /\ SourcesInv'
      <3>1. DictionariesInv /\ SourcesInv
        BY <2>13 DEF LookInv
      <3>2. /\ module.path = path /\ KnowsNames(module, k, installation) /\ k \in Nat \ {Kernel}
            /\ k \notin Range(kernelModules) /\ k \notin Registered
        BY <1>1, <1>2, <2>1, <2>6, <2>13, <3>1, TopModule
      <3>3. Unambiguous(installation)
        BY <2>13 DEF Clear
      <3>4. AsFar(module, k, source, kernelModules, Len(source.imports), {})
        <4>1. PICK none : none = top.files
          OBVIOUS
        <4>2. none = <<>> /\ Range(none) = {}
          BY <1>1, <1>2, <4>1 DEF Range
        <4>3. AsFar(module, k, source, kernelModules, Len(source.imports), Range(none))
          BY <1>1, <1>2, <2>1, <2>6, <2>9, <3>3, <4>1, StackAsFar DEF LoadAsFar
        <4> QED
          BY <4>2, <4>3
      <3>5. SettledAt(installation, path, kernelModules)
        <4>1. PICK rest : rest = {}
          OBVIOUS
        <4>2. AsFar(module, k, source, kernelModules, Len(source.imports), rest)
          BY <3>4, <4>1
        <4> QED
          BY <2>8, <2>9, <2>10, <4>2, ReadSettled
      <3>6. KnowsNames(new, k, installation)
        BY <2>7, <3>2 DEF KnowsNames
      <3>7. Extending(new, k, installation, kernelModules)
        <4>1. PICK files, kernels : files = installation /\ kernels = kernelModules
          OBVIOUS
        <4>2. /\ files \in Installations /\ path \in DOMAIN files.modules
              /\ k \in Nat /\ k # Kernel /\ module = modules[k] /\ module.path = path
              /\ SettledAt(files, path, kernels) /\ KnowsNames(module, k, files)
              /\ extension = files.modules[path].extensions
          BY <2>1, <2>6, <2>8, <2>9, <2>10, <3>2, <3>5, <4>1
        <4>3. AllRead(module, k, files, path, kernels, {})
          BY <2>9, <3>4, <4>1 DEF AllRead
        <4>4. Range(kernels) \subseteq Nat
          BY <1>3, <4>1 DEF Inv, LoaderInv, LinksInv, ModuleInv
        <4>5. bases = {n \in DOMAIN extension : NamespaceAt(k, n) # Nil}
          BY <1>2, <1>5, <2>1
        <4>6. HasNames(table, NamesOfExtensions(extension, bases))
          <5>1. HasNames(table, names)
            BY <1>7, <2>8, <2>11, TableHasNames
          <5> QED
            BY <2>11, <5>1, FewerNames
        <4>7. new.path = path /\ new.extensions = v
          BY <2>7, <3>2
        <4>8. Extending(new, k, files, kernels)
          BY <2>1, <4>2, <4>3, <4>4, <4>5, <4>6, <4>7, ExtendsAll
        <4> QED
          BY <4>1, <4>8
      <3>8. Registered' = Registered
        BY <2>4 DEF Registered, Range
      <3>9. ASSUME NEW i \in 1 .. Len(loads'), loads'[i].step = "register"
            PROVE  Extending(mods2[loads'[i].module], loads'[i].module, installation, kernelModules)
        <4>1. PICK below, all : below = Pop /\ all = loads'
          OBVIOUS
        <4>2. IsSeq(below) /\ all = Append(below, l)
          BY <1>1, <2>4, <4>1, TopIs DEF LoadsOK
        <4>3. /\ Len(all) = Len(below) + 1 /\ Len(below) \in Nat
              /\ \A j \in 1 .. Len(below) + 1 : all[j] = IF j = Len(below) + 1 THEN l ELSE below[j]
          <5>1. Len(below) \in Nat
            BY <4>2 DEF IsSeq
          <5> QED
            BY <4>2, <5>1, Appended
        <4>4. i \in 1 .. Len(below) + 1 /\ all[i].step = "register" /\ all = loads'
          BY <3>9, <4>1, <4>3
        <4>5. CASE i = Len(below) + 1
          <5>1. all[i] = l
            BY <4>3, <4>4, <4>5
          <5>2. l.module = k
            BY <1>3, <2>1, <2>2 DEF Replacing
          <5> QED
            BY <2>6, <3>7, <4>4, <5>1, <5>2
        <4>6. CASE i # Len(below) + 1
          <5>1. i \in 1 .. Len(below) /\ all[i] = below[i]
            BY <4>3, <4>4, <4>6
          <5>2. Waiting(below)
            BY <1>1, <4>1, OneWaiting
          <5> QED
            BY <4>4, <5>1, <5>2 DEF Waiting
        <4> QED
          BY <4>5, <4>6
      <3>10. PICK none : none = {}
        OBVIOUS
      <3>11. OnlyChanges(k, none)
        BY <2>1, <2>4, <2>5, <2>6, <2>7, <3>2, <3>6, <3>8, <3>9, <3>10 DEF OnlyChanges
      <3>12. DictionariesInv' /\ SourcesInv'
        BY <2>4, <2>8, <3>1, <3>11, OthersFaithful
      <3> QED
        BY <3>12
    <2> QED
      BY <2>4, <2>12, <2>13, LooksOn
  <1> QED
    BY <1>8, <1>9, <1>10, <1>11

=============================================================================
