------------------------ MODULE ModuleLoader_lookups ------------------------
(***************************************************************************)
(* Theorems about what behaviors answer: every lookup finds the method     *)
(* that the sources have, from the moment the runtime exists, and what a   *)
(* method takes the place of is kept.                                      *)
(***************************************************************************)
EXTENDS ModuleLoader_sources

-----------------------------------------------------------------------------
(* What the first i of the extensions of module m add to a species.        *)
SoFar(extensions, i, m, sp) ==
    {<<extensions[j].selector.name, m>> : j \in {x \in 1 .. i : extensions[x].class = sp}}

(* The next extension adds its selector to those of its species only.      *)
LEMMA SoFarNext ==
  ASSUME NEW extensions, NEW i, i \in Nat \ {0}, NEW e, e = extensions[i], NEW m, NEW sp
  PROVE  /\ e.class = sp => SoFar(extensions, i, m, sp)
                              = SoFar(extensions, i - 1, m, sp) \cup {<<e.selector.name, m>>}
         /\ e.class # sp => SoFar(extensions, i, m, sp) = SoFar(extensions, i - 1, m, sp)
  <1>1. PICK all, old, new : /\ all = {x \in 1 .. i : extensions[x].class = sp}
                             /\ old = {x \in 1 .. i - 1 : extensions[x].class = sp}
                             /\ new = {x \in {i} : extensions[x].class = sp}
    OBVIOUS
  <1>2. all = old \cup new
    BY <1>1
  <1>3. /\ SoFar(extensions, i, m, sp) = {<<extensions[j].selector.name, m>> : j \in all}
        /\ SoFar(extensions, i - 1, m, sp) = {<<extensions[j].selector.name, m>> : j \in old}
    BY <1>1 DEF SoFar
  <1>4. CASE e.class = sp
    <2>1. new = {i}
      BY <1>1, <1>4
    <2>2. {<<extensions[j].selector.name, m>> : j \in old \cup {i}}
             = {<<extensions[j].selector.name, m>> : j \in old} \cup {<<e.selector.name, m>>}
      OBVIOUS
    <2> QED
      BY <1>2, <1>3, <1>4, <2>1, <2>2
  <1>5. CASE e.class # sp
    <2>1. new = {}
      BY <1>1, <1>5
    <2> QED
      BY <1>2, <1>3, <1>5, <2>1
  <1> QED
    BY <1>4, <1>5

(* Before the first extension nothing is bound.                            *)
LEMMA SoFarNone == ASSUME NEW extensions, NEW m, NEW sp PROVE SoFar(extensions, 0, m, sp) = {}
  BY DEF SoFar

(* What the loop of justLoaded has done after i extensions: each species   *)
(* says besides what it said what they add, and no module has lost its     *)
(* extensions.                                                             *)
BoundFirst(c, state) ==
    /\ AllFull(state.objects, c.U) /\ DOMAIN state.objects = DOMAIN c.defined
    /\ \A sp \in DOMAIN state.objects :
          Says(state.objects[sp].md.pairs, sp, c.defined[sp],
               c.extended[sp] \cup SoFar(c.extensions, c.i, c.m, sp))
    /\ ModulesOK(state.modules, c.U) /\ DOMAIN state.modules = DOMAIN c.kept
    /\ \A x \in DOMAIN state.modules : state.modules[x].extensions = c.kept[x]
Binding(U, defined, extended, kept, extensions, m, i) ==
    [U |-> U, defined |-> defined, extended |-> extended, kept |-> kept,
     extensions |-> extensions, m |-> m, i |-> i]
BindMore == INSTANCE FoldInduction WITH step <- BindStep, Holds <- BoundFirst

(* BindExtension puts the method and changes one slot of a module.         *)
OnlyOverriden(mods2, mods) ==
    \/ mods2 = mods
    \/ \E k, v : mods2 = Replacing(mods, k, Replacing(mods[k], "overriden", v))

(* An extension is put in its dictionary; modules change in what they      *)
(* keep.                                                                   *)
LEMMA BindExtensionDoes ==
  ASSUME NEW state, NEW m, NEW bound, bound = BindExtension(state, m)
  PROVE  /\ bound.objects = Putting(state.objects, m.class, m.selector, m)
         /\ OnlyOverriden(bound.modules, state.modules)
  <1>1. PICK i : i = PositionOf(state.objects[m.class].md.pairs, m.selector)
    OBVIOUS
  <1>2. PICK current : current = state.objects[m.class].md.pairs[i][2]
    OBVIOUS
  <1>3. PICK k, signature : k = current.module /\ signature = <<m.class, m.selector.name>>
    BY Zenon
  <1>4. bound = [objects |-> Putting(state.objects, m.class, m.selector, m),
                 modules |-> IF i = 0 THEN state.modules
                             ELSE OverridenIn(state.modules, k, signature, current)]
    BY <1>1, <1>2, <1>3, Zenon DEF BindExtension, Putting, OverridenIn
  <1>5. /\ bound.objects = Putting(state.objects, m.class, m.selector, m)
        /\ bound.modules = IF i = 0 THEN state.modules
                           ELSE OverridenIn(state.modules, k, signature, current)
    BY <1>4
  <1>6. PICK v : v = Over(At(signature, current), state.modules[k].overriden)
    OBVIOUS
  <1>7. OverridenIn(state.modules, k, signature, current)
          = Replacing(state.modules, k, Replacing(state.modules[k], "overriden", v))
    BY <1>6 DEF OverridenIn, Replacing
  <1>8. PICK mods, mods2 : mods = state.modules /\ mods2 = bound.modules
    OBVIOUS
  <1>9. mods2 = mods \/ mods2 = Replacing(mods, k, Replacing(mods[k], "overriden", v))
    BY <1>5, <1>7, <1>8
  <1>10. OnlyOverriden(mods2, mods)
    BY <1>9 DEF OnlyOverriden
  <1> QED
    BY <1>5, <1>8, <1>10

(* A module keeps its extensions.                                          *)
SameExtensions(mods2, mods, U) ==
    /\ ModulesOK(mods2, U) /\ DOMAIN mods2 = DOMAIN mods
    /\ \A x \in DOMAIN mods : mods2[x].extensions = mods[x].extensions

(* What a module keeps is not what it extends.                             *)
LEMMA ReplacedOverriden ==
  ASSUME NEW U, NEW mods, ModulesOK(mods, U), NEW k, NEW v,
         NEW module, module = Replacing(mods[k], "overriden", v),
         NEW mods2, mods2 = Replacing(mods, k, module)
  PROVE  SameExtensions(mods2, mods, U)
  <1>1. ModulesOK(mods2, U) /\ DOMAIN mods2 = DOMAIN mods
    <2>1. "overriden" # "extensions"
      OBVIOUS
    <2>2. ModulesOK(mods2, U)
      BY <2>1, OtherSlot, Zenon
    <2>3. DOMAIN mods2 = DOMAIN mods
      BY ReplacingOne
    <2> QED
      BY <2>2, <2>3
  <1>3. k \in DOMAIN mods => module.extensions = mods[k].extensions
    <2>1. k \in DOMAIN mods => "extensions" \in DOMAIN mods[k]
      BY DEF ModulesOK, ModuleOK
    <2> QED
      BY <2>1, ReplacingOne
  <1>4. \A x \in DOMAIN mods : mods2[x] = IF x = k THEN module ELSE mods[x]
    BY ReplacingOne
  <1> QED
    BY <1>1, <1>3, <1>4 DEF SameExtensions

(* Binding leaves the extensions of all modules as they are.               *)
LEMMA KeepsExtensions ==
  ASSUME NEW U, NEW mods, ModulesOK(mods, U), NEW mods2, OnlyOverriden(mods2, mods)
  PROVE  SameExtensions(mods2, mods, U)
  <1>1. CASE mods2 = mods
    BY <1>1 DEF SameExtensions
  <1>2. CASE \E k, v : mods2 = Replacing(mods, k, Replacing(mods[k], "overriden", v))
    <2>1. PICK k, v : mods2 = Replacing(mods, k, Replacing(mods[k], "overriden", v))
      BY <1>2
    <2>2. PICK module : module = Replacing(mods[k], "overriden", v)
      OBVIOUS
    <2>3. mods2 = Replacing(mods, k, module)
      BY <2>1, <2>2
    <2> QED
      BY <2>2, <2>3, ReplacedOverriden
  <1> QED
    BY <1>1, <1>2 DEF OnlyOverriden

(* The pairs of one species get the method.                                *)
OnePut(objs2, objs, U, sp, m) ==
    /\ AllFull(objs2, U) /\ DOMAIN objs2 = DOMAIN objs
    /\ \A x \in DOMAIN objs : x # sp => objs2[x] = objs[x]
    /\ sp \in DOMAIN objs => objs2[sp].md.pairs = AtPut(objs[sp].md.pairs, m.selector, m)

(* One dictionary changes, by one pair.                                    *)
LEMMA PutOne ==
  ASSUME NEW U, NEW objs, AllFull(objs, U), NEW sp, NEW m, MethodOK(m, U),
         NEW objs2, objs2 = Putting(objs, sp, m.selector, m)
  PROVE  OnePut(objs2, objs, U, sp, m)
  <1>1. AllFull(objs2, U)
    BY PuttingOK
  <1>2. PICK slots, md, pairs : /\ slots = objs[sp] /\ md = slots.md
                                /\ pairs = AtPut(md.pairs, m.selector, m)
    OBVIOUS
  <1>3. PICK md2 : md2 = Replacing(md, "pairs", pairs)
    OBVIOUS
  <1>4. PICK slots2 : slots2 = Replacing(slots, "md", md2)
    OBVIOUS
  <1>5. objs2 = Replacing(objs, sp, slots2)
    BY <1>2, <1>3, <1>4 DEF Putting, Replacing
  <1>6. /\ DOMAIN objs2 = DOMAIN objs
        /\ \A x \in DOMAIN objs : objs2[x] = IF x = sp THEN slots2 ELSE objs[x]
    BY <1>5, ReplacingOne
  <1>7. ASSUME sp \in DOMAIN objs PROVE slots2.md.pairs = pairs
    <2>1. "md" \in DOMAIN slots /\ "pairs" \in DOMAIN md
      BY <1>2, <1>7 DEF AllFull, FullSlots, DictOK
    <2>2. slots2.md = md2 /\ md2.pairs = pairs
      BY <1>3, <1>4, <2>1, ReplacingOne
    <2> QED
      BY <2>2
  <1> QED
    BY <1>1, <1>2, <1>6, <1>7 DEF OnePut

(* One more extension is bound.                                            *)
LEMMA BindOneMore ==
  ASSUME NEW U, Unique(U), NEW defined, NEW extended, NEW kept, NEW extensions, NEW m,
         NEW i, i \in Nat \ {0}, NEW e, e = extensions[i], e \in Method, e.module = m, MethodOK(e, U),
         NEW state, BoundFirst(Binding(U, defined, extended, kept, extensions, m, i - 1), state),
         NEW bound, bound = BindExtension(state, e)
  PROVE  BoundFirst(Binding(U, defined, extended, kept, extensions, m, i), bound)
  <1>1. PICK objs, mods, objs2, mods2 : /\ objs = state.objects /\ mods = state.modules
                                        /\ objs2 = bound.objects /\ mods2 = bound.modules
    OBVIOUS
  <1>2. /\ AllFull(objs, U) /\ DOMAIN objs = DOMAIN defined
        /\ \A sp \in DOMAIN objs :
              Says(objs[sp].md.pairs, sp, defined[sp], extended[sp] \cup SoFar(extensions, i - 1, m, sp))
        /\ ModulesOK(mods, U) /\ DOMAIN mods = DOMAIN kept
        /\ \A x \in DOMAIN mods : mods[x].extensions = kept[x]
    BY <1>1 DEF BoundFirst, Binding
  <1>3. PICK class, s : class = e.class /\ s = e.selector
    OBVIOUS
  <1>4. objs2 = Putting(objs, class, e.selector, e)
    BY <1>1, <1>3, BindExtensionDoes
  <1>5. OnlyOverriden(mods2, mods)
    BY <1>1, BindExtensionDoes
  <1>6. /\ AllFull(objs2, U) /\ DOMAIN objs2 = DOMAIN objs
        /\ \A x \in DOMAIN objs : x # class => objs2[x] = objs[x]
        /\ class \in DOMAIN objs => objs2[class].md.pairs = AtPut(objs[class].md.pairs, s, e)
    <2>1. AllFull(objs, U) /\ MethodOK(e, U) /\ objs2 = Putting(objs, class, e.selector, e)
      BY <1>2, <1>4
    <2>2. OnePut(objs2, objs, U, class, e)
      BY <2>1, PutOne
    <2> QED
      BY <1>3, <2>2 DEF OnePut
  <1>7. ASSUME NEW sp \in DOMAIN objs
        PROVE  Says(objs2[sp].md.pairs, sp, defined[sp], extended[sp] \cup SoFar(extensions, i, m, sp))
    <2>1. PICK before, after, base : /\ before = extended[sp] \cup SoFar(extensions, i - 1, m, sp)
                                     /\ after = extended[sp] \cup SoFar(extensions, i, m, sp)
                                     /\ base = defined[sp]
      OBVIOUS
    <2>2. Says(objs[sp].md.pairs, sp, base, before)
      BY <1>2, <2>1
    <2>3. CASE sp = class
      <3>1. PICK pairs : pairs = objs[sp].md.pairs
        OBVIOUS
      <3>2. PairsOK(pairs, U) /\ s \in U
        BY <1>2, <1>3, <3>1 DEF AllFull, FullSlots, DictOK, MethodOK
      <3>3. after = before \cup {<<s.name, e.module>>}
        <4>1. SoFar(extensions, i, m, sp) = SoFar(extensions, i - 1, m, sp) \cup {<<e.selector.name, m>>}
          BY <1>3, <2>3, SoFarNext
        <4> QED
          BY <1>3, <2>1, <4>1
      <3>4. Says(AtPut(pairs, s, e), sp, base, after)
        BY <1>3, <2>2, <2>3, <3>1, <3>2, <3>3, PutExtended
      <3> QED
        BY <1>6, <2>1, <2>3, <3>1, <3>4
    <2>4. CASE sp # class
      <3>1. SoFar(extensions, i, m, sp) = SoFar(extensions, i - 1, m, sp)
        BY <1>3, <2>4, SoFarNext
      <3>2. objs2[sp] = objs[sp]
        BY <1>6, <2>4
      <3> QED
        BY <2>1, <2>2, <3>1, <3>2
    <2> QED
      BY <2>3, <2>4
  <1>8. /\ ModulesOK(mods2, U) /\ DOMAIN mods2 = DOMAIN mods
        /\ \A x \in DOMAIN mods : mods2[x].extensions = mods[x].extensions
    <2>1. ModulesOK(mods, U)
      BY <1>2
    <2> QED
      BY <1>5, <2>1, KeepsExtensions DEF SameExtensions
  <1>9. PICK c : c = Binding(U, defined, extended, kept, extensions, m, i)
    OBVIOUS
  <1>10. /\ c.U = U /\ c.defined = defined /\ c.extended = extended /\ c.kept = kept
         /\ c.extensions = extensions /\ c.m = m /\ c.i = i
    BY <1>9 DEF Binding
  <1>11. /\ \A sp \in DOMAIN objs2 :
               Says(objs2[sp].md.pairs, sp, c.defined[sp], c.extended[sp] \cup SoFar(c.extensions, c.i, c.m, sp))
         /\ \A x \in DOMAIN mods2 : mods2[x].extensions = c.kept[x]
    BY <1>2, <1>6, <1>7, <1>8, <1>10
  <1>12. BoundFirst(c, bound)
    BY <1>1, <1>2, <1>6, <1>8, <1>10, <1>11 DEF BoundFirst
  <1> QED
    BY <1>9, <1>12

(* justLoaded binds all of them.                                           *)
ExtensionsBy(extensions, m) ==
    \A i \in 1 .. Len(extensions) : extensions[i] \in Method /\ extensions[i].module = m
Said(objs, defined, extended) ==
    \A sp \in DOMAIN objs : Says(objs[sp].md.pairs, sp, defined[sp], extended[sp])
SaidWith(objs2, objs, defined, extended, extensions, m) ==
    \A sp \in DOMAIN objs :
       Says(objs2[sp].md.pairs, sp, defined[sp],
            extended[sp] \cup SoFar(extensions, Len(extensions), m, sp))
KeptExtensions(mods2, mods) ==
    DOMAIN mods2 = DOMAIN mods /\ \A x \in DOMAIN mods : mods2[x].extensions = mods[x].extensions

(* justLoaded: when all are bound, the dictionaries say what was said      *)
(* before and the extensions.                                              *)
LEMMA BoundSays ==
  ASSUME NEW U, Unique(U), NEW objs, NEW mods, AllFull(objs, U), ModulesOK(mods, U),
         NEW defined, DOMAIN defined = DOMAIN objs, NEW extended,
         Said(objs, defined, extended),
         NEW m, NEW extensions, MethodsOK(extensions, U), ExtensionsBy(extensions, m),
         NEW bound, bound = Folded(BindExtension, [objects |-> objs, modules |-> mods], extensions)
  PROVE  /\ SaidWith(bound.objects, objs, defined, extended, extensions, m)
         /\ KeptExtensions(bound.modules, mods)
  <1>b. PICK base : base = [objects |-> objs, modules |-> mods]
    OBVIOUS
  <1>e. base.objects = objs /\ base.modules = mods
    BY <1>b
  <1>k. PICK kept : kept = [x \in DOMAIN mods |-> mods[x].extensions]
    OBVIOUS
  <1>l. DOMAIN kept = DOMAIN mods /\ \A x \in DOMAIN mods : kept[x] = mods[x].extensions
    BY <1>k
  <1>1. bound = BindMore!Loop(base, base, extensions)
    BY <1>b DEF BindStep, BindMore!Loop, Folded, BindMore!Folded
  <1>2. PICK n : n = Len(extensions)
    OBVIOUS
  <1>3. n \in Nat
    BY <1>2 DEF MethodsOK, IsSeq
  <1>4. PICK at : at = [i \in 0 .. n |-> Binding(U, defined, extended, kept, extensions, m, i)]
    OBVIOUS
  <1>5. ASSUME NEW u, NEW i \in 1 .. n, BoundFirst(at[i - 1], u)
        PROVE  BoundFirst(at[i], BindStep(base, u, extensions[i]))
    <2>1. PICK e : e = extensions[i]
      OBVIOUS
    <2>2. e \in Method /\ e.module = m /\ MethodOK(e, U)
      BY <1>2, <2>1 DEF MethodsOK, ExtensionsBy
    <2>3. i \in Nat \ {0} /\ i - 1 \in 0 .. n /\ i \in 0 .. n
      BY <1>3
    <2>4. /\ at[i - 1] = Binding(U, defined, extended, kept, extensions, m, i - 1)
          /\ at[i] = Binding(U, defined, extended, kept, extensions, m, i)
      BY <1>4, <2>3
    <2>5. PICK v : v = BindExtension(u, e)
      OBVIOUS
    <2>6. BoundFirst(Binding(U, defined, extended, kept, extensions, m, i - 1), u)
      BY <1>5, <2>4
    <2>7. BoundFirst(Binding(U, defined, extended, kept, extensions, m, i), v)
      BY <2>1, <2>2, <2>3, <2>5, <2>6, BindOneMore
    <2> QED
      BY <2>1, <2>4, <2>5, <2>7 DEF BindStep
  <1>6. /\ at[0] = Binding(U, defined, extended, kept, extensions, m, 0)
        /\ at[n] = Binding(U, defined, extended, kept, extensions, m, n)
    BY <1>3, <1>4
  <1>7. BoundFirst(at[0], base)
    <2>1. PICK c : c = at[0]
      OBVIOUS
    <2>2. /\ c.U = U /\ c.defined = defined /\ c.extended = extended /\ c.kept = kept
          /\ c.extensions = extensions /\ c.m = m /\ c.i = 0
      BY <1>6, <2>1 DEF Binding
    <2>3. \A sp \in DOMAIN objs : c.extended[sp] \cup SoFar(c.extensions, c.i, c.m, sp) = extended[sp]
      BY <2>2, SoFarNone
    <2>4. BoundFirst(c, base)
      BY <1>e, <1>l, <2>2, <2>3 DEF BoundFirst, Said
    <2> QED
      BY <2>1, <2>4
  <1>8. BoundFirst(at[n], BindMore!Loop(base, base, extensions))
    BY <1>2, <1>3, <1>5, <1>7, BindMore!LoopProceeds
  <1>9. PICK c : c = at[n]
    OBVIOUS
  <1>10. /\ c.U = U /\ c.defined = defined /\ c.extended = extended /\ c.kept = kept
         /\ c.extensions = extensions /\ c.m = m /\ c.i = n
    BY <1>6, <1>9 DEF Binding
  <1>11. BoundFirst(c, bound)
    BY <1>1, <1>8, <1>9
  <1> QED
    BY <1>2, <1>l, <1>10, <1>11 DEF BoundFirst, SaidWith, KeptExtensions

(* The extensions of a module are those that its sources say.              *)
LEMMA SoFarIs ==
  ASSUME NEW files, NEW kernels, NEW module, NEW m, Extending(module, m, files, kernels),
         NEW sp, There(files, sp), NEW extensions, extensions = module.extensions
  PROVE  SoFar(extensions, Len(extensions), m, sp) = ExtensionsIn(files, kernels, m, module.path, sp)
  <1>1. PICK has, says : /\ has = SoFar(extensions, Len(extensions), m, sp)
                         /\ says = ExtensionsIn(files, kernels, m, module.path, sp)
    OBVIOUS
  <1>2. ASSUME NEW x \in has PROVE x \in says
    <2>1. PICK j \in 1 .. Len(extensions) :
             extensions[j].class = sp /\ x = <<extensions[j].selector.name, m>>
      BY <1>1, <1>2 DEF SoFar
    <2>2. ExtensionIs(extensions[j], m, files, kernels, module.path)
      BY <2>1 DEF Extending
    <2> QED
      BY <1>1, <2>1, <2>2 DEF ExtensionIs
  <1>3. ASSUME NEW x \in says PROVE x \in has
    <2>1. x = <<x[1], m>>
      BY <1>1, <1>3 DEF ExtensionsIn, SelectorsOf
    <2>2. \E i \in 1 .. Len(extensions) :
             extensions[i].class = sp /\ extensions[i].selector.name = x[1]
      BY <1>1, <1>3 DEF Extending
    <2> QED
      BY <1>1, <2>1, <2>2 DEF SoFar
  <1> QED
    BY <1>1, <1>2, <1>3

(* They stay when more modules are registered.                             *)
LEMMA ExtendingStays ==
  ASSUME NEW files, NEW kernels, NEW more, Widens(more, kernels), NEW path, SettledAt(files, path, kernels),
         NEW module, module.path = path, NEW m, Extending(module, m, files, kernels),
         NEW new, new.path = path, new.extensions = module.extensions
  PROVE  Extending(new, m, files, more)
  <1>1. \A sp : ExtensionsIn(files, more, m, path, sp) = ExtensionsIn(files, kernels, m, path, sp)
    BY ExtensionsStay
  <1>2. PICK extensions : extensions = module.extensions
    OBVIOUS
  <1>3. ASSUME NEW i \in 1 .. Len(extensions)
        PROVE  ExtensionIs(extensions[i], m, files, more, path)
    <2>1. ExtensionIs(extensions[i], m, files, kernels, path)
      BY <1>2 DEF Extending
    <2> QED
      BY <1>1, <2>1 DEF ExtensionIs
  <1>4. ASSUME NEW sp, There(files, sp), NEW x \in ExtensionsIn(files, more, m, path, sp)
        PROVE  \E i \in 1 .. Len(extensions) :
                  extensions[i].class = sp /\ extensions[i].selector.name = x[1]
    <2>1. x \in ExtensionsIn(files, kernels, m, path, sp)
      BY <1>1, <1>4
    <2> QED
      BY <1>2, <1>4, <2>1 DEF Extending
  <1> QED
    BY <1>2, <1>3, <1>4 DEF Extending

(* A registered module has all that it imports.                            *)
LEMMA RegisteredSettled ==
  ASSUME Inv, CompleteInv, Unambiguous(installation), DOMAIN modules # {},
         NEW m \in Registered, m # Kernel, NEW path, path = modules[m].path
  PROVE  SettledAt(installation, path, kernelModules)
  <1>1. installation \in Installations
    BY DEF Inv, BootInv
  <1>2. Whole(modules[m], m, installation, kernelModules)
    BY DEF CompleteInv, RegisteredWhole
  <1>3. PICK source, rest, module : /\ source = installation.modules[path] /\ rest = {}
                                    /\ module = modules[m]
    OBVIOUS
  <1>4. path \in DOMAIN installation.modules
        /\ AsFar(module, m, source, kernelModules, Len(source.imports), rest)
    BY <1>2, <1>3 DEF Whole
  <1> QED
    BY <1>1, <1>3, <1>4, ReadSettled

(* A species of the sources is one that there is.                          *)
LEMMA OfSourceIsThere ==
  ASSUME NEW sp, NEW files, NEW mods, NEW kernels, OfSource(sp, files, mods, kernels)
  PROVE  There(files, sp)
  BY DEF OfSource, There

(* A species after the extensions of module m are bound and the module is  *)
(* registered.                                                             *)
LEMMA StillFaithful ==
  ASSUME NEW files \in Installations, NEW mods, NEW mods2, NEW kernels, NEW more, Widens(more, kernels),
         NEW sp, OfSource(sp, files, mods, kernels), SamePlace(sp, files, mods, mods2),
         NEW slots, Faithful(slots, sp, files, mods, kernels),
         NEW slots2, slots2.next = slots.next, NEW defined, defined = Defined(files, mods, sp),
         NEW extended, extended = ExtendedWith(files, more, sp),
         Says(slots2.md.pairs, sp, defined, extended)
  PROVE  OfSource(sp, files, mods2, more) /\ Faithful(slots2, sp, files, mods2, more)
  <1>1. /\ OfSource(sp, files, mods2, more)
        /\ AboveIn(files, mods2, more, sp) = AboveIn(files, mods, kernels, sp)
        /\ Defined(files, mods2, sp) = Defined(files, mods, sp)
    BY SourcesStay
  <1>2. slots.next = AboveIn(files, mods, kernels, sp)
    BY DEF Faithful, Placed
  <1> QED
    BY <1>1, <1>2 DEF Faithful, Placed

(* justLoaded: the species get what the sources of the module say of them. *)
LEMMA JustLoadedSources ==
  ASSUME Inv, Inv', LinksInv, LinksInv', CompleteInv, Clear(installation), DictionariesInv, SourcesInv,
         KnownSymbols, justLoaded
  PROVE  DictionariesInv' /\ SourcesInv'
  <1>1. /\ loads # <<>> /\ Top.step = "justLoaded" /\ loads' = Pop
        /\ UNCHANGED <<installation, phase, namespace, loadedModules, newMd>>
    BY DEF justLoaded
  <1>2. PICK path, k : path = Top.path /\ k = Top.module
    OBVIOUS
  <1>3. /\ path # <<"Kernel">> /\ k \in Registered
        /\ k \in DOMAIN modules /\ DOMAIN modules # {}
    BY <1>1, <1>2, TopIs, StackIs DEF LoadOK, LoadApart
  <1>4. PICK objs, mods, extensions : /\ objs = objects /\ mods = modules
                                      /\ extensions = modules[k].extensions
    OBVIOUS
  <1>5. PICK bound : bound = Folded(BindExtension, [objects |-> objs, modules |-> mods], extensions)
    OBVIOUS
  <1>6. PICK objs2, mods2, more, kernels, files, U :
             /\ objs2 = bound.objects /\ mods2 = bound.modules /\ kernels = kernelModules
             /\ more = Over(At(path, k), kernelModules) /\ files = installation /\ U = symbolTable
    OBVIOUS
  <1>7. objects' = objs2 /\ modules' = mods2 /\ kernelModules' = more
    BY <1>2, <1>4, <1>5, <1>6 DEF justLoaded
  <1>8. /\ phase = "done" /\ AllFull(objs, U) /\ Unique(U) /\ Universe = U /\ files \in Installations
    BY <1>1, <1>4, <1>6, Loading
  <1>9. Unambiguous(installation)
    BY DEF Clear
  <1>10. mods[k].path = path /\ path \notin DOMAIN kernels
    BY <1>1, <1>2, <1>4, <1>6, <1>9, StackAsFar DEF LoadAsFar
  <1>11. k # Kernel
    BY <1>3, <1>4, <1>9, <1>10 DEF CompleteInv, RegisteredWhole
  <1>12. SettledAt(files, path, kernels)
    BY <1>3, <1>4, <1>6, <1>9, <1>10, <1>11, RegisteredSettled
  <1>13. /\ Widens(more, kernels)
         /\ \A sp : ExtendedWith(files, more, sp)
               = ExtendedWith(files, kernels, sp) \cup ExtensionsIn(files, kernels, k, path, sp)
    <2>1. path \notin DOMAIN kernelModules /\ SettledAt(installation, path, kernelModules)
      BY <1>6, <1>10, <1>12
    <2>2. more = Over(At(path, k), kernelModules)
      BY <1>6
    <2>3. Widens(more, kernelModules)
      BY <1>3, <1>9, <2>1, <2>2, OneMoreExtends
    <2>4. \A sp : ExtendedWith(installation, more, sp)
               = ExtendedWith(installation, kernelModules, sp)
                 \cup ExtensionsIn(installation, kernelModules, k, path, sp)
      BY <1>3, <1>9, <2>1, <2>2, OneMoreExtends
    <2> QED
      BY <1>6, <2>3, <2>4
  <1>14. Extending(mods[k], k, files, kernels)
    BY <1>3, <1>4, <1>6, <1>11 DEF SourcesInv
  <1>15. ModulesOK(mods, U) /\ MethodsOK(extensions, U) /\ Len(extensions) \in Nat
    <2>1. ModulesOK(mods, U)
      BY <1>4, <1>6, <1>8 DEF Inv, LoaderInv
    <2> QED
      BY <1>3, <1>4, <2>1 DEF ModulesOK, ModuleOK, MethodsOK, IsSeq
  <1>16. SameLinks(objs2, objs) /\ SameNames(mods2, mods)
    <2>1. HeapOK(objs, mods)
      BY <1>4, <1>8, DoneIs
    <2> QED
      BY <1>5, <1>6, <1>15, <2>1, BoundLinks
  <1>17. PICK defined, extended : /\ defined = [sp \in DOMAIN objs |-> Defined(files, mods, sp)]
                                  /\ extended = [sp \in DOMAIN objs |-> ExtendedWith(files, kernels, sp)]
    OBVIOUS
  <1>18. ASSUME NEW sp \in DOMAIN objs
         PROVE  /\ Faithful(objs[sp], sp, files, mods, kernels) /\ OfSource(sp, files, mods, kernels)
                /\ defined[sp] = Defined(files, mods, sp) /\ extended[sp] = ExtendedWith(files, kernels, sp)
    BY <1>4, <1>6, <1>8, <1>17 DEF DictionariesInv, SourcesInv, IsFaithful
  <1>19. /\ SaidWith(objs2, objs, defined, extended, extensions, k)
         /\ KeptExtensions(mods2, mods)
    <2>1. Said(objs, defined, extended)
      BY <1>18 DEF Said, Faithful
    <2>2. ExtensionsBy(extensions, k)
      BY <1>4, <1>14 DEF Extending, ExtensionIs, ExtensionsBy
    <2>3. DOMAIN defined = DOMAIN objs
      BY <1>17
    <2> QED
      BY <1>5, <1>6, <1>8, <1>15, <2>1, <2>2, <2>3, BoundSays
  <1>20. ASSUME NEW sp \in DOMAIN objs2
         PROVE  /\ OfSource(sp, files, mods2, more)
                /\ Faithful(objs2[sp], sp, files, mods2, more)
    <2>1. sp \in DOMAIN objs /\ objs2[sp].next = objs[sp].next
      BY <1>16 DEF SameLinks
    <2>2. PICK its, new : /\ its = ExtensionsIn(files, kernels, k, path, sp)
                          /\ new = extended[sp] \cup SoFar(extensions, Len(extensions), k, sp)
      OBVIOUS
    <2>3. There(files, sp)
      BY <1>18, <2>1, OfSourceIsThere
    <2>4. SoFar(extensions, Len(extensions), k, sp) = its
      <3>1. PICK module : module = mods[k]
        OBVIOUS
      <3>2. SoFar(extensions, Len(extensions), k, sp) = ExtensionsIn(files, kernels, k, module.path, sp)
        BY <1>4, <1>14, <2>3, <3>1, SoFarIs
      <3> QED
        BY <1>10, <2>2, <3>1, <3>2
    <2>5. new = ExtendedWith(files, more, sp)
      BY <1>13, <1>18, <2>1, <2>2, <2>4
    <2>6. PICK slots, slots2 : slots = objs[sp] /\ slots2 = objs2[sp]
      OBVIOUS
    <2>7. Says(slots2.md.pairs, sp, defined[sp], new)
      BY <1>19, <2>1, <2>2, <2>6 DEF SaidWith
    <2>8. SamePlace(sp, files, mods, mods2)
      <3>1. SUFFICES ASSUME sp.module # Kernel
                     PROVE  /\ mods2[sp.module].path = mods[sp.module].path
                            /\ mods[sp.module].path \in DOMAIN files.modules
        BY DEF SamePlace
      <3>2. /\ sp.module \in DOMAIN modules /\ modules[sp.module].path \in DOMAIN installation.modules
        BY <1>4, <2>1, <3>1, SpeciesModule
      <3> QED
        BY <1>4, <1>6, <1>16, <3>2 DEF SameNames
    <2>9. /\ Faithful(slots, sp, files, mods, kernels) /\ OfSource(sp, files, mods, kernels)
          /\ slots2.next = slots.next
      BY <1>18, <2>1, <2>6
    <2>10. PICK base : base = defined[sp]
      OBVIOUS
    <2>11. base = Defined(files, mods, sp) /\ Says(slots2.md.pairs, sp, base, new)
      BY <1>18, <2>1, <2>7, <2>10
    <2>12. OfSource(sp, files, mods2, more) /\ Faithful(slots2, sp, files, mods2, more)
      BY <1>8, <1>13, <2>5, <2>8, <2>9, <2>11, StillFaithful
    <2> QED
      BY <2>6, <2>12
  <1>21. ASSUME NEW m \in DOMAIN mods2, m # Kernel PROVE KnowsNames(mods2[m], m, files)
    <2>1. m \in DOMAIN mods /\ mods2[m].path = mods[m].path /\ mods2[m].namespace = mods[m].namespace
      BY <1>16, <1>21 DEF SameNames
    <2>2. KnowsNames(mods[m], m, files)
      BY <1>4, <1>6, <1>21, <2>1 DEF SourcesInv
    <2> QED
      BY <2>1, <2>2 DEF KnowsNames
  <1>22. ASSUME NEW m \in Registered, m # Kernel PROVE Extending(mods2[m], m, files, more)
    <2>1. m \in DOMAIN mods
      BY <1>3, <1>4 DEF Inv, LoaderInv, Registered
    <2>2. PICK module, new, p : module = mods[m] /\ new = mods2[m] /\ p = module.path
      OBVIOUS
    <2>3. Extending(module, m, files, kernels)
      BY <1>4, <1>6, <1>22, <2>2 DEF SourcesInv
    <2>4. SettledAt(files, p, kernels)
      BY <1>3, <1>4, <1>6, <1>9, <1>22, <2>2, RegisteredSettled
    <2>5. new.path = p /\ new.extensions = module.extensions
      BY <1>16, <1>19, <2>1, <2>2 DEF SameNames, KeptExtensions
    <2>6. Extending(new, m, files, more)
      BY <1>13, <2>2, <2>3, <2>4, <2>5, ExtendingStays
    <2> QED
      BY <2>2, <2>6
  <1>23. DictionariesInv'
    <2>1. \A sp \in DOMAIN objects' : IsFaithful(sp)'
      BY <1>1, <1>6, <1>7, <1>20 DEF IsFaithful
    <2>2. newMd' = Nil /\ phase' = "done"
      BY <1>1, <1>8 DEF DictionariesInv
    <2> QED
      BY <2>1, <2>2 DEF DictionariesInv
  <1>24. SourcesInv'
    <2>1. \A sp \in DOMAIN objects' : OfSource(sp, installation, modules, kernelModules)'
      BY <1>1, <1>6, <1>7, <1>20
    <2>2. \A m \in DOMAIN modules' \ {Kernel} : KnowsNames(modules[m], m, installation)'
      BY <1>1, <1>6, <1>7, <1>21
    <2>3. Registered' = Registered
      BY <1>1 DEF Registered, Range
    <2>4. \A m \in Registered' \ {Kernel} : Extending(modules[m], m, installation, kernelModules)'
      BY <1>1, <1>6, <1>7, <1>22, <2>3
    <2>5. \A i \in 1 .. Len(loads') : loads'[i].step # "register"
      BY <1>1, OneWaiting DEF Waiting
    <2> QED
      BY <2>1, <2>2, <2>4, <2>5 DEF SourcesInv
  <1> QED
    BY <1>23, <1>24

(* The module that has just been loaded is registered, and its extensions  *)
(* are bound.                                                              *)
LEMMA JustLoadedLooks ==
  ASSUME Inv, Inv', LinksInv, LinksInv', CompleteInv, LookInv, justLoaded
  PROVE  LookInv'
  <1>1. /\ loads # <<>>
        /\ UNCHANGED <<installation, phase, spec, namespace, symbols, symbolTable, provider>>
    BY DEF justLoaded
  <1>2. phase = "done"
    BY <1>1, Loading
  <1>3. KnownSymbols'
    BY <1>1, <1>2, MoreNamesKnown
  <1>4. Clear(installation) => DictionariesInv' /\ SourcesInv'
    BY JustLoadedSources DEF LookInv
  <1> QED
    BY <1>1, <1>3, <1>4, LooksOn

-----------------------------------------------------------------------------
(* At first there is nothing.                                              *)
LEMMA InitLooks ==
  ASSUME LoaderInit PROVE LookInv
  <1>1. /\ phase = "specs" /\ DOMAIN objects = {} /\ DOMAIN symbols = {} /\ symbolTable = {}
        /\ provider = "bootstrap" /\ newMd = Nil /\ DOMAIN modules = {} /\ DOMAIN loadedModules = {}
        /\ loads = <<>> /\ Len(loads) = 0
    BY DEF LoaderInit, BootInit
  <1>2. Range(symbols) = {} /\ Registered = {Kernel}
    BY <1>1 DEF Range, Registered
  <1>3. KnownSymbols
    BY <1>1, <1>2 DEF KnownSymbols, Universe
  <1>4. SpecsMerged /\ DictionariesInv
    BY <1>1 DEF SpecsMerged, DictionariesInv
  <1>5. SourcesInv
    BY <1>1, <1>2 DEF SourcesInv
  <1> QED
    BY <1>3, <1>4, <1>5 DEF LookInv

(* When nothing changes, what holds goes on to hold.                       *)
LEMMA StutterLooks ==
  ASSUME LookInv, UNCHANGED vars PROVE LookInv'
  <1>1. /\ installation' = installation /\ phase' = phase /\ spec' = spec /\ todo' = todo
        /\ objects' = objects /\ namespace' = namespace /\ symbols' = symbols
        /\ symbolTable' = symbolTable /\ provider' = provider /\ newMd' = newMd
        /\ modules' = modules /\ loadedModules' = loadedModules /\ kernelModules' = kernelModules
        /\ loads' = loads
    BY DEF vars
  <1>2. Range(symbols)' = Range(symbols) /\ Registered' = Registered
    BY <1>1 DEF Range, Registered
  <1>3. KnownSymbols' = KnownSymbols
    BY <1>1, <1>2 DEF KnownSymbols, Universe
  <1>4. SpecsMerged' = SpecsMerged
    BY <1>1 DEF SpecsMerged
  <1>5. DictionariesInv' = DictionariesInv
    BY <1>1 DEF DictionariesInv, IsFresh, IsFaithful, PairsSoFar, Converting
  <1>6. SourcesInv' = SourcesInv
    BY <1>1, <1>2 DEF SourcesInv
  <1> QED
    BY <1>1, <1>3, <1>4, <1>5, <1>6 DEF LookInv

(* One lemma for each action says that it keeps what lookups depend on.    *)
LEMMA StepLooks ==
  ASSUME Inv, Inv', LinksInv, LinksInv', CompleteInv, LookInv, [Next]_vars
  PROVE  LookInv'
  <1>1. CASE BootNext /\ UNCHANGED loaderVars
    BY <1>1, BootstrapLooks
  <1>2. CASE loadKernel
    BY <1>2, LoadKernelLooks
  <1>3. CASE \E path \in DOMAIN installation.modules : load(path)
    BY <1>3, LoadLooks
  <1>4. CASE /\ loads # <<>> /\ Top.path \in DOMAIN installation.modules
             /\ \E files \in Orders(DOMAIN Source.classes) : createModule(files)
    BY <1>4, CreateModuleLooks
  <1>5. CASE \/ moduleNotFound \/ importRequired \/ sortClasses \/ createClass
             \/ compileExtensions \/ register \/ justLoaded
    BY <1>5, ModuleNotFoundLooks, ImportRequiredLooks, SortClassesLooks,
       CreateClassLooks, CompileExtensionsLooks, RegisterLooks, JustLoadedLooks
  <1>6. CASE UNCHANGED vars
    BY <1>6, StutterLooks
  <1> QED
    BY <1>1, <1>2, <1>3, <1>4, <1>5, <1>6 DEF Next, LoadNext

(* What a bootstrap that failed leaves behind are dictionaries, too.       *)
FailedFull == phase = "failed" => AllFull(objects, Universe)

(* At the start nothing has failed.                                        *)
LEMMA InitFailed ==
  ASSUME LoaderInit PROVE FailedFull
  BY DEF LoaderInit, BootInit, FailedFull

(* A step that fails leaves the dictionaries as they were.                 *)
LEMMA StepFailed ==
  ASSUME Inv, Inv', FailedFull, [Next]_vars
  PROVE  FailedFull'
  <1>1. SUFFICES ASSUME phase' = "failed" PROVE AllFull(objects, Universe)'
    BY DEF FailedFull
  <1>2. PICK objs, U : objs = objects /\ U = Universe
    OBVIOUS
  <1>3. CASE UNCHANGED <<objects, symbols, symbolTable>> /\ AllFull(objects, Universe)
    <2>1. Universe' = Universe
      BY <1>3 DEF Universe, Range
    <2> QED
      BY <1>2, <1>3, <2>1
  <1>4. CASE BootNext
    <2>1. CASE loadKernelSpecs
      <3>1. DOMAIN objects = {} /\ UNCHANGED <<objects, symbols, symbolTable>>
        BY <2>1 DEF loadKernelSpecs, Inv, BootInv, SpeciesInv
      <3>2. AllFull(objects, Universe)
        BY <3>1 DEF AllFull
      <3> QED
        BY <1>3, <3>1, <3>2
    <2>2. CASE createRuntimeWithBootstrappedKernel \/ NewMethodDict \/ ConvertPair
      <3>1. phase \in {"runtime", "convert"} /\ UNCHANGED <<objects, symbols, symbolTable>>
        BY <2>2 DEF createRuntimeWithBootstrappedKernel, NewMethodDict, ConvertPair
      <3>2. AllFull(objects, Universe)
        BY <3>1 DEF Inv, BootInv, ObjectInv
      <3> QED
        BY <1>3, <3>1, <3>2
    <2>3. CASE \/ createInitialObjects \/ instantiateMetaobjectsOf \/ initializeMetaobjectsOf
               \/ createKernelNamespace \/ loadKernelMethods \/ fillSymbolTable
               \/ switchToDynamicSymbolProvider \/ ReplaceMethodDict
      <3>1. phase \in Phases \ {"failed"}
        BY <2>3 DEF createInitialObjects, instantiateMetaobjectsOf, initializeMetaobjectsOf,
           createKernelNamespace, loadKernelMethods, fillSymbolTable,
           switchToDynamicSymbolProvider, ReplaceMethodDict, Phases
      <3>2. phase' # "failed"
        BY <2>3, <3>1 DEF createInitialObjects, instantiateMetaobjectsOf, initializeMetaobjectsOf,
           createKernelNamespace, loadKernelMethods, fillSymbolTable,
           switchToDynamicSymbolProvider, ReplaceMethodDict, Continue
      <3> QED
        BY <1>1, <3>2
    <2> QED
      BY <1>4, <2>1, <2>2, <2>3 DEF BootNext
  <1>5. CASE UNCHANGED vars
    <2>1. UNCHANGED <<phase, objects, symbols, symbolTable>>
      BY <1>5 DEF vars
    <2>2. AllFull(objects, Universe)
      BY <1>1, <2>1 DEF FailedFull
    <2> QED
      BY <1>3, <2>1, <2>2
  <1>6. CASE loadKernel \/ LoadNext
    <2>1. phase = "done"
      <3>1. CASE loadKernel
        BY <3>1 DEF loadKernel
      <3>2. CASE LoadNext
        <4>1. DOMAIN modules # {} \/ loads # <<>>
          BY <3>2 DEF LoadNext, load, moduleNotFound, importRequired, sortClasses, createClass,
             compileExtensions, register, justLoaded
        <4> QED
          BY <4>1, Loading, SMTT(30)
      <3> QED
        BY <1>6, <3>1, <3>2
    <2>2. DOMAIN modules' # {} \/ loads' # <<>> \/ phase' = "done" \/ phase' = phase
      <3>1. CASE loadKernel
        BY <3>1 DEF loadKernel, bootVars
      <3>2. CASE LoadNext
        <4>1. ASSUME Fail \/ \E why : Stop(why) PROVE phase' = phase
          BY <4>1 DEF Fail, Stop, bootVars
        <4>2. CASE \/ \E path \in DOMAIN installation.modules : load(path)
                   \/ moduleNotFound \/ sortClasses \/ register \/ justLoaded
          BY <4>2 DEF load, moduleNotFound, Fail, sortClasses, register, justLoaded, bootVars
        <4>3. CASE \E files \in Orders(DOMAIN Source.classes) : createModule(files)
          <5>1. PICK files : createModule(files)
            BY <4>3
          <5> QED
            BY <4>1, <5>1, Zenon DEF createModule
        <4>4. CASE importRequired
          BY <4>1, <4>4 DEF importRequired, bootVars
        <4>5. CASE createClass
          BY <4>1, <4>5 DEF createClass
        <4>6. CASE compileExtensions
          BY <4>1, <4>6 DEF compileExtensions
        <4> QED
          BY <3>2, <4>2, <4>3, <4>4, <4>5, <4>6 DEF LoadNext
      <3> QED
        BY <1>6, <3>1, <3>2
    <2>3. DOMAIN modules' # {} \/ loads' # <<>> => phase' = "done"
      BY DEF Inv, LoaderInv
    <2> QED
      BY <1>1, <2>1, <2>2, <2>3
  <1> QED
    BY <1>4, <1>5, <1>6 DEF Next

-----------------------------------------------------------------------------
(* What a lookup reads: the species it can come across.                    *)
LooksInv == /\ Inv /\ LinksInv /\ CompleteInv /\ LookInv /\ FailedFull
            /\ Clear(installation)

(* What is known of a species that a lookup can come across.               *)
LEMMA VisibleIs ==
  ASSUME LooksInv, NEW sp \in Visible
  PROVE  /\ sp \in DOMAIN objects /\ IsFaithful(sp)
         /\ OfSource(sp, installation, modules, kernelModules)
         /\ PairsOK(objects[sp].md.pairs, Universe)
         /\ sp.module = Kernel \/ sp.module \in Range(kernelModules)
  <1>1. /\ sp \in DOMAIN objects
        /\ sp.module = Kernel \/ sp.module \in Range(kernelModules)
        /\ phase \notin {"specs", "initial", "instantiate", "initialize", "namespace", "methods"}
    BY DEF Visible
  <1>2. phase \in {"runtime", "fill", "switch", "convert", "done", "failed"}
    BY <1>1 DEF LooksInv, LinksInv, KernelInv, Phases
  <1>3. DictionariesInv /\ SourcesInv
    BY DEF LooksInv, LookInv
  <1>4. IsFaithful(sp) /\ OfSource(sp, installation, modules, kernelModules)
    BY <1>1, <1>2, <1>3 DEF DictionariesInv, SourcesInv
  <1>5. AllFull(objects, Universe)
    BY <1>2 DEF LooksInv, Inv, BootInv, ObjectInv, FailedFull
  <1>6. PairsOK(objects[sp].md.pairs, Universe)
    BY <1>1, <1>5 DEF AllFull, FullSlots, DictOK
  <1> QED
    BY <1>1, <1>4, <1>6

(* The module of a species is the one registered for its path.             *)
LEMMA VisibleModule ==
  ASSUME LooksInv, NEW sp \in Visible, sp.module # Kernel,
         NEW path, path = modules[sp.module].path
  PROVE  /\ path \in DOMAIN kernelModules /\ path # <<"Kernel">> /\ kernelModules[path] = sp.module
         /\ DOMAIN modules # {}
  <1>1. Inv /\ LinksInv /\ CompleteInv /\ Unambiguous(installation)
    BY DEF LooksInv, Clear
  <1>2. sp.module \in Range(kernelModules)
    BY DEF Visible
  <1>3. PICK p \in DOMAIN kernelModules : kernelModules[p] = sp.module
    BY <1>2 DEF Range
  <1>4. sp.module \in DOMAIN modules
    BY <1>1, <1>2 DEF LinksInv, ModuleInv
  <1>5. PathsKept(modules, loadedModules, kernelModules)
    BY <1>1, <1>4 DEF CompleteInv
  <1>6. p = path
    BY <1>3, <1>5 DEF PathsKept
  <1>7. path # <<"Kernel">>
    BY <1>1, <1>3, <1>6 DEF LinksInv, ModuleInv
  <1> QED
    BY <1>3, <1>4, <1>6, <1>7

(* What the properties call meant is what the invariants call so.          *)
LEMMA MeantSame ==
  ASSUME NEW path, NEW m, kernelModules[path] = m, NEW name
  PROVE  Meant(path, name) = MeantIn(installation, kernelModules, m, path, name)
  BY DEF Meant, MeantIn

(* What the properties have above a species is what the invariants have    *)
(* there.                                                                  *)
LEMMA AboveSame ==
  ASSUME LooksInv, NEW sp \in Visible
  PROVE  Above(sp) = AboveIn(installation, modules, kernelModules, sp)
  <1>1. SpecOf(sp) = SpecIn(installation, modules, sp)
    BY DEF SpecOf, SpecIn
  <1>2. PICK super : super = SpecIn(installation, modules, sp).supername
    OBVIOUS
  <1>3. CASE sp.module = Kernel
    BY <1>1, <1>2, <1>3 DEF Above, AboveIn
  <1>4. CASE sp.module # Kernel
    <2>1. PICK path, m : path = modules[sp.module].path /\ m = sp.module
      OBVIOUS
    <2>2. kernelModules[path] = m
      BY <1>4, <2>1, VisibleModule
    <2>3. Meant(path, super) = MeantIn(installation, kernelModules, m, path, super)
      BY <2>2, MeantSame
    <2> QED
      BY <1>1, <1>2, <1>4, <2>1, <2>3 DEF Above, AboveIn
  <1> QED
    BY <1>3, <1>4

(* A metaclass is in the module of its class.                              *)
LEMMA MetaclassModule ==
  ASSUME NEW m, NEW n, NEW class, class = ClassIn(m, n)
  PROVE  Metaclass(class).module = m
  <1>1. class = [side |-> "class", module |-> m, name |-> n]
    BY DEF ClassIn
  <1>2. Metaclass(class) = [side |-> "metaclass", module |-> m, name |-> n]
    BY <1>1 DEF Metaclass
  <1> QED
    BY <1>2

(* The species above is what the behavior goes on with, and it is visible. *)
LEMMA VisibleAbove ==
  ASSUME LooksInv, NEW sp \in Visible
  PROVE  /\ Above(sp) = objects[sp].next
         /\ objects[sp].next = Nil \/ objects[sp].next \in Visible
  <1>1. /\ sp \in DOMAIN objects /\ IsFaithful(sp)
        /\ OfSource(sp, installation, modules, kernelModules)
        /\ sp.module = Kernel \/ sp.module \in Range(kernelModules)
    BY VisibleIs
  <1>2. PICK next : next = objects[sp].next
    OBVIOUS
  <1>3. next = AboveIn(installation, modules, kernelModules, sp)
    BY <1>1, <1>2 DEF IsFaithful, Faithful, Placed
  <1>4. Above(sp) = next
    BY <1>3, AboveSame
  <1>5. SUFFICES ASSUME next # Nil PROVE next \in Visible
    BY <1>2, <1>4
  <1>6. next \in DOMAIN objects
    BY <1>1, <1>2, <1>5 DEF LooksInv, LinksInv, KernelInv, Linked, SlotsLinked
  <1>7. PICK super, class : /\ super = SpecIn(installation, modules, sp).supername
                            /\ next = class \/ next = Metaclass(class)
                            /\ class = CASE super = Nil -> IF sp.side = "metaclass" THEN Class("Class") ELSE Nil
                                 [] super # Nil /\ sp.module = Kernel ->
                                        IF super \in DOMAIN installation.kernel THEN Class(super) ELSE Nil
                                 [] OTHER -> IF super = "Module" THEN Class(super)
                                             ELSE MeantIn(installation, kernelModules, sp.module,
                                                          modules[sp.module].path, super)
    BY <1>3 DEF AboveIn
  <1>8. Class("Class").module = Kernel /\ Class(super).module = Kernel
    BY DEF Class, Kernel
  <1>9. class # Nil
    BY <1>3, <1>5, <1>7 DEF AboveIn
  <1>10. /\ class.module = Kernel \/ class.module \in Range(kernelModules)
         /\ Metaclass(class).module = class.module
    <2>1. CASE super = Nil \/ sp.module = Kernel \/ super = "Module"
      <3>1. class = Class("Class") \/ class = Class(super)
        BY <1>7, <1>9, <2>1
      <3>2. PICK k, name : k = Kernel /\ class = ClassIn(k, name)
        BY <3>1 DEF Class, ClassIn, Kernel
      <3>3. Metaclass(class).module = k
        BY <3>2, MetaclassModule
      <3> QED
        BY <1>8, <3>1, <3>2, <3>3
    <2>2. CASE super # Nil /\ sp.module # Kernel /\ super # "Module"
      <3>1. PICK path, m : path = modules[sp.module].path /\ m = sp.module
        OBVIOUS
      <3>2. path \in DOMAIN kernelModules /\ path # <<"Kernel">> /\ DOMAIN modules # {}
        BY <2>2, <3>1, VisibleModule
      <3>3. Inv /\ CompleteInv /\ Unambiguous(installation)
        BY DEF LooksInv, Clear
      <3>4. SettledAt(installation, path, kernelModules)
        BY <3>2, <3>3, RegisteredAre
      <3>5. class = MeantIn(installation, kernelModules, m, path, super)
        BY <1>7, <2>2, <3>1
      <3>6. /\ class.module \in {m, Kernel} \cup Range(kernelModules)
            /\ class = ClassIn(class.module, super)
        BY <3>4, <3>5, WhereMeant
      <3>7. PICK k : k = class.module
        OBVIOUS
      <3>8. Metaclass(class).module = k
        BY <3>6, <3>7, MetaclassModule
      <3> QED
        BY <1>1, <2>2, <3>1, <3>6, <3>7, <3>8
    <2> QED
      BY <2>1, <2>2
  <1>11. next.module = class.module
    BY <1>7, <1>10
  <1>12. phase \notin {"specs", "initial", "instantiate", "initialize", "namespace", "methods"}
    BY DEF Visible
  <1> QED
    BY <1>6, <1>10, <1>11, <1>12 DEF Visible

(* There are finitely many species, for the sources are finite.            *)
LEMMA ObjectsFinite ==
  ASSUME LooksInv, \A sp \in DOMAIN objects : OfSource(sp, installation, modules, kernelModules)
  PROVE  IsFiniteSet(DOMAIN objects)
  <1>1. PICK kernel, N, f : /\ kernel = DOMAIN installation.kernel /\ N = DOMAIN modules
                            /\ f = [m \in N |-> IF m = Kernel THEN {}
                                                ELSE DOMAIN installation.modules[modules[m].path].classes]
    OBVIOUS
  <1>2. /\ IsFiniteSet(N) /\ installation \in Installations /\ SourcesInv
        /\ \A sp \in DOMAIN objects : sp.module \in N \cup {Kernel}
    BY <1>1 DEF LooksInv, Inv, BootInv, LoaderInv, LookInv, LinksInv, ModuleInv, ModulesLinked
  <1>3. IsFiniteSet(kernel)
    BY <1>1, <1>2, InstallationsAssumption DEF InstallationOK
  <1>4. ASSUME NEW m \in N PROVE IsFiniteSet(f[m])
    <2>1. CASE m = Kernel
      BY <1>1, <2>1, FS_EmptySet
    <2>2. CASE m # Kernel
      <3>1. PICK path : path = modules[m].path
        OBVIOUS
      <3>2. path \in DOMAIN installation.modules
        BY <1>1, <1>2, <2>2, <3>1 DEF SourcesInv, KnowsNames
      <3>3. IsFiniteSet(DOMAIN installation.modules[path].classes)
        BY <1>2, <3>2, ModuleSource DEF ModuleSourceOK
      <3> QED
        BY <1>1, <2>2, <3>1, <3>3
    <2> QED
      BY <2>1, <2>2
  <1>5. PICK all, names : all = {f[m] : m \in N} /\ names = UNION all
    OBVIOUS
  <1>6. IsFiniteSet(all)
    <2>1. f \in Surjection(N, all)
      BY <1>1, <1>5 DEF Surjection
    <2> QED
      BY <1>2, <2>1, FS_Surjection
  <1>7. IsFiniteSet(names)
    <2>1. \A T \in all : IsFiniteSet(T)
      BY <1>4, <1>5
    <2> QED
      BY <1>5, <1>6, <2>1, FS_UNION
  <1>8. PICK sides, places, every : /\ sides = {"class", "metaclass"} /\ places = N \cup {Kernel}
                                    /\ every = kernel \cup names
    OBVIOUS
  <1>9. IsFiniteSet(sides) /\ IsFiniteSet(places) /\ IsFiniteSet(every)
    <2>1. IsFiniteSet({Kernel}) /\ IsFiniteSet({"class"})
      BY FS_Singleton
    <2>2. IsFiniteSet(sides)
      BY <1>8, <2>1, FS_AddElement
    <2>3. IsFiniteSet(places)
      BY <1>2, <1>8, <2>1, FS_Union
    <2>4. IsFiniteSet(every)
      BY <1>3, <1>7, <1>8, FS_Union
    <2> QED
      BY <2>2, <2>3, <2>4
  <1>10. PICK two, three : two = sides \X places /\ three = two \X every
    OBVIOUS
  <1>11. IsFiniteSet(three)
    <2>1. IsFiniteSet(two)
      BY <1>9, <1>10, FS_Product
    <2> QED
      BY <1>9, <1>10, <2>1, FS_Product
  <1>12. ASSUME NEW sp \in DOMAIN objects
         PROVE  /\ sp \in Species /\ sp.side \in sides /\ sp.module \in places /\ sp.name \in every
    <2>1. OfSource(sp, installation, modules, kernelModules)
      OBVIOUS
    <2>2. CASE sp.module = Kernel
      BY <1>1, <1>8, <2>1, <2>2 DEF OfSource
    <2>3. CASE sp.module # Kernel
      <3>1. PICK m : m = sp.module
        BY SMTT(30)
      <3>2. m \in N /\ sp.name \in f[m]
        BY <1>1, <1>2, <2>1, <2>3, <3>1, Zenon DEF OfSource
      <3>3. sp.name \in names
        BY <1>5, <3>2
      <3> QED
        BY <1>2, <1>8, <2>1, <3>3 DEF OfSource
    <2> QED
      BY <2>2, <2>3
  <1>13. PICK D, g : D = DOMAIN objects /\ g = [sp \in D |-> <<<<sp.side, sp.module>>, sp.name>>]
    OBVIOUS
  <1>14. g \in [D -> three]
    BY <1>10, <1>12, <1>13
  <1>15. ASSUME NEW x \in D, NEW y \in D, g[x] = g[y] PROVE x = y
    <2>1. x \in Species /\ y \in Species
      BY <1>12, <1>13
    <2>2. x.side = y.side /\ x.module = y.module /\ x.name = y.name
      BY <1>13, <1>15
    <2> QED
      BY <2>1, <2>2 DEF Species
  <1>16. g \in Injection(D, three)
    BY <1>14, <1>15 DEF Injection, IsInjective
  <1> QED
    BY <1>11, <1>13, <1>16, FS_Injection

-----------------------------------------------------------------------------
(* A lookup goes through the species that the sources have above one       *)
(* another.                                                                *)
NextStep(c, chain, i) ==
    LET up == behaviorNext(Last(chain)) IN IF up = Nil THEN chain ELSE Append(chain, up)
AboveStep(c, chain, i) ==
    LET up == Above(Last(chain)) IN IF up = Nil THEN chain ELSE Append(chain, up)
SameSoFar(c, chain) ==
    /\ chain = c.chain
    /\ IsSeq(chain) /\ Len(chain) # 0 /\ \A i \in 1 .. Len(chain) : chain[i] \in c.visible
Going == INSTANCE FoldInduction WITH step <- NextStep, Holds <- SameSoFar
Rising == INSTANCE FoldInduction WITH step <- AboveStep, Holds <- SameSoFar

(* Both ways up are folds of their steps.                                  *)
LEMMA LoopsAre ==
  ASSUME NEW sp, NEW c, NEW base, base = <<sp>>, NEW seq, seq = [i \in 1 .. Cardinality(DOMAIN objects) |-> i]
  PROVE  Chain(sp) = Going!Loop(c, base, seq) /\ Lineage(sp) = Rising!Loop(c, base, seq)
  <1>1. Chain(sp) = Going!Loop(c, base, seq)
    BY DEF Chain, Upwards, NextStep, Going!Loop, Folded, Going!Folded
  <1>2. Lineage(sp) = Rising!Loop(c, base, seq)
    BY DEF Lineage, Upwards, AboveStep, Rising!Loop, Folded, Rising!Folded
  <1> QED
    BY <1>1, <1>2

(* One step further both ways.                                             *)
LEMMA SameStep ==
  ASSUME LooksInv, NEW visible, visible = Visible, NEW chain, IsSeq(chain), Len(chain) # 0,
         \A i \in 1 .. Len(chain) : chain[i] \in visible,
         NEW c, NEW n
  PROVE  /\ AboveStep(c, chain, n) = NextStep(c, chain, n)
         /\ IsSeq(NextStep(c, chain, n)) /\ Len(NextStep(c, chain, n)) # 0
         /\ \A i \in 1 .. Len(NextStep(c, chain, n)) : NextStep(c, chain, n)[i] \in visible
  <1>1. Len(chain) \in Nat
    BY DEF IsSeq
  <1>2. PICK sp : sp = Last(chain)
    OBVIOUS
  <1>3. sp \in Visible
    BY <1>1, <1>2 DEF Last
  <1>4. PICK up : up = objects[sp].next
    OBVIOUS
  <1>5. Above(sp) = up /\ (up = Nil \/ up \in visible)
    BY <1>3, <1>4, VisibleAbove
  <1>6. PICK new : new = IF up = Nil THEN chain ELSE Append(chain, up)
    OBVIOUS
  <1>7. NextStep(c, chain, n) = new
    BY <1>2, <1>4, <1>6 DEF NextStep, behaviorNext
  <1>8. AboveStep(c, chain, n) = new
    BY <1>2, <1>5, <1>6 DEF AboveStep
  <1>9. IsSeq(new) /\ Len(new) # 0 /\ \A i \in 1 .. Len(new) : new[i] \in visible
    <2>1. CASE up = Nil
      BY <1>6, <2>1
    <2>2. CASE up # Nil
      <3>1. new = Append(chain, up) /\ up \in visible
        BY <1>5, <1>6, <2>2
      <3>2. /\ IsSeq(new) /\ Len(new) = Len(chain) + 1
            /\ \A i \in 1 .. Len(chain) + 1 : new[i] = IF i = Len(chain) + 1 THEN up ELSE chain[i]
        BY <3>1, Appended
      <3>3. \A i \in 1 .. Len(chain) + 1 : i # Len(chain) + 1 => i \in 1 .. Len(chain)
        BY <1>1
      <3>4. Len(chain) + 1 # 0
        BY <1>1
      <3> QED
        BY <3>1, <3>2, <3>3, <3>4
    <2> QED
      BY <2>1, <2>2
  <1> QED
    BY <1>7, <1>8, <1>9

(* All the way up.                                                         *)
LEMMA ChainIsLineage ==
  ASSUME LooksInv, NEW sp \in Visible
  PROVE  /\ Lineage(sp) = Chain(sp) /\ IsSeq(Chain(sp))
         /\ \A i \in 1 .. Len(Chain(sp)) : Chain(sp)[i] \in Visible
  <1>1. PICK n, visible, c, base, seq : /\ n = Cardinality(DOMAIN objects) /\ visible = Visible /\ c = {}
                                        /\ base = <<sp>> /\ seq = [i \in 1 .. n |-> i]
    OBVIOUS
  <1>2. n \in Nat
    <2>1. \A x \in DOMAIN objects : OfSource(x, installation, modules, kernelModules)
      BY DEF LooksInv, LookInv, SourcesInv
    <2> QED
      BY <1>1, <2>1, ObjectsFinite, FS_CardinalityType
  <1>3. Len(seq) = n
    <2>1. seq \in Seq(Nat) /\ DOMAIN seq = 1 .. n
      <3>1. seq \in [1 .. n -> Nat]
        BY <1>1, <1>2
      <3> QED
        BY <1>1, <1>2, <3>1, SeqDef
    <2> QED
      BY <1>2, <2>1, LenProperties
  <1>4. Chain(sp) = Going!Loop(c, base, seq) /\ Lineage(sp) = Rising!Loop(c, base, seq)
    BY <1>1, LoopsAre
  <1>5. PICK f : /\ Going!Records(c, base, seq, n, f)
                 /\ Going!Loop(c, base, seq) = f[n]
    BY <1>2, <1>3, Going!LoopRecorded
  <1>6. f[0] = base /\ \A k \in 1 .. n : f[k] = NextStep(c, f[k - 1], seq[k])
    <2>1. f = [k \in 0 .. n |-> IF k = 0 THEN base ELSE NextStep(c, f[k - 1], seq[k])]
      BY <1>5 DEF Going!Records
    <2>2. 0 \in 0 .. n /\ \A k \in 1 .. n : k \in 0 .. n /\ k # 0
      BY <1>2
    <2> QED
      BY <2>1, <2>2
  <1>7. PICK at : at = [k \in 0 .. n |-> [chain |-> f[k], visible |-> visible]]
    OBVIOUS
  <1>8. \A k \in 0 .. n : at[k].chain = f[k] /\ at[k].visible = visible
    BY <1>7
  <1>9. SameSoFar(at[0], base)
    <2>1. IsSeq(base) /\ Len(base) = 1 /\ base[1] = sp
      <3>1. base \in Seq({sp})
        BY <1>1
      <3>2. Len(base) = 1 /\ base[1] = sp
        BY <1>1
      <3> QED
        BY <3>1, <3>2, SeqIs
    <2>2. \A i \in 1 .. Len(base) : base[i] \in visible
      BY <1>1, <2>1
    <2> QED
      BY <1>2, <1>6, <1>8, <2>1, <2>2 DEF SameSoFar
  <1>10. ASSUME NEW u, NEW k \in 1 .. n, SameSoFar(at[k - 1], u)
         PROVE  SameSoFar(at[k], AboveStep(c, u, seq[k]))
    <2>1. k \in 0 .. n /\ k - 1 \in 0 .. n
      BY <1>2
    <2>2. /\ u = f[k - 1] /\ IsSeq(u) /\ Len(u) # 0
          /\ \A i \in 1 .. Len(u) : u[i] \in visible
      BY <1>8, <1>10, <2>1 DEF SameSoFar
    <2>3. PICK e, v, w : e = seq[k] /\ v = NextStep(c, u, e) /\ w = AboveStep(c, u, e)
      OBVIOUS
    <2>4. w = v /\ IsSeq(v) /\ Len(v) # 0 /\ \A i \in 1 .. Len(v) : v[i] \in visible
      BY <1>1, <2>2, <2>3, SameStep
    <2>5. v = f[k]
      BY <1>6, <2>2, <2>3
    <2>6. SameSoFar(at[k], w)
      BY <1>8, <2>1, <2>4, <2>5 DEF SameSoFar
    <2> QED
      BY <2>3, <2>6
  <1>11. SameSoFar(at[n], Rising!Loop(c, base, seq))
    BY <1>2, <1>3, <1>9, <1>10, Rising!LoopProceeds
  <1>12. PICK all : all = Lineage(sp)
    OBVIOUS
  <1>13. SameSoFar(at[n], all) /\ at[n].chain = f[n] /\ at[n].visible = visible
    BY <1>2, <1>4, <1>8, <1>11, <1>12
  <1>14. all = f[n] /\ IsSeq(all) /\ \A i \in 1 .. Len(all) : all[i] \in visible
    BY <1>13 DEF SameSoFar
  <1>15. Chain(sp) = all
    BY <1>4, <1>5, <1>14
  <1> QED
    BY <1>1, <1>12, <1>14, <1>15

-----------------------------------------------------------------------------
(* The symbol that the runtime answers for a name is the only one of that  *)
(* name, and there is none when it answers nil.                            *)
LEMMA SymbolKnown ==
  ASSUME Inv, LinksInv, KnownSymbols, NEW name, NEW symbol, symbol = existingSymbolFor(name)
  PROVE  IF symbol = Nil THEN \A s \in Universe : s.name # name
         ELSE symbol \in Universe /\ symbol.name = name
  <1>1. /\ Unique(Universe) /\ Universe \subseteq Symbol
        /\ \A n \in DOMAIN symbols : symbols[n].name = n
    BY DEF Inv, BootInv, SymbolInv, KnownSymbols
  <1>2. provider \in {"bootstrap", "dynamic"}
    BY DEF LinksInv, KernelInv
  <1>3. \A s \in Universe : s # Nil
    BY <1>1, NilAssumption
  <1>4. CASE provider = "bootstrap"
    <2>1. Universe = Range(symbols)
      BY <1>4 DEF KnownSymbols, Universe
    <2>2. CASE name \in DOMAIN symbols
      <3>1. symbol = symbols[name]
        BY <1>4, <2>2 DEF existingSymbolFor
      <3>2. symbol \in Universe /\ symbol.name = name
        BY <1>1, <2>1, <2>2, <3>1 DEF Range
      <3> QED
        BY <1>3, <3>2
    <2>3. CASE name \notin DOMAIN symbols
      <3>1. symbol = Nil
        BY <1>4, <2>3 DEF existingSymbolFor
      <3>2. \A s \in Universe : s.name # name
        BY <1>1, <2>1, <2>3 DEF Range
      <3> QED
        BY <3>1, <3>2
    <2> QED
      BY <2>2, <2>3
  <1>5. CASE provider = "dynamic"
    <2>1. Universe = symbolTable
      BY <1>5 DEF KnownSymbols, Universe
    <2>2. PICK table : table = symbolTable
      OBVIOUS
    <2>3. CASE ExistingSymbols(table, name) = {}
      <3>1. symbol = Nil
        BY <1>5, <2>2, <2>3 DEF existingSymbolFor
      <3>2. \A s \in table : s.name # name
        BY <2>3 DEF ExistingSymbols
      <3> QED
        BY <2>1, <2>2, <3>1, <3>2
    <2>4. CASE ExistingSymbols(table, name) # {}
      <3>1. symbol = DynamicSymbol(table, name)
        BY <1>5, <2>2, <2>4 DEF existingSymbolFor
      <3>2. PICK s \in table : s.name = name
        BY <2>4 DEF ExistingSymbols
      <3>3. WithSymbols(table, {name}) = table
        BY <2>4 DEF WithSymbols
      <3>4. symbol = CHOOSE t \in table : t.name = name
        BY <3>1, <3>3 DEF DynamicSymbol
      <3>5. symbol \in table /\ symbol.name = name
        BY <3>2, <3>4
      <3> QED
        BY <1>3, <2>1, <2>2, <3>5
    <2> QED
      BY <2>3, <2>4
  <1> QED
    BY <1>2, <1>4, <1>5

(* The last of the methods for a selector is the one that counts.          *)
Compiled(methods, selector) ==
    {i \in DOMAIN methods : methods[i].selector = selector /\ methods[i].compiles}
OnlyOne(all, selector, source) ==
    /\ source \in STRING /\ <<selector, source>> \in all
    /\ \A s : <<selector, s>> \in all => s = source
NoneOf(all, selector) == \A d \in all : d[1] # selector
LEMMA LastIs ==
  ASSUME NEW methods \in Seq(MethodSpec), NEW selector, NEW found, found = Compiled(methods, selector),
         NEW last, last = methods[Max(found)].source
  PROVE  IF found = {} THEN NoneOf(LastOnes(methods), selector)
         ELSE OnlyOne(LastOnes(methods), selector, last)
  <1>1. PICK n : n = Len(methods)
    OBVIOUS
  <1>2. n \in Nat /\ DOMAIN methods = 1 .. n /\ \A i \in 1 .. n : methods[i] \in MethodSpec
    BY <1>1, LenProperties
  <1>3. LastOnes(methods)
          = {<<methods[i].selector, methods[i].source>> : i \in {x \in 1 .. n : IsLast(methods, n, x)}}
    BY <1>1 DEF LastOnes, LastOf
  <1>4. CASE found = {}
    <2>1. \A i \in 1 .. n : methods[i].selector = selector => ~methods[i].compiles
      BY <1>2, <1>4 DEF Compiled
    <2>2. ASSUME NEW d \in LastOnes(methods) PROVE d[1] # selector
      <3>1. PICK i \in 1 .. n : IsLast(methods, n, i) /\ d = <<methods[i].selector, methods[i].source>>
        BY <1>3, <2>2
      <3>2. methods[i].compiles /\ d[1] = methods[i].selector
        BY <3>1 DEF IsLast
      <3> QED
        BY <2>1, <3>2
    <2> QED
      BY <1>4, <2>2 DEF NoneOf
  <1>5. CASE found # {}
    <2>1. PICK j : j = Max(found)
      OBVIOUS
    <2>2. found \subseteq 1 .. n
      BY <1>2 DEF Compiled
    <2>3. j \in found /\ \A i \in found : j >= i
      BY <1>2, <1>5, <2>1, <2>2, MaxIn
    <2>4. j \in 1 .. n /\ methods[j].selector = selector /\ methods[j].compiles
      BY <1>2, <2>3 DEF Compiled
    <2>5. ASSUME NEW i \in 1 .. n, methods[i].selector = selector, methods[i].compiles
          PROVE  j >= i
      BY <1>2, <2>3, <2>5 DEF Compiled
    <2>6. IsLast(methods, n, j)
      <3>1. ASSUME NEW i \in 1 .. n, i > j, methods[i].selector = methods[j].selector
            PROVE  ~methods[i].compiles
        BY <1>2, <2>4, <2>5, <3>1
      <3> QED
        BY <2>4, <3>1 DEF IsLast
    <2>7. ASSUME NEW i \in 1 .. n, IsLast(methods, n, i), methods[i].selector = selector
          PROVE  i = j
      <3>1. methods[i].compiles
        BY <2>7 DEF IsLast
      <3>2. j >= i
        BY <2>5, <2>7, <3>1
      <3>3. ~(j > i)
        BY <2>4, <2>7 DEF IsLast
      <3> QED
        BY <1>2, <2>4, <3>2, <3>3
    <2>8. <<selector, methods[j].source>> \in LastOnes(methods)
      BY <1>3, <2>4, <2>6
    <2>9. ASSUME NEW s, <<selector, s>> \in LastOnes(methods) PROVE s = methods[j].source
      <3>1. PICK i \in 1 .. n : /\ IsLast(methods, n, i)
                                /\ <<selector, s>> = <<methods[i].selector, methods[i].source>>
        BY <1>3, <2>9
      <3>2. selector = methods[i].selector /\ s = methods[i].source
        BY <3>1
      <3> QED
        BY <2>7, <3>1, <3>2
    <2>10. methods[j].source \in STRING
      BY <1>2, <2>4 DEF MethodSpec
    <2> QED
      BY <1>5, <2>1, <2>8, <2>9, <2>10 DEF OnlyOne
  <1> QED
    BY <1>4, <1>5

(* What extends a species is among the extensions of its module.           *)
LEMMA ExtensionListed ==
  ASSUME NEW sp, NEW selector, NEW p, ExtendedBy(p, sp, selector)
  PROVE  <<selector, kernelModules[p]>>
            \in ExtensionsIn(installation, kernelModules, kernelModules[p], p, sp)
  <1>1. PICK kernels, files : kernels = kernelModules /\ files = installation
    OBVIOUS
  <1>2. PICK source, name, m : source = files.modules[p] /\ name = sp.name /\ m = kernels[p]
    OBVIOUS
  <1>3. PICK methods : methods = MethodsOfSide(sp, source.extensions[name])
    OBVIOUS
  <1>4. /\ name \in DOMAIN source.extensions /\ name \in Known(source) /\ Meant(p, name) = ClassOf(sp)
        /\ \E i \in DOMAIN methods : methods[i].selector = selector
    BY <1>1, <1>2, <1>3 DEF ExtendedBy
  <1>5. <<selector, m>> \in SelectorsOf(methods, m)
    BY <1>4 DEF SelectorsOf
  <1>6. MeantIn(files, kernels, m, p, name) = ClassOf(sp)
    BY <1>1, <1>2, <1>4, MeantSame
  <1>7. <<selector, kernels[p]>> \in ExtensionsIn(files, kernels, kernels[p], p, sp)
    BY <1>2, <1>3, <1>4, <1>5, <1>6 DEF ExtensionsIn
  <1> QED
    BY <1>1, <1>7

(* An extender is among what extends a species.                            *)
LEMMA ExtenderExtends ==
  ASSUME NEW sp, NEW selector, NEW p \in Extenders(sp, selector)
  PROVE  <<selector, kernelModules[p]>> \in ExtendedWith(installation, kernelModules, sp)
  <1>1. PICK kernels, files : kernels = kernelModules /\ files = installation
    OBVIOUS
  <1>2. p \in LoadedPaths /\ ExtendedBy(p, sp, selector)
    BY DEF Extenders
  <1>3. <<selector, kernels[p]>> \in ExtensionsIn(files, kernels, kernels[p], p, sp)
    BY <1>1, <1>2, ExtensionListed
  <1>4. ExtendedWith(files, kernels, sp)
          = UNION {ExtensionsIn(files, kernels, kernels[q], q, sp) : q \in LoadedPaths}
    BY <1>1 DEF ExtendedWith, LoadedPaths
  <1> QED
    BY <1>1, <1>2, <1>3, <1>4

(* What extends a species.                                                 *)
LEMMA ExtendersAre ==
  ASSUME NEW sp, NEW selector, NEW all, all = ExtendedWith(installation, kernelModules, sp)
  PROVE  /\ Extenders(sp, selector) = {} <=> \A e \in all : e[1] # selector
         /\ \A m : <<selector, m>> \in all => m \in {kernelModules[p] : p \in Extenders(sp, selector)}
  <1>1. PICK kernels, files : kernels = kernelModules /\ files = installation
    OBVIOUS
  <1>2. ASSUME NEW p, NEW e \in ExtensionsIn(files, kernels, kernels[p], p, sp)
        PROVE  e = <<e[1], kernels[p]>> /\ ExtendedBy(p, sp, e[1])
    <2>1. PICK source, name, m : source = files.modules[p] /\ name = sp.name /\ m = kernels[p]
      OBVIOUS
    <2>2. PICK methods : methods = MethodsOfSide(sp, source.extensions[name])
      OBVIOUS
    <2>3. /\ name \in DOMAIN source.extensions /\ name \in Known(source)
          /\ MeantIn(files, kernels, m, p, name) = ClassOf(sp)
          /\ e \in SelectorsOf(methods, m)
      BY <1>2, <2>1, <2>2 DEF ExtensionsIn
    <2>4. PICK i \in DOMAIN methods : e = <<methods[i].selector, m>>
      BY <2>3 DEF SelectorsOf
    <2>5. Meant(p, name) = ClassOf(sp)
      BY <1>1, <2>1, <2>3, MeantSame
    <2> QED
      BY <1>1, <2>1, <2>2, <2>3, <2>4, <2>5 DEF ExtendedBy
  <1>3. ASSUME NEW p, ExtendedBy(p, sp, selector)
        PROVE  <<selector, kernels[p]>> \in ExtensionsIn(files, kernels, kernels[p], p, sp)
    BY <1>1, <1>3, ExtensionListed
  <1>4. all = UNION {ExtensionsIn(files, kernels, kernels[p], p, sp) : p \in LoadedPaths}
    BY <1>1 DEF ExtendedWith, LoadedPaths
  <1>5. ASSUME NEW e \in all, e[1] = selector
        PROVE  \E p \in Extenders(sp, selector) : e = <<selector, kernels[p]>>
    <2>1. PICK p \in LoadedPaths : e \in ExtensionsIn(files, kernels, kernels[p], p, sp)
      BY <1>4
    <2>2. e = <<selector, kernels[p]>> /\ ExtendedBy(p, sp, selector)
      BY <1>2, <1>5, <2>1
    <2> QED
      BY <2>1, <2>2 DEF Extenders
  <1>6. ASSUME NEW p \in Extenders(sp, selector) PROVE <<selector, kernels[p]>> \in all
    BY <1>1, ExtenderExtends
  <1>7. Extenders(sp, selector) = {} <=> \A e \in all : e[1] # selector
    <2>1. ASSUME Extenders(sp, selector) # {} PROVE \E e \in all : e[1] = selector
      <3>1. PICK p \in Extenders(sp, selector) : TRUE
        BY <2>1
      <3>2. PICK e : e = <<selector, kernels[p]>>
        OBVIOUS
      <3>3. e \in all /\ e[1] = selector
        BY <1>6, <3>2
      <3> QED
        BY <3>3
    <2> QED
      BY <1>5, <2>1
  <1>8. ASSUME NEW m, <<selector, m>> \in all
        PROVE  m \in {kernelModules[p] : p \in Extenders(sp, selector)}
    <2>1. PICK e : e = <<selector, m>>
      OBVIOUS
    <2>2. PICK p \in Extenders(sp, selector) : e = <<selector, kernels[p]>>
      BY <1>5, <1>8, <2>1
    <2> QED
      BY <1>1, <2>1, <2>2
  <1> QED
    BY <1>7, <1>8

-----------------------------------------------------------------------------
(* The methods that the properties read in the sources are those that the  *)
(* invariant speaks of.                                                    *)
LEMMA DefinitionsAre ==
  ASSUME LooksInv, NEW sp \in Visible
  PROVE  /\ Definitions(sp) = MethodsOf(installation, modules, sp)
         /\ Definitions(sp) \in Seq(MethodSpec)
  <1>1. PICK files, mods, spec0 : /\ files = installation /\ mods = modules
                                  /\ spec0 = SpecIn(files, mods, sp)
    OBVIOUS
  <1>2. OfSource(sp, files, mods, kernelModules) /\ InstallationOK(files)
    BY <1>1, VisibleIs, InstallationsAssumption DEF LooksInv, Inv, BootInv
  <1>3. SpecOf(sp) = spec0
    BY <1>1 DEF SpecOf, SpecIn
  <1>4. spec0 \in ClassSpec
    <2>1. CASE sp.module = Kernel
      BY <1>1, <1>2, <2>1 DEF SpecIn, OfSource, InstallationOK
    <2>2. CASE sp.module # Kernel
      <3>1. PICK path, source : path = mods[sp.module].path /\ source = files.modules[path]
        OBVIOUS
      <3>2. sp.name \in DOMAIN source.classes
        BY <1>2, <2>2, <3>1 DEF OfSource
      <3>3. path \in DOMAIN files.modules
        <4>1. sp.module \in Range(kernelModules) /\ SourcesInv
          BY <2>2, VisibleIs DEF LooksInv, LookInv
        <4>2. sp.module \in DOMAIN modules \ {Kernel}
          BY <2>2, <4>1 DEF LooksInv, LinksInv, ModuleInv
        <4>3. KnowsNames(modules[sp.module], sp.module, installation)
          BY <4>1, <4>2 DEF SourcesInv
        <4> QED
          BY <1>1, <3>1, <4>3 DEF KnowsNames
      <3>4. ModuleSourceOK(source)
        BY <1>2, <3>1, <3>3 DEF InstallationOK
      <3>5. spec0 = source.classes[sp.name]
        BY <1>1, <2>2, <3>1 DEF SpecIn
      <3> QED
        BY <3>2, <3>4, <3>5 DEF ModuleSourceOK
    <2> QED
      BY <2>1, <2>2
  <1>5. PICK own, more : /\ own = MethodsOfSide(sp, spec0)
                         /\ more = IF sp.module = Kernel /\ sp.name \in DOMAIN files.vm
                                   THEN MethodsOfSide(sp, files.vm[sp.name]) ELSE <<>>
    OBVIOUS
  <1>6. own \in Seq(MethodSpec)
    BY <1>4, <1>5 DEF MethodsOfSide, ClassSpec
  <1>7. more \in Seq(MethodSpec)
    <2>1. CASE sp.module = Kernel /\ sp.name \in DOMAIN files.vm
      <3>1. files.vm[sp.name] \in ExtensionSpec
        BY <1>2, <2>1 DEF InstallationOK
      <3>2. PICK v : v = files.vm[sp.name]
        OBVIOUS
      <3>3. more = MethodsOfSide(sp, v) /\ v \in ExtensionSpec
        BY <1>5, <2>1, <3>1, <3>2
      <3> QED
        BY <3>3 DEF MethodsOfSide, ExtensionSpec
    <2>2. CASE ~(sp.module = Kernel /\ sp.name \in DOMAIN files.vm)
      BY <1>5, <2>2
    <2> QED
      BY <2>1, <2>2
  <1>8. Definitions(sp) = own \o more
    BY <1>1, <1>3, <1>5 DEF Definitions
  <1>9. MethodsOf(installation, modules, sp) = own \o more
    BY <1>1, <1>5 DEF MethodsOf
  <1> QED
    BY <1>6, <1>7, <1>8, <1>9, ConcatProperties

(* The method that the properties call the definition.                     *)
LEMMA DefinitionIs ==
  ASSUME LooksInv, NEW sp \in Visible, NEW selector, NEW defined,
         defined = Defined(installation, modules, sp)
  PROVE  /\ Definition(sp, selector) = Nil => \A d \in defined : d[1] # selector
         /\ Definition(sp, selector) # Nil => <<selector, Definition(sp, selector)>> \in defined
         /\ \A s : <<selector, s>> \in defined => s = Definition(sp, selector)
  <1>1. PICK methods : methods = Definitions(sp)
    OBVIOUS
  <1>2. methods = MethodsOf(installation, modules, sp) /\ methods \in Seq(MethodSpec)
    BY <1>1, DefinitionsAre
  <1>3. defined = LastOnes(methods)
    BY <1>2 DEF Defined
  <1>4. PICK found : found = Compiled(methods, selector)
    OBVIOUS
  <1>5. PICK last, answer : /\ last = methods[Max(found)].source
                            /\ answer = IF found = {} THEN Nil ELSE last
    OBVIOUS
  <1>6. Definition(sp, selector) = answer
    BY <1>1, <1>4, <1>5 DEF Definition, Compiled
  <1>7. IF found = {} THEN \A d \in defined : d[1] # selector
        ELSE /\ answer \in STRING /\ <<selector, answer>> \in defined
             /\ \A s : <<selector, s>> \in defined => s = answer
    <2>1. IF found = {} THEN NoneOf(LastOnes(methods), selector)
          ELSE OnlyOne(LastOnes(methods), selector, last)
      BY <1>2, <1>4, <1>5, LastIs
    <2> QED
      BY <1>3, <1>5, <2>1 DEF NoneOf, OnlyOne
  <1>8. answer \in STRING => answer # Nil
    BY NilAssumption
  <1>9. \A s : <<selector, s>>[1] = selector
    OBVIOUS
  <1> QED
    BY <1>5, <1>6, <1>7, <1>8, <1>9

(* What a behavior answers for a selector is what the sources have there.  *)
LEMMA FoundHere ==
  ASSUME LooksInv, NEW sp \in Visible, NEW selector, NEW symbol,
         symbol = existingSymbolFor(selector), symbol # Nil
  PROVE  /\ methodFor(symbol, sp) # Nil <=> \/ Definition(sp, selector) # Nil
                                            \/ Extenders(sp, selector) # {}
         /\ methodFor(symbol, sp) # Nil => FromSource(methodFor(symbol, sp), sp, selector)
  <1>1. PICK pairs, defined, extended : /\ pairs = objects[sp].md.pairs
                                        /\ defined = Defined(installation, modules, sp)
                                        /\ extended = ExtendedWith(installation, kernelModules, sp)
    OBVIOUS
  <1>2. IsFaithful(sp) /\ PairsOK(pairs, Universe)
    BY <1>1, VisibleIs
  <1>3. Says(pairs, sp, defined, extended)
    BY <1>1, <1>2 DEF IsFaithful, Faithful
  <1>4. Unique(Universe) /\ symbol \in Universe /\ symbol.name = selector
    <2>1. Inv /\ LinksInv /\ KnownSymbols
      BY DEF LooksInv, LookInv
    <2> QED
      BY <2>1, SymbolKnown DEF Inv, BootInv, SymbolInv
  <1>5. \A x \in PairsOf(pairs) : x[2] \in Method
    BY <1>3 DEF Says, Answers
  <1>6. PICK method : method = MethodAt(pairs, symbol)
    OBVIOUS
  <1>7. methodFor(symbol, sp) = method
    BY <1>1, <1>6 DEF methodFor, MethodAt
  <1>8. /\ method = Nil <=> \A x \in PairsOf(pairs) : KeyOf(x) # selector
        /\ method # Nil => \E x \in PairsOf(pairs) : KeyOf(x) = selector /\ method = x[2]
    BY <1>2, <1>4, <1>5, <1>6, MethodAtIs
  <1>9. PICK definition, extenders : /\ definition = Definition(sp, selector)
                                     /\ extenders = Extenders(sp, selector)
    OBVIOUS
  <1>10. /\ definition = Nil => \A d \in defined : d[1] # selector
         /\ definition # Nil => <<selector, definition>> \in defined
         /\ \A s : <<selector, s>> \in defined => s = definition
    BY <1>1, <1>9, DefinitionIs
  <1>11. PICK who : who = {kernelModules[p] : p \in extenders}
    OBVIOUS
  <1>12. /\ extenders = {} <=> \A e \in extended : e[1] # selector
         /\ \A m : <<selector, m>> \in extended => m \in who
    BY <1>1, <1>9, <1>11, ExtendersAre
  <1>13. \A s : <<selector, s>>[1] = selector
    OBVIOUS
  <1>14. ASSUME definition # Nil \/ extenders # {} PROVE method # Nil
    <2>1. CASE definition # Nil
      BY <1>3, <1>8, <1>10, <1>13, <2>1 DEF Says
    <2>2. CASE extenders # {}
      BY <1>3, <1>8, <1>12, <2>2 DEF Says
    <2> QED
      BY <1>14, <2>1, <2>2
  <1>15. ASSUME method # Nil
         PROVE  /\ definition # Nil \/ extenders # {}
                /\ FromSource(method, sp, selector)
    <2>1. PICK x \in PairsOf(pairs) : KeyOf(x) = selector /\ method = x[2]
      BY <1>8, <1>15
    <2>2. Answers(x, sp, defined, extended)
      BY <1>3, <2>1 DEF Says
    <2>3. method.class = sp
      BY <2>1, <2>2 DEF Answers
    <2>4. IF \E e \in extended : e[1] = selector
          THEN <<selector, method.module>> \in extended
          ELSE <<selector, method.source>> \in defined
      BY <2>1, <2>2 DEF Answers
    <2>5. CASE extenders = {}
      <3>1. <<selector, method.source>> \in defined
        BY <1>12, <2>4, <2>5
      <3>2. method.source = definition
        BY <1>10, <3>1
      <3>3. definition # Nil
        BY <1>10, <1>13, <3>1
      <3> QED
        BY <1>9, <1>15, <2>3, <2>5, <3>2, <3>3 DEF FromSource
    <2>6. CASE extenders # {}
      <3>1. <<selector, method.module>> \in extended
        BY <1>12, <2>4, <2>6
      <3>2. method.module \in who
        BY <1>12, <3>1
      <3> QED
        BY <1>9, <1>11, <1>15, <2>3, <2>6, <3>2 DEF FromSource
    <2> QED
      BY <2>5, <2>6
  <1> QED
    BY <1>7, <1>9, <1>14, <1>15

(* Where there is no symbol there is nothing.                              *)
LEMMA NothingHere ==
  ASSUME LooksInv, NEW sp \in Visible, NEW selector, existingSymbolFor(selector) = Nil
  PROVE  Definition(sp, selector) = Nil /\ Extenders(sp, selector) = {}
  <1>1. PICK pairs, defined, extended, symbol : /\ pairs = objects[sp].md.pairs
                                        /\ defined = Defined(installation, modules, sp)
                                        /\ extended = ExtendedWith(installation, kernelModules, sp)
                                        /\ symbol = existingSymbolFor(selector)
    OBVIOUS
  <1>2. IsFaithful(sp) /\ PairsOK(pairs, Universe)
    BY <1>1, VisibleIs
  <1>3. Says(pairs, sp, defined, extended)
    BY <1>1, <1>2 DEF IsFaithful, Faithful
  <1>4. \A s \in Universe : s.name # selector
    <2>1. Inv /\ LinksInv /\ KnownSymbols
      BY DEF LooksInv, LookInv
    <2> QED
      BY <1>1, <2>1, SymbolKnown
  <1>5. \A x \in PairsOf(pairs) : KeyOf(x) # selector
    BY <1>2, <1>4 DEF PairsOf, PairsOK, KeyOf
  <1>6. PICK definition, extenders : /\ definition = Definition(sp, selector)
                                     /\ extenders = Extenders(sp, selector)
    OBVIOUS
  <1>7. definition # Nil => <<selector, definition>> \in defined
    BY <1>1, <1>6, DefinitionIs
  <1>8. extenders = {} <=> \A e \in extended : e[1] # selector
    BY <1>1, <1>6, ExtendersAre
  <1>9. \A s : <<selector, s>>[1] = selector
    OBVIOUS
  <1>10. definition = Nil
    BY <1>3, <1>5, <1>7, <1>9 DEF Says
  <1>11. extenders = {}
    BY <1>3, <1>5, <1>8 DEF Says
  <1> QED
    BY <1>6, <1>10, <1>11

(* What has to be shown follows from the invariant: the first of the       *)
(* behaviors that has a method is the first species that has one in the    *)
(* sources.                                                                *)
Having(lineage, selector) ==
    {i \in DOMAIN lineage : Definition(lineage[i], selector) # Nil \/ Extenders(lineage[i], selector) # {}}
Hits(lineage, symbol) == {i \in DOMAIN lineage : methodFor(symbol, lineage[i]) # Nil}
IsRight(found, lineage, having, selector) ==
    IF having = {} THEN found = Nil ELSE FromSource(found, lineage[Min(having)], selector)
Looked(sp, selector) ==
    IsRight(IF existingSymbolFor(selector) = Nil THEN Nil ELSE doLookup(existingSymbolFor(selector), sp),
            Lineage(sp), Having(Lineage(sp), selector), selector)
LEMMA LooksRight ==
  ASSUME LooksInv PROVE LookupFindsSource
  <1> SUFFICES ASSUME NEW sp \in Visible, NEW selector \in Selectors
               PROVE  Looked(sp, selector)
    BY DEF LookupFindsSource, Looked, IsRight, Having
  <1>1. PICK lineage, symbol, having, found :
           /\ lineage = Lineage(sp) /\ symbol = existingSymbolFor(selector)
           /\ having = Having(lineage, selector)
           /\ found = IF symbol = Nil THEN Nil ELSE doLookup(symbol, sp)
    OBVIOUS
  <1> SUFFICES IsRight(found, lineage, having, selector)
    BY <1>1 DEF Looked
  <1>2. /\ lineage = Chain(sp) /\ IsSeq(lineage)
        /\ \A i \in 1 .. Len(lineage) : lineage[i] \in Visible
    BY <1>1, ChainIsLineage
  <1>3. DOMAIN lineage = 1 .. Len(lineage) /\ Len(lineage) \in Nat
    BY <1>2 DEF IsSeq
  <1>4. CASE symbol = Nil
    <2>1. \A i \in DOMAIN lineage : Definition(lineage[i], selector) = Nil /\ Extenders(lineage[i], selector) = {}
      BY <1>1, <1>2, <1>3, <1>4, NothingHere
    <2>2. having = {}
      BY <1>1, <2>1 DEF Having
    <2>3. found = Nil
      BY <1>1, <1>4
    <2> QED
      BY <2>2, <2>3 DEF IsRight
  <1>5. CASE symbol # Nil
    <2>1. ASSUME NEW i \in DOMAIN lineage
          PROVE  /\ methodFor(symbol, lineage[i]) # Nil <=> \/ Definition(lineage[i], selector) # Nil
                                                            \/ Extenders(lineage[i], selector) # {}
                 /\ methodFor(symbol, lineage[i]) # Nil
                      => FromSource(methodFor(symbol, lineage[i]), lineage[i], selector)
      <3>1. PICK up : up = lineage[i]
        OBVIOUS
      <3>2. up \in Visible
        BY <1>2, <1>3, <2>1, <3>1
      <3>3. /\ methodFor(symbol, up) # Nil <=> \/ Definition(up, selector) # Nil
                                               \/ Extenders(up, selector) # {}
            /\ methodFor(symbol, up) # Nil => FromSource(methodFor(symbol, up), up, selector)
        BY <1>1, <1>5, <3>2, FoundHere
      <3> QED
        BY <3>1, <3>3
    <2>2. PICK hits : hits = Hits(lineage, symbol)
      OBVIOUS
    <2>3. hits = having
      BY <1>1, <2>1, <2>2 DEF Having, Hits
    <2>4. doLookup(symbol, sp) = IF hits = {} THEN Nil ELSE methodFor(symbol, lineage[Min(hits)])
      BY <1>2, <2>2 DEF doLookup, Hits
    <2>5. CASE having = {}
      <3>1. found = Nil
        BY <1>1, <1>5, <2>3, <2>4, <2>5
      <3> QED
        BY <2>5, <3>1 DEF IsRight
    <2>6. CASE having # {}
      <3>1. PICK first : first = Min(having)
        OBVIOUS
      <3>2. first \in having
        <4>1. having \subseteq Nat
          BY <1>1, <1>3 DEF Having
        <4> QED
          BY <2>6, <3>1, <4>1, MinIn
      <3>3. first \in DOMAIN lineage /\ methodFor(symbol, lineage[first]) # Nil
        BY <2>2, <2>3, <3>2 DEF Hits
      <3>4. FromSource(methodFor(symbol, lineage[first]), lineage[first], selector)
        BY <2>1, <3>3
      <3>5. found = methodFor(symbol, lineage[first])
        <4>1. found = doLookup(symbol, sp)
          BY <1>1, <1>5
        <4> QED
          BY <2>3, <2>4, <2>6, <3>1, <4>1
      <3> QED
        BY <2>6, <3>1, <3>4, <3>5 DEF IsRight
    <2> QED
      BY <2>5, <2>6
  <1> QED
    BY <1>4, <1>5

(* From the moment the runtime exists every lookup finds what the sources  *)
(* have (Runtime::doLookup_startingAt_ through the method arrays of the    *)
(* Bootstrapper, half of them converted to dictionaries, and the           *)
(* dictionaries that loads and justLoaded change), for every installation  *)
(* whose sources are clear: the method of the nearest species up the       *)
(* hierarchy that the sources describe, or that of a loaded module that    *)
(* extends it.                                                             *)
THEOREM LookupsAnswerSources ==
  Spec => [](Clear(installation) => LookupFindsSource)
  <1>1. LoaderInit => Inv /\ LinksInv /\ CompleteInv /\ LookInv /\ FailedFull
    BY InitInv, InitLinks, InitComplete, InitLooks, InitFailed
  <1>2. (Inv /\ LinksInv /\ CompleteInv /\ LookInv /\ FailedFull) /\ [Next]_vars
          => (Inv /\ LinksInv /\ CompleteInv /\ LookInv /\ FailedFull)'
    <2>1. SUFFICES ASSUME Inv, LinksInv, CompleteInv, LookInv, FailedFull, [Next]_vars
                   PROVE  (Inv /\ LinksInv /\ CompleteInv /\ LookInv /\ FailedFull)'
      OBVIOUS
    <2>2. Inv' /\ LinksInv' /\ CompleteInv'
      BY <2>1, StepKeeps, StepLinks, StepComplete
    <2>3. LookInv' /\ FailedFull'
      BY <2>1, <2>2, StepLooks, StepFailed
    <2> QED
      BY <2>2, <2>3
  <1>3. Inv /\ LinksInv /\ CompleteInv /\ LookInv /\ FailedFull
          => (Clear(installation) => LookupFindsSource)
    BY LooksRight DEF LooksInv
  <1> QED
    BY <1>1, <1>2, <1>3, PTL DEF Spec

-----------------------------------------------------------------------------
(* What extensions replace is kept.                                        *)

(* Module m keeps a method of its own that a species no longer has.        *)
HeldBy(mods, m, sp, name) ==
    /\ m \in DOMAIN mods /\ "overriden" \in DOMAIN mods[m]
    /\ <<sp, name>> \in DOMAIN mods[m].overriden /\ mods[m].overriden[<<sp, name>>].module = m

(* Whoever defines or extends what the pair answers, and is not the module *)
(* of its method, keeps a method for it.                                   *)
KeptPair(x, sp, defined, extended, mods) ==
    /\ x[2].module # sp.module /\ (\E d \in defined : d[1] = KeyOf(x)) =>
          HeldBy(mods, sp.module, sp, KeyOf(x))
    /\ \A e \in extended : e[1] = KeyOf(x) /\ e[2] # x[2].module => HeldBy(mods, e[2], sp, KeyOf(x))
KeptPairs(pairs, sp, defined, extended, mods) ==
    \A x \in PairsOf(pairs) : KeptPair(x, sp, defined, extended, mods)

(* Every module can keep something.                                        *)
Keeping(mods) == \A m \in DOMAIN mods : "overriden" \in DOMAIN mods[m]

(* The modules whose extensions are installed, and the kernel.             *)
BoundModules == {Kernel} \cup Range(kernelModules)

(* What the modules keep is complete between any two steps of a load.      *)
KeptHere(sp) ==
    KeptPairs(objects[sp].md.pairs, sp, Defined(installation, modules, sp),
              ExtendedWith(installation, kernelModules, sp), modules)
KeptInv ==
    /\ Keeping(modules)
    /\ Clear(installation) /\ DOMAIN modules # {} =>
          \A sp \in DOMAIN objects : sp.module \in BoundModules => KeptHere(sp)

(* What nobody extends says nothing of others, and nothing is to be kept.  *)
LEMMA NothingToKeep ==
  ASSUME NEW pairs, NEW sp, NEW defined, Says(pairs, sp, defined, {}), NEW mods
  PROVE  KeptPairs(pairs, sp, defined, {}, mods)
  <1>1. ASSUME NEW x \in PairsOf(pairs) PROVE KeptPair(x, sp, defined, {}, mods)
    <2>1. x[2].module = sp.module
      BY <1>1 DEF Says, Answers
    <2> QED
      BY <2>1 DEF KeptPair
  <1> QED
    BY <1>1 DEF KeptPairs

(* Modules that stay as they are keep what they kept.                      *)
LEMMA KeptStays ==
  ASSUME NEW pairs, NEW sp, NEW defined, NEW extended, NEW mods, NEW mods2,
         KeptPairs(pairs, sp, defined, extended, mods),
         NEW same, sp.module \in same, \A e \in extended : e[2] \in same,
         \A m \in same : m \in DOMAIN mods2 /\ mods2[m] = mods[m]
  PROVE  KeptPairs(pairs, sp, defined, extended, mods2)
  <1>1. ASSUME NEW m \in same, NEW name, HeldBy(mods, m, sp, name) PROVE HeldBy(mods2, m, sp, name)
    BY <1>1 DEF HeldBy
  <1>2. ASSUME NEW x \in PairsOf(pairs) PROVE KeptPair(x, sp, defined, extended, mods2)
    <2>1. KeptPair(x, sp, defined, extended, mods)
      BY <1>2 DEF KeptPairs
    <2> QED
      BY <1>1, <2>1 DEF KeptPair
  <1> QED
    BY <1>2 DEF KeptPairs

(* Extensions are those of registered modules.                             *)
LEMMA ExtendedByBound ==
  ASSUME NEW files, NEW kernels, NEW sp, NEW e \in ExtendedWith(files, kernels, sp)
  PROVE  e[2] \in Range(kernels)
  <1>1. PICK p \in DOMAIN kernels \ {<<"Kernel">>} : e \in ExtensionsIn(files, kernels, kernels[p], p, sp)
    BY DEF ExtendedWith
  <1>2. e[2] = kernels[p]
    BY <1>1 DEF ExtensionsIn, SelectorsOf
  <1> QED
    BY <1>1, <1>2 DEF Range

(* A step that only touches a module that is not registered yet, and the   *)
(* species of that module.                                                 *)
TouchesOnly(m) ==
    /\ UNCHANGED <<installation, kernelModules>>
    /\ m \notin BoundModules
    /\ \A k \in DOMAIN modules' \ {m} : k \in DOMAIN modules /\ modules'[k] = modules[k]
    /\ m \in DOMAIN modules' => "overriden" \in DOMAIN modules'[m]
    /\ \A sp \in DOMAIN objects' : sp.module # m => sp \in DOMAIN objects /\ objects'[sp] = objects[sp]

(* What happens before there are modules.                                  *)
LEMMA NoModulesKept ==
  ASSUME Inv', DOMAIN modules' = {}
  PROVE  KeptInv'
  BY DEF KeptInv, Keeping

(* The step that changes a module whose extensions are not installed.      *)
LEMMA TouchedKept ==
  ASSUME Inv, Inv', LinksInv, LinksInv', LookInv, KeptInv, DOMAIN modules # {},
         NEW m, TouchesOnly(m)
  PROVE  KeptInv'
  <1>0. SUFFICES ASSUME DOMAIN modules' # {} PROVE KeptInv'
    BY NoModulesKept
  <1>1. /\ UNCHANGED <<installation, kernelModules>> /\ m \notin BoundModules
        /\ \A k \in DOMAIN modules' \ {m} : k \in DOMAIN modules /\ modules'[k] = modules[k]
    BY DEF TouchesOnly
  <1>2. Keeping(modules')
    BY DEF TouchesOnly, KeptInv, Keeping
  <1>3. PICK files, mods, mods2, kernels, same :
           /\ files = installation /\ mods = modules /\ mods2 = modules'
           /\ kernels = kernelModules /\ same = BoundModules
    OBVIOUS
  <1>4. /\ BoundModules' = same /\ same = {Kernel} \cup Range(kernels)
        /\ \A k \in same : k \in DOMAIN mods2 /\ mods2[k] = mods[k]
    <2>1. BoundModules' = BoundModules
      BY <1>1 DEF BoundModules, Range
    <2>2. Kernel \in DOMAIN modules' /\ Range(kernelModules') \subseteq DOMAIN modules'
      BY <1>0 DEF Inv, LoaderInv, LinksInv, ModuleInv
    <2>3. BoundModules' \subseteq DOMAIN modules'
      BY <2>2 DEF BoundModules
    <2> QED
      BY <1>1, <1>3, <2>1, <2>3 DEF BoundModules
  <1>5. ASSUME Clear(installation), NEW sp \in DOMAIN objects', sp.module \in BoundModules'
        PROVE  KeptHere(sp)'
    <2>1. sp.module \in same /\ sp.module # m
      BY <1>1, <1>3, <1>4, <1>5
    <2>2. sp \in DOMAIN objects /\ objects'[sp] = objects[sp]
      BY <2>1 DEF TouchesOnly
    <2>3. PICK pairs, defined, extended :
             /\ pairs = objects[sp].md.pairs /\ defined = Defined(files, mods, sp)
             /\ extended = ExtendedWith(files, kernels, sp)
      OBVIOUS
    <2>4. KeptPairs(pairs, sp, defined, extended, mods)
      BY <1>3, <1>5, <2>1, <2>2, <2>3 DEF KeptInv, KeptHere
    <2>5. \A e \in extended : e[2] \in same
      BY <1>4, <2>3, ExtendedByBound
    <2>6. KeptPairs(pairs, sp, defined, extended, mods2)
      BY <1>4, <2>1, <2>4, <2>5, KeptStays
    <2>7. Defined(files, mods2, sp) = defined
      <3>1. sp.module \in DOMAIN mods2 /\ mods2[sp.module] = mods[sp.module]
        BY <1>4, <2>1
      <3>2. SpecIn(files, mods2, sp) = SpecIn(files, mods, sp)
        BY <3>1 DEF SpecIn
      <3> QED
        BY <2>3, <3>2 DEF Defined, MethodsOf
    <2> QED
      BY <1>1, <1>3, <2>2, <2>3, <2>6, <2>7 DEF KeptHere
  <1> QED
    BY <1>1, <1>2, <1>5 DEF KeptInv

(* Loads alone change.                                                     *)
LEMMA OnlyLoadsKept ==
  ASSUME KeptInv, UNCHANGED <<installation, objects, modules, kernelModules>>
  PROVE  KeptInv'
  BY DEF KeptInv, KeptHere, BoundModules, Range

(* A program that ends.                                                    *)
LEMMA StopKept ==
  ASSUME KeptInv, NEW why, Stop(why)
  PROVE  KeptInv'
  BY OnlyLoadsKept DEF Stop, bootVars

(* The module that a load is about is not registered, whatever is loaded.  *)
LEMMA TopUnbound ==
  ASSUME Inv, LinksInv, loads # <<>>, Top.step \in Unregistered \cup {"create"}
  PROVE  Top.module \notin BoundModules
  <1>1. CASE Top.step \in Unregistered
    <2>1. Top.module \notin Registered /\ Top.module \notin Range(kernelModules)
      BY <1>1, TopIs, StackIs DEF LoadOK, LoadApart
    <2> QED
      BY <2>1 DEF BoundModules, Registered
  <1>2. CASE Top.step = "create"
    <2>1. Top.module = Nil
      BY <1>2, TopIs DEF LoadOK
    <2>2. BoundModules \subseteq Nat
      BY TopIs DEF BoundModules, Inv, LoaderInv, LinksInv, ModuleInv, Kernel
    <2> QED
      BY <2>1, <2>2, NilAssumption
  <1> QED
    BY <1>1, <1>2

(* A load that fails takes away a module that kept nothing for others.     *)
LEMMA FailKept ==
  ASSUME Inv, Inv', LinksInv, LinksInv', LookInv, KeptInv, loads # <<>>, Fail,
         Top.step \in Unregistered \cup {"create"}
  PROVE  KeptInv'
  <1>1. PICK m : m = Top.module
    OBVIOUS
  <1>2. m \notin BoundModules /\ DOMAIN modules # {}
    BY <1>1, TopUnbound, TopIs
  <1>3. TouchesOnly(m)
    <2>1. UNCHANGED <<installation, kernelModules>>
      BY DEF Fail
    <2>2. /\ DOMAIN modules' = DOMAIN modules \ {m}
          /\ \A k \in DOMAIN modules' : modules'[k] = modules[k]
      BY <1>1 DEF Fail
    <2>3. \A sp \in DOMAIN objects' : sp \in DOMAIN objects /\ objects'[sp] = objects[sp]
      BY DEF Fail
    <2> QED
      BY <1>2, <2>1, <2>2, <2>3 DEF TouchesOnly
  <1> QED
    BY <1>2, <1>3, TouchedKept

(* A module that is not there.                                             *)
LEMMA ModuleNotFoundKept ==
  ASSUME Inv, Inv', LinksInv, LinksInv', LookInv, KeptInv, moduleNotFound
  PROVE  KeptInv'
  BY FailKept DEF moduleNotFound

(* One slot of one module.                                                 *)
LEMMA SlotTouched ==
  ASSUME NEW m, m \notin BoundModules, m \in DOMAIN modules, KeptInv,
         NEW mods, mods = modules, NEW slot, NEW v, NEW changed, changed = Replacing(mods[m], slot, v),
         modules' = Replacing(mods, m, changed),
         UNCHANGED <<installation, kernelModules>>,
         \A sp \in DOMAIN objects' : sp.module # m => sp \in DOMAIN objects /\ objects'[sp] = objects[sp]
  PROVE  TouchesOnly(m)
  <1>1. PICK mods2 : mods2 = modules'
    OBVIOUS
  <1>2. DOMAIN mods2 = DOMAIN mods /\ \A k \in DOMAIN mods : mods2[k] = IF k = m THEN changed ELSE mods[k]
    BY <1>1, ReplacingOne
  <1>3. "overriden" \in DOMAIN changed
    <2>1. "overriden" \in DOMAIN mods[m]
      BY DEF KeptInv, Keeping
    <2> QED
      BY <2>1, ReplacingOne
  <1> QED
    BY <1>1, <1>2, <1>3 DEF TouchesOnly

(* An import.                                                              *)
LEMMA ImportRequiredKept ==
  ASSUME Inv, Inv', LinksInv, LinksInv', LookInv, KeptInv, importRequired
  PROVE  KeptInv'
  <1>1. loads # <<>> /\ Top.step = "import" /\ Top.step \in Unregistered
    BY DEF importRequired, Unregistered
  <1>2. PICK import, value, m, mods : /\ import = Head(Top.imports) /\ m = Top.module /\ mods = modules
                                      /\ value = NamespaceAt(kernelModules[import.module], import.name)
    OBVIOUS
  <1>3. m \in DOMAIN modules /\ DOMAIN modules # {} /\ m \notin BoundModules
    BY <1>1, <1>2, TopIs, TopUnbound DEF LoadOK
  <1>4. PICK names, changed : /\ names = Over(At(import.name, value), mods[m].namespace)
                              /\ changed = Replacing(mods[m], "namespace", names)
    OBVIOUS
  <1>5. \/ UNCHANGED <<bootVars, modules, loadedModules, kernelModules>>
        \/ Stop("KeyNotFound")
        \/ modules' = Replacing(mods, m, changed) /\ UNCHANGED <<installation, objects, kernelModules>>
    BY <1>2, <1>4 DEF importRequired, Replacing, bootVars
  <1>6. CASE UNCHANGED <<bootVars, modules, loadedModules, kernelModules>>
    BY <1>6, OnlyLoadsKept DEF bootVars
  <1>7. CASE modules' = Replacing(mods, m, changed) /\ UNCHANGED <<installation, objects, kernelModules>>
    <2>1. TouchesOnly(m)
      BY <1>2, <1>3, <1>4, <1>7, SlotTouched
    <2> QED
      BY <1>3, <2>1, TouchedKept
  <1> QED
    BY <1>5, <1>6, <1>7, StopKept

(* A class of module m is made.                                            *)
LEMMA ClassTouched ==
  ASSUME NEW table, NEW m, NEW name, NEW s, NEW super, NEW objs,
         NEW objs2, objs2 = Over(NewClass(table, m, name, s, super), objs)
  PROVE  \A sp \in DOMAIN objs2 : sp.module # m => sp \in DOMAIN objs /\ objs2[sp] = objs[sp]
  <1>1. PICK class, metaclass, slots, metaslots :
           /\ class = ClassIn(m, name) /\ metaclass = Metaclass(class)
           /\ slots = ClassSlots(table, class, name, s, super)
           /\ metaslots = MetaclassSlots(table, metaclass, s, Metaclass(super))
    OBVIOUS
  <1>2. class.module = m /\ metaclass.module = m
    BY <1>1 DEF ClassIn, Metaclass
  <1>3. PICK made : made = NewClass(table, m, name, s, super)
    OBVIOUS
  <1>4. made = Over(At(class, slots), At(metaclass, metaslots))
    BY <1>1, <1>3 DEF NewClass, ClassSlots, MetaclassSlots
  <1>5. DOMAIN made = {class, metaclass}
    BY <1>4 DEF Over, At
  <1>6. objs2 = Over(made, objs)
    BY <1>3
  <1>7. /\ DOMAIN objs2 = DOMAIN made \cup DOMAIN objs
        /\ \A sp \in DOMAIN objs2 : sp \notin DOMAIN made => objs2[sp] = objs[sp]
    BY <1>6 DEF Over
  <1> QED
    BY <1>2, <1>5, <1>7

(* A class more, of a module that is not registered.                       *)
LEMMA CreateClassKept ==
  ASSUME Inv, Inv', LinksInv, LinksInv', LookInv, KeptInv, createClass
  PROVE  KeptInv'
  <1>1. loads # <<>> /\ Top.step = "classes" /\ Top.step \in Unregistered
    BY DEF createClass, Unregistered
  <1>2. PICK name, m, mods, objs : /\ name = Head(Top.files) /\ m = Top.module
                                   /\ mods = modules /\ objs = objects
    OBVIOUS
  <1>3. m \in DOMAIN modules /\ DOMAIN modules # {} /\ m \notin BoundModules
    BY <1>1, <1>2, TopIs, TopUnbound DEF LoadOK
  <1>4. PICK names, s : /\ names = Over(At(name, ClassIn(m, name)), mods[m].namespace)
                        /\ s = Source.classes[name]
    OBVIOUS
  <1>5. PICK super, table, changed : /\ super = NamespaceAt(m, s.supername)
                                     /\ table = WithSymbols(symbolTable, NamesOf(name, s))
                                     /\ changed = Replacing(mods[m], "namespace", names)
    BY SMTT(30)
  <1>6. \/ Stop("KeyNotFound") \/ Stop("MessageNotUnderstood")
        \/ Fail
        \/ /\ objects' = Over(NewClass(table, m, name, s, super), objs)
           /\ modules' = Replacing(mods, m, changed)
           /\ UNCHANGED <<installation, kernelModules>>
    BY <1>2, <1>4, <1>5 DEF createClass, Replacing
  <1>7. CASE Fail
    BY <1>1, <1>7, FailKept
  <1>8. CASE /\ objects' = Over(NewClass(table, m, name, s, super), objs)
             /\ modules' = Replacing(mods, m, changed)
             /\ UNCHANGED <<installation, kernelModules>>
    <2>1. PICK objs2 : objs2 = objects'
      OBVIOUS
    <2>2. \A sp \in DOMAIN objs2 : sp.module # m => sp \in DOMAIN objs /\ objs2[sp] = objs[sp]
      BY <1>8, <2>1, ClassTouched
    <2>3. TouchesOnly(m)
      BY <1>2, <1>3, <1>5, <1>8, <2>1, <2>2, SlotTouched
    <2> QED
      BY <1>3, <2>3, TouchedKept
  <1> QED
    BY <1>6, <1>7, <1>8, StopKept

(* A module that is made: its first class.                                 *)
LEMMA CreateModuleKept ==
  ASSUME Inv, Inv', LinksInv, LinksInv', LookInv, KeptInv, loads # <<>>,
         NEW order \in Orders(DOMAIN Source.classes), createModule(order)
  PROVE  KeptInv'
  <1>1. Top.step = "create"
    BY Zenon DEF createModule
  <1>2. DOMAIN modules # {}
    BY TopIs
  <1>3. PICK m, mods, objs : m = NewModule /\ mods = modules /\ objs = objects
    OBVIOUS
  <1>4. m \notin DOMAIN modules /\ m \notin BoundModules
    <2>1. /\ DOMAIN modules \subseteq Nat /\ IsFiniteSet(DOMAIN modules)
          /\ BoundModules \subseteq DOMAIN modules /\ 0 \in DOMAIN modules
      BY <1>2 DEF BoundModules, Kernel, Inv, LoaderInv, LinksInv, ModuleInv
    <2>2. PICK D : D = DOMAIN modules
      OBVIOUS
    <2>3. m \in Nat \ D
      BY <1>3, <2>1, <2>2, NewModuleIs DEF NewModule
    <2> QED
      BY <2>1, <2>2, <2>3
  <1>5. \/ UNCHANGED <<installation, objects, modules, kernelModules>>
        \/ Fail
        \/ \E name, super, table : Created(name, m, super, table, order)
    <2>1. \/ \E why : Stop(why)
          \/ Fail
          \/ \E name, super, table : Created(name, m, super, table, order)
      <3>1. \E n \in {ModuleClassName(Source.classes, order)} :
             \/ Fail
             \/ Stop("no Module subclass")
             \/ /\ n # Nil
                /\ \E above \in {NamespaceAt(Kernel, Source.classes[n].supername)},
                      known \in {WithSymbols(symbolTable, NamesOf(n, Source.classes[n]))} :
                     \/ Stop("KeyNotFound") \/ Stop("MessageNotUnderstood")
                     \/ Fail
                     \/ /\ above # Nil /\ IsClass(above) /\ AllCompile(Source.classes[n])
                        /\ Created(n, NewModule, above, known, order)
        BY Zenon DEF createModule, Created
      <3> QED
        BY <1>3, <3>1, ZenonT(40)
    <2>2. ASSUME NEW why, Stop(why) PROVE UNCHANGED <<installation, objects, modules, kernelModules>>
      BY <2>2 DEF Stop, bootVars
    <2> QED
      BY <2>1, <2>2
  <1>6. CASE UNCHANGED <<installation, objects, modules, kernelModules>>
    BY <1>6, OnlyLoadsKept
  <1>7. CASE Fail
    BY <1>1, <1>7, FailKept
  <1>8. CASE \E name, super, table : Created(name, m, super, table, order)
    <2>1. PICK name, super, table : Created(name, m, super, table, order)
      BY <1>8
    <2>2. PICK s, new, objs2, mods2 :
             /\ s = Source.classes[name] /\ objs2 = objects' /\ mods2 = modules'
             /\ new = [path |-> Top.path,
                       namespace |-> Over(At(name, ClassIn(m, name)), bindKernelExports),
                       extensions |-> <<>>, overriden |-> <<>>]
      OBVIOUS
    <2>3. /\ objs2 = Over(NewClass(table, m, name, s, super), objs)
          /\ mods2 = Over(mods, At(m, new))
          /\ UNCHANGED <<installation, kernelModules>>
      BY <1>3, <2>1, <2>2 DEF Created
    <2>4. \A sp \in DOMAIN objs2 : sp.module # m => sp \in DOMAIN objs /\ objs2[sp] = objs[sp]
      BY <2>3, ClassTouched
    <2>5. /\ DOMAIN mods2 = DOMAIN mods \cup {m}
          /\ \A k \in DOMAIN mods : mods2[k] = mods[k]
          /\ mods2[m] = new
      BY <1>3, <1>4, <2>3, SMTT(30) DEF Over, At
    <2>6. "overriden" \in DOMAIN new
      BY <2>2
    <2>7. TouchesOnly(m)
      BY <1>3, <1>4, <2>2, <2>3, <2>4, <2>5, <2>6 DEF TouchesOnly
    <2> QED
      BY <1>2, <2>7, TouchedKept
  <1> QED
    BY <1>5, <1>6, <1>7, <1>8

(* Extensions that are compiled and not yet installed.                     *)
LEMMA CompileExtensionsKept ==
  ASSUME Inv, Inv', LinksInv, LinksInv', LookInv, KeptInv, compileExtensions
  PROVE  KeptInv'
  <1>1. loads # <<>> /\ Top.step = "classes" /\ Top.step \in Unregistered
    BY DEF compileExtensions, Unregistered
  <1>2. PICK m, mods, extension : m = Top.module /\ mods = modules /\ extension = Source.extensions
    OBVIOUS
  <1>3. m \in DOMAIN modules /\ DOMAIN modules # {} /\ m \notin BoundModules
    BY <1>1, <1>2, TopIs, TopUnbound DEF LoadOK
  <1>4. PICK bases, table : /\ bases = {n \in DOMAIN extension : NamespaceAt(Top.module, n) # Nil}
                            /\ table = WithSymbols(symbolTable, bases \cup NamesOfExtensions(extension, bases))
    OBVIOUS
  <1>5. Fail \/ Stop("MessageNotUnderstood") \/ ExtensionsCompiled(extension, bases, table)
    BY <1>2, <1>4 DEF compileExtensions, ExtensionsCompiled, NamesOfExtensions
  <1>6. CASE Fail
    BY <1>1, <1>6, FailKept
  <1>7. CASE ExtensionsCompiled(extension, bases, table)
    <2>1. PICK v, changed : /\ v = ExtensionsOf(table, m, extension, bases)
                            /\ changed = Replacing(mods[m], "extensions", v)
      OBVIOUS
    <2>2. modules' = [modules EXCEPT ![m].extensions = v] /\ UNCHANGED <<installation, objects, kernelModules>>
      BY <1>2, <1>7, <2>1 DEF ExtensionsCompiled
    <2>3. modules' = Replacing(mods, m, changed)
      BY <1>2, <2>1, <2>2 DEF Replacing
    <2>4. TouchesOnly(m)
      BY <1>2, <1>3, <2>1, <2>2, <2>3, SlotTouched
    <2> QED
      BY <1>3, <2>4, TouchedKept
  <1> QED
    BY <1>5, <1>6, <1>7, StopKept

(* Nothing is extended when there is only the kernel.                      *)
LEMMA LoadKernelKept ==
  ASSUME Inv, LookInv', loadKernel
  PROVE  KeptInv'
  <1>1. phase = "done" /\ UNCHANGED bootVars
    BY DEF loadKernel
  <1>2. Keeping(modules')
    BY DEF loadKernel, At, Keeping
  <1>3. DOMAIN kernelModules' = {<<"Kernel">>}
    BY DEF loadKernel, At
  <1>4. ASSUME Clear(installation)', NEW sp \in DOMAIN objects' PROVE KeptHere(sp)'
    <2>1. PICK files, mods, kernels, pairs, defined :
             /\ files = installation' /\ mods = modules' /\ kernels = kernelModules'
             /\ pairs = objects'[sp].md.pairs /\ defined = Defined(files, mods, sp)
      OBVIOUS
    <2>2. IsFaithful(sp)'
      BY <1>1, <1>4 DEF LookInv, DictionariesInv, bootVars
    <2>3. ExtendedWith(files, kernels, sp) = {}
      BY <1>3, <2>1, NotExtended
    <2>4. Says(pairs, sp, defined, {})
      BY <2>1, <2>2, <2>3 DEF IsFaithful, Faithful
    <2>5. KeptPairs(pairs, sp, defined, {}, mods)
      BY <2>4, NothingToKeep
    <2> QED
      BY <2>1, <2>3, <2>5 DEF KeptHere
  <1> QED
    BY <1>2, <1>4 DEF KeptInv

-----------------------------------------------------------------------------
(* bindExtension, for every extension of a module.                         *)

(* What was kept for a species is kept.                                    *)
StillHeld(mods2, mods, sp) ==
    \A m, name : HeldBy(mods, m, sp, name) => HeldBy(mods2, m, sp, name)

(* A module keeps what is replaced.                                        *)
LEMMA OverridesHold ==
  ASSUME NEW mods, Keeping(mods), NEW k, NEW sp, NEW name, NEW current,
         NEW signature, signature = <<sp, name>>,
         NEW mods2, mods2 = OverridenIn(mods, k, signature, current)
  PROVE  /\ Keeping(mods2)
         /\ \A other : other # sp => StillHeld(mods2, mods, other)
         /\ k \in DOMAIN mods /\ current.module = k =>
               HeldBy(mods2, k, sp, name) /\ StillHeld(mods2, mods, sp)
  <1>m. PICK module : module = mods[k]
    OBVIOUS
  <1>1. PICK old, v, changed : /\ old = module.overriden /\ v = Over(At(signature, current), old)
                               /\ changed = Replacing(module, "overriden", v)
    OBVIOUS
  <1>2. mods2 = Replacing(mods, k, changed)
    BY <1>m, <1>1 DEF OverridenIn, Replacing
  <1>3. DOMAIN mods2 = DOMAIN mods /\ \A m \in DOMAIN mods : mods2[m] = IF m = k THEN changed ELSE mods[m]
    BY <1>2 DEF Replacing
  <1>4. DOMAIN changed = DOMAIN mods[k] /\ ("overriden" \in DOMAIN mods[k] => changed.overriden = v)
    <2>1. PICK slot : slot = "overriden"
      OBVIOUS
    <2>2. /\ DOMAIN changed = DOMAIN module
          /\ slot \in DOMAIN module => changed[slot] = v
      BY <1>1, <2>1, ReplacingOne
    <2> QED
      BY <1>m, <2>1, <2>2
  <1>5. /\ DOMAIN v = {signature} \cup DOMAIN old /\ v[signature] = current
        /\ \A x \in DOMAIN old : x # signature => v[x] = old[x]
    BY <1>1 DEF Over, At
  <1>6. Keeping(mods2)
    BY <1>3, <1>4 DEF Keeping
  <1>7. ASSUME NEW m, NEW other, NEW n, HeldBy(mods, m, other, n),
               <<other, n>> # signature \/ current.module = k
        PROVE  HeldBy(mods2, m, other, n)
    <2>1. PICK x : x = <<other, n>>
      OBVIOUS
    <2>2. m \in DOMAIN mods /\ "overriden" \in DOMAIN mods[m]
          /\ x \in DOMAIN mods[m].overriden /\ mods[m].overriden[x].module = m
      BY <1>7, <2>1 DEF HeldBy
    <2>3. CASE m # k
      <3>1. mods2[m] = mods[m]
        BY <1>3, <2>2, <2>3
      <3> QED
        BY <1>3, <2>1, <2>2, <3>1 DEF HeldBy
    <2>4. CASE m = k
      <3>1. mods2[m] = changed /\ changed.overriden = v /\ "overriden" \in DOMAIN changed
        BY <1>3, <1>4, <2>2, <2>4
      <3>2. x \in DOMAIN v /\ v[x].module = m
        BY <1>m, <1>1, <1>5, <1>7, <2>1, <2>2, <2>4
      <3> QED
        BY <1>3, <2>1, <2>2, <3>1, <3>2 DEF HeldBy
    <2> QED
      BY <2>3, <2>4
  <1>8. ASSUME NEW other, other # sp PROVE StillHeld(mods2, mods, other)
    <2>1. \A n : <<other, n>> # signature
      BY <1>8
    <2> QED
      BY <1>7, <2>1 DEF StillHeld
  <1>9. ASSUME k \in DOMAIN mods, current.module = k
        PROVE  HeldBy(mods2, k, sp, name) /\ StillHeld(mods2, mods, sp)
    <2>1. StillHeld(mods2, mods, sp)
      BY <1>7, <1>9 DEF StillHeld
    <2>2. "overriden" \in DOMAIN mods[k]
      BY <1>9 DEF Keeping
    <2>3. mods2[k] = changed /\ changed.overriden = v /\ "overriden" \in DOMAIN changed
      BY <1>3, <1>4, <1>9, <2>2
    <2>4. signature \in DOMAIN v /\ v[signature].module = k
      BY <1>5, <1>9
    <2> QED
      BY <1>3, <1>9, <2>1, <2>3, <2>4 DEF HeldBy
  <1> QED
    BY <1>6, <1>8, <1>9

(* A method is put for an extension, and the one it replaces is kept.      *)
LEMMA KeptPut ==
  ASSUME NEW U, Unique(U), NEW pairs, PairsOK(pairs, U), NEW sp, NEW defined, NEW before,
         Says(pairs, sp, defined, before),
         NEW mods, NEW mods2, KeptPairs(pairs, sp, defined, before, mods), StillHeld(mods2, mods, sp),
         NEW s \in U, NEW e, NEW after, after = before \cup {<<s.name, e.module>>},
         \A x \in PairsOf(pairs) : KeyOf(x) = s.name => HeldBy(mods2, x[2].module, sp, s.name)
  PROVE  KeptPairs(AtPut(pairs, s, e), sp, defined, after, mods2)
  <1>1. PICK all, new, last : all = AtPut(pairs, s, e) /\ new = <<s, e>> /\ last = <<s.name, e.module>>
    OBVIOUS
  <1>2. PairsOf(all) = WithoutName(PairsOf(pairs), s.name) \cup {new}
    BY <1>1, PutIs DEF Says
  <1>3. /\ KeyOf(new) = s.name /\ new[2] = e
        /\ last[1] = s.name /\ last[2] = e.module /\ after = before \cup {last}
    BY <1>1 DEF KeyOf
  <1>4. ASSUME NEW x \in PairsOf(pairs) PROVE KeptPair(x, sp, defined, before, mods2)
    <2>1. KeptPair(x, sp, defined, before, mods)
      BY <1>4 DEF KeptPairs
    <2> QED
      BY <2>1 DEF KeptPair, StillHeld
  <1>5. ASSUME NEW x \in PairsOf(all) PROVE KeptPair(x, sp, defined, after, mods2)
    <2>1. CASE x \in WithoutName(PairsOf(pairs), s.name)
      <3>1. KeptPair(x, sp, defined, before, mods2) /\ KeyOf(x) # s.name
        BY <1>4, <2>1 DEF WithoutName
      <3> QED
        BY <1>3, <3>1 DEF KeptPair
    <2>2. CASE x = new
      <3>1. ASSUME \E d \in defined : d[1] = s.name PROVE HeldBy(mods2, sp.module, sp, s.name)
        <4>1. PICK y \in PairsOf(pairs) : KeyOf(y) = s.name
          BY <3>1 DEF Says
        <4>2. KeptPair(y, sp, defined, before, mods2) /\ HeldBy(mods2, y[2].module, sp, s.name)
          BY <1>4, <4>1
        <4> QED
          BY <3>1, <4>1, <4>2 DEF KeptPair
      <3>2. ASSUME NEW d \in before, d[1] = s.name PROVE HeldBy(mods2, d[2], sp, s.name)
        <4>1. PICK y \in PairsOf(pairs) : KeyOf(y) = s.name
          BY <3>2 DEF Says
        <4>2. KeptPair(y, sp, defined, before, mods2) /\ HeldBy(mods2, y[2].module, sp, s.name)
          BY <1>4, <4>1
        <4> QED
          BY <3>2, <4>1, <4>2 DEF KeptPair
      <3> QED
        BY <1>3, <2>2, <3>1, <3>2 DEF KeptPair
    <2> QED
      BY <1>2, <2>1, <2>2
  <1> QED
    BY <1>1, <1>5 DEF KeptPairs

(* What was kept is kept when no module loses anything.                    *)
LEMMA StillHeldKept ==
  ASSUME NEW pairs, NEW sp, NEW defined, NEW extended, NEW mods, NEW mods2,
         KeptPairs(pairs, sp, defined, extended, mods), StillHeld(mods2, mods, sp)
  PROVE  KeptPairs(pairs, sp, defined, extended, mods2)
  BY DEF KeptPairs, KeptPair, StillHeld

(* What the loop of justLoaded has done after i extensions: besides what   *)
(* the species say (BoundFirst), what they no longer say is kept.          *)
KeptBefore(c, sp) == c.extended[sp] \cup SoFar(c.extensions, c.i, c.m, sp)
KeptFirst(c, state) ==
    /\ BoundFirst(c, state) /\ Keeping(state.modules)
    /\ \A sp \in DOMAIN state.objects :
          KeptPairs(state.objects[sp].md.pairs, sp, c.defined[sp], KeptBefore(c, sp), state.modules)
KeepMore == INSTANCE FoldInduction WITH step <- BindStep, Holds <- KeptFirst

(* The modules of the methods of all species exist.                        *)
Located(defined, extended, kept, m) ==
    /\ m \in DOMAIN kept
    /\ \A sp \in DOMAIN defined :
          sp.module \in DOMAIN kept /\ \A e \in extended[sp] : e[2] \in DOMAIN kept

(* The method of a pair is of the species' module, or of one that extends. *)
LEMMA PairLocated ==
  ASSUME NEW pairs, NEW sp, NEW defined, NEW extended, Says(pairs, sp, defined, extended),
         NEW D, sp.module \in D, \A e \in extended : e[2] \in D,
         NEW x \in PairsOf(pairs)
  PROVE  x[2].module \in D
  <1>1. Answers(x, sp, defined, extended)
    BY DEF Says
  <1>2. CASE \E e \in extended : e[1] = KeyOf(x)
    <2>1. PICK e : e = <<KeyOf(x), x[2].module>>
      OBVIOUS
    <2>2. e \in extended /\ e[2] = x[2].module
      BY <1>1, <1>2, <2>1 DEF Answers
    <2> QED
      BY <2>2
  <1>3. CASE ~\E e \in extended : e[1] = KeyOf(x)
    BY <1>1, <1>3 DEF Answers
  <1> QED
    BY <1>2, <1>3

(* One more extension is bound.                                            *)
LEMMA KeepOneMore ==
  ASSUME NEW U, Unique(U), NEW defined, NEW extended, NEW kept, NEW extensions, NEW m,
         Located(defined, extended, kept, m),
         NEW i, i \in Nat \ {0}, NEW e, e = extensions[i], e \in Method, e.module = m, MethodOK(e, U),
         NEW state, KeptFirst(Binding(U, defined, extended, kept, extensions, m, i - 1), state),
         NEW bound, bound = BindExtension(state, e)
  PROVE  KeptFirst(Binding(U, defined, extended, kept, extensions, m, i), bound)
  <1>1. PICK objs, mods, objs2, mods2 : /\ objs = state.objects /\ mods = state.modules
                                        /\ objs2 = bound.objects /\ mods2 = bound.modules
    OBVIOUS
  <1>2. PICK b : b = Binding(U, defined, extended, kept, extensions, m, i - 1)
    OBVIOUS
  <1>3. PICK c : c = Binding(U, defined, extended, kept, extensions, m, i)
    OBVIOUS
  <1>4. /\ b.U = U /\ b.defined = defined /\ b.extended = extended /\ b.kept = kept
        /\ b.extensions = extensions /\ b.m = m /\ b.i = i - 1
    BY <1>2 DEF Binding
  <1>5. /\ c.U = U /\ c.defined = defined /\ c.extended = extended /\ c.kept = kept
        /\ c.extensions = extensions /\ c.m = m /\ c.i = i
    BY <1>3 DEF Binding
  <1>6. BoundFirst(b, state) /\ KeptFirst(b, state)
    BY <1>2 DEF KeptFirst
  <1>7. BoundFirst(c, bound)
    BY <1>2, <1>3, <1>6, BindOneMore
  <1>8. /\ AllFull(objs, U) /\ DOMAIN objs = DOMAIN defined /\ DOMAIN mods = DOMAIN kept
        /\ Keeping(mods) /\ DOMAIN objs2 = DOMAIN objs
    BY <1>1, <1>4, <1>5, <1>6, <1>7 DEF BoundFirst, KeptFirst
  <1>9. PICK class, s, name : class = e.class /\ s = e.selector /\ name = s.name
    OBVIOUS
  <1>10. /\ \A sp \in DOMAIN objs : sp # class => objs2[sp] = objs[sp]
         /\ class \in DOMAIN objs => objs2[class].md.pairs = AtPut(objs[class].md.pairs, s, e)
    <2>1. objs2 = Putting(objs, class, e.selector, e)
      BY <1>1, <1>9, BindExtensionDoes
    <2>2. OnePut(objs2, objs, U, class, e)
      BY <1>8, <2>1, PutOne
    <2> QED
      BY <1>9, <2>2 DEF OnePut
  <1>11. PICK pairs, k : pairs = objs[class].md.pairs /\ k = PositionOf(pairs, s)
    OBVIOUS
  <1>12. PICK current, signature : current = pairs[k][2] /\ signature = <<class, name>>
    OBVIOUS
  <1>13. mods2 = IF k = 0 THEN mods ELSE OverridenIn(mods, current.module, signature, current)
    <2>1. /\ pairs = state.objects[e.class].md.pairs /\ k = PositionOf(pairs, e.selector)
          /\ current = pairs[k][2] /\ signature = <<e.class, e.selector.name>>
      BY <1>1, <1>9, <1>11, <1>12
    <2>2. bound.modules = IF k = 0 THEN state.modules
                          ELSE OverridenIn(state.modules, current.module, signature, current)
      BY <2>1, Zenon DEF BindExtension, OverridenIn
    <2> QED
      BY <1>1, <2>2
  <1>14. /\ Keeping(mods2)
         /\ \A other : other # class => StillHeld(mods2, mods, other)
         /\ k # 0 /\ current.module \in DOMAIN mods =>
               HeldBy(mods2, current.module, class, name) /\ StillHeld(mods2, mods, class)
         /\ k = 0 => StillHeld(mods2, mods, class)
    <2>1. CASE k = 0
      <3>1. mods2 = mods
        BY <1>13, <2>1
      <3>2. \A other : StillHeld(mods2, mods, other)
        BY <3>1 DEF StillHeld
      <3> QED
        BY <1>8, <2>1, <3>1, <3>2
    <2>2. CASE k # 0
      <3>1. PICK at : at = current.module
        OBVIOUS
      <3>2. mods2 = OverridenIn(mods, at, signature, current)
        BY <1>13, <2>2, <3>1
      <3>3. Keeping(mods2) /\ \A other : other # class => StillHeld(mods2, mods, other)
        BY <1>8, <1>12, <3>2, OverridesHold
      <3>4. at \in DOMAIN mods => HeldBy(mods2, at, class, name) /\ StillHeld(mods2, mods, class)
        BY <1>8, <1>12, <3>1, <3>2, OverridesHold
      <3> QED
        BY <2>2, <3>1, <3>3, <3>4
    <2> QED
      BY <2>1, <2>2
  <1>15. ASSUME NEW sp \in DOMAIN objs
         PROVE  KeptPairs(objs2[sp].md.pairs, sp, defined[sp], KeptBefore(c, sp), mods2)
    <2>1. PICK before, after, base, its : /\ before = KeptBefore(b, sp) /\ after = KeptBefore(c, sp)
                                          /\ base = defined[sp] /\ its = objs[sp].md.pairs
      OBVIOUS
    <2>2. /\ before = extended[sp] \cup SoFar(extensions, i - 1, m, sp)
          /\ after = extended[sp] \cup SoFar(extensions, i, m, sp)
      BY <1>4, <1>5, <2>1 DEF KeptBefore
    <2>3. KeptPairs(its, sp, base, before, mods) /\ Says(its, sp, base, before)
      <3>1. KeptPairs(its, sp, base, before, mods)
        BY <1>1, <1>4, <1>6, <2>1 DEF KeptFirst
      <3>2. Says(its, sp, base, before)
        BY <1>1, <1>4, <1>6, <2>1, <2>2 DEF BoundFirst
      <3> QED
        BY <3>1, <3>2
    <2>4. CASE sp # class
      <3>1. SoFar(extensions, i, m, sp) = SoFar(extensions, i - 1, m, sp)
        BY <1>9, <2>4, SoFarNext
      <3>2. after = before /\ objs2[sp] = objs[sp] /\ StillHeld(mods2, mods, sp)
        BY <1>10, <1>14, <2>2, <2>4, <3>1
      <3>3. KeptPairs(its, sp, base, before, mods2)
        BY <2>3, <3>2, StillHeldKept
      <3> QED
        BY <2>1, <3>2, <3>3
    <2>5. CASE sp = class
      <3>1. PairsOK(its, U) /\ s \in U
        BY <1>8, <1>9, <2>1 DEF AllFull, FullSlots, DictOK, MethodOK
      <3>2. after = before \cup {<<s.name, e.module>>}
        <4>1. SoFar(extensions, i, m, sp) = SoFar(extensions, i - 1, m, sp) \cup {<<e.selector.name, m>>}
          BY <1>9, <2>5, SoFarNext
        <4> QED
          BY <1>9, <2>2, <4>1
      <3>3. /\ k = 0 <=> \A x \in PairsOf(its) : KeyOf(x) # s.name
            /\ k # 0 => k \in 1 .. Len(its) /\ KeyOf(its[k]) = s.name
        BY <1>11, <2>1, <2>5, <3>1, PositionIs
      <3>4. k # 0 => its[k] \in PairsOf(its) /\ current = its[k][2]
        BY <1>11, <1>12, <2>1, <2>5, <3>3 DEF PairsOf
      <3>5. \A x \in PairsOf(its) : x[2].module \in DOMAIN mods
        <4>1. PICK D : D = DOMAIN mods
          OBVIOUS
        <4>2. sp.module \in D /\ \A d \in extended[sp] : d[2] \in D
          BY <1>8, <4>1 DEF Located
        <4>3. \A d \in SoFar(extensions, i - 1, m, sp) : d[2] \in D
          BY <1>8, <4>1 DEF Located, SoFar
        <4>4. \A d \in before : d[2] \in D
          BY <2>2, <4>2, <4>3
        <4> QED
          BY <2>3, <4>1, <4>2, <4>4, PairLocated
      <3>6. StillHeld(mods2, mods, sp)
        BY <1>14, <2>5, <3>4, <3>5
      <3>7. ASSUME NEW x \in PairsOf(its), KeyOf(x) = s.name PROVE HeldBy(mods2, x[2].module, sp, s.name)
        <4>1. k # 0
          BY <3>3, <3>7
        <4>2. x = its[k]
          <5>1. PICK j \in 1 .. Len(its) : x = its[j]
            BY DEF PairsOf
          <5>2. OneEach(its)
            BY <2>3 DEF Says
          <5> QED
            BY <3>3, <3>7, <4>1, <5>1, <5>2 DEF OneEach
        <4> QED
          BY <1>9, <1>14, <2>5, <3>4, <3>5, <4>1, <4>2
      <3>8. KeptPairs(AtPut(its, s, e), sp, base, after, mods2)
        BY <2>3, <3>1, <3>2, <3>6, <3>7, KeptPut
      <3> QED
        BY <1>10, <2>1, <2>5, <3>8
    <2> QED
      BY <2>4, <2>5
  <1>16. KeptFirst(c, bound)
    BY <1>1, <1>5, <1>7, <1>8, <1>14, <1>15 DEF KeptFirst
  <1> QED
    BY <1>3, <1>16

(* justLoaded binds all of them.                                           *)
KeptAll(objs, defined, extended, mods) ==
    \A sp \in DOMAIN objs : KeptPairs(objs[sp].md.pairs, sp, defined[sp], extended[sp], mods)
KeptWith(objs2, objs, defined, extended, extensions, m, mods) ==
    \A sp \in DOMAIN objs :
       KeptPairs(objs2[sp].md.pairs, sp, defined[sp],
                 extended[sp] \cup SoFar(extensions, Len(extensions), m, sp), mods)

(* When all extensions are bound, what they took the place of is kept.     *)
LEMMA BoundKept ==
  ASSUME NEW U, Unique(U), NEW objs, NEW mods, AllFull(objs, U), ModulesOK(mods, U), Keeping(mods),
         NEW defined, DOMAIN defined = DOMAIN objs, NEW extended,
         Said(objs, defined, extended), KeptAll(objs, defined, extended, mods),
         NEW m, NEW kept, kept = [x \in DOMAIN mods |-> mods[x].extensions],
         Located(defined, extended, kept, m),
         NEW extensions, MethodsOK(extensions, U), ExtensionsBy(extensions, m),
         NEW bound, bound = Folded(BindExtension, [objects |-> objs, modules |-> mods], extensions)
  PROVE  /\ KeptWith(bound.objects, objs, defined, extended, extensions, m, bound.modules)
         /\ Keeping(bound.modules) /\ DOMAIN bound.objects = DOMAIN objs
  <1>b. PICK base : base = [objects |-> objs, modules |-> mods]
    OBVIOUS
  <1>e. base.objects = objs /\ base.modules = mods
    BY <1>b
  <1>l. DOMAIN kept = DOMAIN mods /\ \A x \in DOMAIN mods : kept[x] = mods[x].extensions
    OBVIOUS
  <1>1. bound = KeepMore!Loop(base, base, extensions)
    BY <1>b DEF BindStep, KeepMore!Loop, Folded, KeepMore!Folded
  <1>2. PICK n : n = Len(extensions)
    OBVIOUS
  <1>3. n \in Nat
    BY <1>2 DEF MethodsOK, IsSeq
  <1>4. PICK at : at = [i \in 0 .. n |-> Binding(U, defined, extended, kept, extensions, m, i)]
    OBVIOUS
  <1>5. ASSUME NEW u, NEW i \in 1 .. n, KeptFirst(at[i - 1], u)
        PROVE  KeptFirst(at[i], BindStep(base, u, extensions[i]))
    <2>1. PICK e : e = extensions[i]
      OBVIOUS
    <2>2. e \in Method /\ e.module = m /\ MethodOK(e, U)
      BY <1>2, <2>1 DEF MethodsOK, ExtensionsBy
    <2>3. i \in Nat \ {0} /\ i - 1 \in 0 .. n /\ i \in 0 .. n
      BY <1>3
    <2>4. /\ at[i - 1] = Binding(U, defined, extended, kept, extensions, m, i - 1)
          /\ at[i] = Binding(U, defined, extended, kept, extensions, m, i)
      BY <1>4, <2>3
    <2>5. PICK v : v = BindExtension(u, e)
      OBVIOUS
    <2>6. KeptFirst(Binding(U, defined, extended, kept, extensions, m, i - 1), u)
      BY <1>5, <2>4
    <2>7. KeptFirst(Binding(U, defined, extended, kept, extensions, m, i), v)
      BY <2>1, <2>2, <2>3, <2>5, <2>6, KeepOneMore
    <2> QED
      BY <2>1, <2>4, <2>5, <2>7 DEF BindStep
  <1>6. /\ at[0] = Binding(U, defined, extended, kept, extensions, m, 0)
        /\ at[n] = Binding(U, defined, extended, kept, extensions, m, n)
    BY <1>3, <1>4
  <1>7. KeptFirst(at[0], base)
    <2>1. PICK c : c = at[0]
      OBVIOUS
    <2>2. /\ c.U = U /\ c.defined = defined /\ c.extended = extended /\ c.kept = kept
          /\ c.extensions = extensions /\ c.m = m /\ c.i = 0
      BY <1>6, <2>1 DEF Binding
    <2>3. \A sp \in DOMAIN objs : KeptBefore(c, sp) = extended[sp]
      BY <2>2, SoFarNone DEF KeptBefore
    <2>4. BoundFirst(c, base)
      <3>1. \A sp \in DOMAIN objs : c.extended[sp] \cup SoFar(c.extensions, c.i, c.m, sp) = extended[sp]
        BY <2>3 DEF KeptBefore
      <3> QED
        BY <1>e, <1>l, <2>2, <3>1 DEF BoundFirst, Said
    <2>5. \A sp \in DOMAIN objs : KeptPairs(objs[sp].md.pairs, sp, c.defined[sp], KeptBefore(c, sp), mods)
      BY <2>2, <2>3 DEF KeptAll
    <2>6. KeptFirst(c, base)
      BY <1>e, <2>4, <2>5 DEF KeptFirst
    <2> QED
      BY <2>1, <2>6
  <1>8. KeptFirst(at[n], KeepMore!Loop(base, base, extensions))
    BY <1>2, <1>3, <1>5, <1>7, KeepMore!LoopProceeds
  <1>9. PICK c : c = at[n]
    OBVIOUS
  <1>10. /\ c.U = U /\ c.defined = defined /\ c.extended = extended /\ c.kept = kept
         /\ c.extensions = extensions /\ c.m = m /\ c.i = n
    BY <1>6, <1>9 DEF Binding
  <1>11. KeptFirst(c, bound)
    BY <1>1, <1>8, <1>9
  <1>12. DOMAIN bound.objects = DOMAIN objs /\ Keeping(bound.modules)
    BY <1>10, <1>11 DEF KeptFirst, BoundFirst
  <1>13. \A sp \in DOMAIN objs : KeptBefore(c, sp) = extended[sp] \cup SoFar(extensions, n, m, sp)
    BY <1>10 DEF KeptBefore
  <1>14. \A sp \in DOMAIN objs : KeptPairs(bound.objects[sp].md.pairs, sp, defined[sp], KeptBefore(c, sp), bound.modules)
    BY <1>10, <1>11, <1>12 DEF KeptFirst
  <1> QED
    BY <1>2, <1>12, <1>13, <1>14 DEF KeptWith

(* Before: what the species say of what extends them is kept, those of the *)
(* modules that are loaded being extended by nobody yet.                   *)
LEMMA AllKept ==
  ASSUME Inv, LinksInv, CompleteInv, Clear(installation), DictionariesInv, SourcesInv, KeptInv,
         phase = "done", DOMAIN modules # {}, NEW sp \in DOMAIN objects
  PROVE  /\ KeptHere(sp)
         /\ sp.module \in DOMAIN modules
         /\ \A e \in ExtendedWith(installation, kernelModules, sp) : e[2] \in DOMAIN modules
  <1>1. Kernel \in DOMAIN modules /\ Range(kernelModules) \subseteq DOMAIN modules
    BY DEF Inv, LoaderInv, LinksInv, ModuleInv
  <1>2. sp.module \in DOMAIN modules
    BY <1>1, SpeciesModule
  <1>3. \A e \in ExtendedWith(installation, kernelModules, sp) : e[2] \in DOMAIN modules
    BY <1>1, ExtendedByBound
  <1>4. CASE sp.module \in BoundModules
    BY <1>2, <1>3, <1>4 DEF KeptInv
  <1>5. CASE sp.module \notin BoundModules
    <2>1. OfSource(sp, installation, modules, kernelModules)
      BY DEF SourcesInv
    <2>2. ClassOf(sp).module = sp.module
      BY <2>1, ClassOrMetaclass DEF OfSource
    <2>3. ClassOf(sp).module \notin Range(kernelModules) \cup {Kernel}
      BY <1>5, <2>2 DEF BoundModules
    <2>4. Unambiguous(installation)
      BY DEF Clear
    <2>5. ExtendedWith(installation, kernelModules, sp) = {}
      BY <2>3, <2>4, NewNotExtended
    <2>6. PICK files, mods, kernels, pairs, defined :
             /\ files = installation /\ mods = modules /\ kernels = kernelModules
             /\ pairs = objects[sp].md.pairs /\ defined = Defined(files, mods, sp)
      OBVIOUS
    <2>7. Says(pairs, sp, defined, {})
      BY <2>5, <2>6 DEF DictionariesInv, IsFaithful, Faithful
    <2>8. KeptPairs(pairs, sp, defined, {}, mods)
      BY <2>7, NothingToKeep
    <2> QED
      BY <1>2, <1>3, <2>5, <2>6, <2>8 DEF KeptHere
  <1> QED
    BY <1>4, <1>5

(* Whatever is bound, modules can still keep something.                    *)
KeepingOn(c, state) == Keeping(state.modules)
KeepOn == INSTANCE FoldInduction WITH step <- BindStep, Holds <- KeepingOn

(* Binding leaves the tables of overridden methods there.                  *)
LEMMA BoundKeeping ==
  ASSUME NEW base, Keeping(base.modules), NEW extensions, Len(extensions) \in Nat,
         NEW bound, bound = Folded(BindExtension, base, extensions)
  PROVE  Keeping(bound.modules)
  <1>1. bound = KeepOn!Loop(base, base, extensions)
    BY DEF BindStep, KeepOn!Loop, Folded, KeepOn!Folded
  <1>2. PICK n : n = Len(extensions)
    OBVIOUS
  <1>3. PICK at : at = [i \in 0 .. n |-> base]
    OBVIOUS
  <1>4. ASSUME NEW u, NEW i \in 1 .. n, KeepingOn(at[i - 1], u)
        PROVE  KeepingOn(at[i], BindStep(base, u, extensions[i]))
    <2>1. PICK e, mods : e = extensions[i] /\ mods = u.modules
      OBVIOUS
    <2>2. PICK bind : bind = BindExtension(u, e)
      OBVIOUS
    <2>3. PICK k, current, name : /\ k = current.module /\ name = e.selector.name
                                  /\ current = u.objects[e.class].md.pairs[PositionOf(u.objects[e.class].md.pairs,
                                                                                      e.selector)][2]
      OBVIOUS
    <2>4. PICK signature, class : signature = <<class, name>> /\ class = e.class
      OBVIOUS
    <2>5. bind.modules = mods \/ bind.modules = OverridenIn(mods, k, signature, current)
      BY <2>1, <2>2, <2>3, <2>4, Zenon DEF BindExtension, OverridenIn
    <2>6. Keeping(mods)
      BY <1>4, <2>1 DEF KeepingOn
    <2>7. Keeping(bind.modules)
      BY <2>4, <2>5, <2>6, OverridesHold
    <2> QED
      BY <2>1, <2>2, <2>7 DEF BindStep, KeepingOn
  <1>5. KeepingOn(at[0], base)
    BY DEF KeepingOn
  <1>6. KeepingOn(at[n], KeepOn!Loop(base, base, extensions))
    BY <1>2, <1>4, <1>5, KeepOn!LoopProceeds
  <1> QED
    BY <1>1, <1>6 DEF KeepingOn

(* The extensions of the module that has just been loaded are bound.       *)
LEMMA JustLoadedKept ==
  ASSUME Inv, LinksInv, CompleteInv, LookInv, KeptInv, justLoaded
  PROVE  KeptInv'
  <1>1. /\ loads # <<>> /\ Top.step = "justLoaded" /\ UNCHANGED installation
    BY DEF justLoaded
  <1>2. PICK path, k : path = Top.path /\ k = Top.module
    OBVIOUS
  <1>3. path # <<"Kernel">> /\ k \in Registered /\ k \in DOMAIN modules /\ DOMAIN modules # {}
    BY <1>1, <1>2, TopIs, StackIs DEF LoadOK, LoadApart
  <1>4. PICK objs, mods, extensions : /\ objs = objects /\ mods = modules
                                      /\ extensions = modules[k].extensions
    OBVIOUS
  <1>5. PICK base : base = [objects |-> objs, modules |-> mods]
    OBVIOUS
  <1>6. PICK bound : bound = Folded(BindExtension, base, extensions)
    OBVIOUS
  <1>7. PICK objs2, mods2, more, kernels, files, U :
             /\ objs2 = bound.objects /\ mods2 = bound.modules /\ kernels = kernelModules
             /\ more = Over(At(path, k), kernelModules) /\ files = installation /\ U = symbolTable
    OBVIOUS
  <1>8. objects' = objs2 /\ modules' = mods2 /\ kernelModules' = more
    BY <1>2, <1>4, <1>5, <1>6, <1>7 DEF justLoaded
  <1>9. /\ phase = "done" /\ AllFull(objs, U) /\ Unique(U) /\ Universe = U /\ files \in Installations
    BY <1>1, <1>4, <1>7, Loading
  <1>10. ModulesOK(mods, U) /\ MethodsOK(extensions, U) /\ Len(extensions) \in Nat
    <2>1. ModulesOK(mods, U)
      BY <1>4, <1>7, <1>9 DEF Inv, LoaderInv
    <2> QED
      BY <1>3, <1>4, <2>1 DEF ModulesOK, ModuleOK, MethodsOK, IsSeq
  <1>11. Keeping(mods) /\ Keeping(mods2)
    <2>1. Keeping(mods)
      BY <1>4 DEF KeptInv
    <2>2. base.modules = mods
      BY <1>5
    <2> QED
      BY <1>6, <1>7, <1>10, <2>1, <2>2, BoundKeeping
  <1>12. ASSUME Clear(installation), NEW sp \in DOMAIN objs2 PROVE KeptHere(sp)'
    <2>1. DictionariesInv /\ SourcesInv /\ Unambiguous(installation)
      BY <1>12 DEF LookInv, Clear
    <2>2. mods[k].path = path /\ path \notin DOMAIN kernels
      BY <1>1, <1>2, <1>4, <1>7, <2>1, StackAsFar DEF LoadAsFar
    <2>3. k # Kernel
      BY <1>3, <1>4, <2>1, <2>2 DEF CompleteInv, RegisteredWhole
    <2>4. SettledAt(files, path, kernels)
      BY <1>3, <1>4, <1>7, <2>1, <2>2, <2>3, RegisteredSettled
    <2>5. \A x : ExtendedWith(files, more, x)
               = ExtendedWith(files, kernels, x) \cup ExtensionsIn(files, kernels, k, path, x)
      <3>1. path \notin DOMAIN kernelModules /\ SettledAt(installation, path, kernelModules)
        BY <1>7, <2>2, <2>4
      <3>2. more = Over(At(path, k), kernelModules)
        BY <1>7
      <3>3. \A x : ExtendedWith(installation, more, x)
                 = ExtendedWith(installation, kernelModules, x)
                   \cup ExtensionsIn(installation, kernelModules, k, path, x)
        BY <1>3, <2>1, <3>1, <3>2, OneMoreExtends
      <3> QED
        BY <1>7, <3>3
    <2>6. Extending(mods[k], k, files, kernels)
      BY <1>3, <1>4, <1>7, <2>1, <2>3 DEF SourcesInv
    <2>7. SameNames(mods2, mods)
      <3>1. HeapOK(objs, mods)
        BY <1>4, <1>9, DoneIs
      <3> QED
        BY <1>5, <1>6, <1>7, <1>10, <3>1, BoundLinks
    <2>8. PICK defined, extended, kept :
             /\ defined = [x \in DOMAIN objs |-> Defined(files, mods, x)]
             /\ extended = [x \in DOMAIN objs |-> ExtendedWith(files, kernels, x)]
             /\ kept = [x \in DOMAIN mods |-> mods[x].extensions]
      OBVIOUS
    <2>9. ASSUME NEW x \in DOMAIN objs
          PROVE  /\ Faithful(objs[x], x, files, mods, kernels) /\ OfSource(x, files, mods, kernels)
                 /\ defined[x] = Defined(files, mods, x) /\ extended[x] = ExtendedWith(files, kernels, x)
                 /\ KeptPairs(objs[x].md.pairs, x, defined[x], extended[x], mods)
                 /\ x.module \in DOMAIN kept /\ \A e \in extended[x] : e[2] \in DOMAIN kept
      <3>1. defined[x] = Defined(files, mods, x) /\ extended[x] = ExtendedWith(files, kernels, x)
            /\ DOMAIN kept = DOMAIN mods
        BY <2>8
      <3>2. Faithful(objs[x], x, files, mods, kernels) /\ OfSource(x, files, mods, kernels)
        BY <1>4, <1>7, <1>9, <2>1 DEF DictionariesInv, SourcesInv, IsFaithful
      <3>3. /\ KeptHere(x) /\ x.module \in DOMAIN modules
            /\ \A e \in ExtendedWith(installation, kernelModules, x) : e[2] \in DOMAIN modules
        BY <1>3, <1>4, <1>9, <1>12, <2>1, AllKept
      <3> QED
        BY <1>4, <1>7, <3>1, <3>2, <3>3 DEF KeptHere
    <2>10. /\ KeptWith(objs2, objs, defined, extended, extensions, k, mods2)
           /\ DOMAIN objs2 = DOMAIN objs
      <3>1. Said(objs, defined, extended) /\ KeptAll(objs, defined, extended, mods)
        BY <2>9 DEF Said, Faithful, KeptAll
      <3>2. ExtensionsBy(extensions, k)
        BY <1>4, <2>6 DEF Extending, ExtensionIs, ExtensionsBy
      <3>3. DOMAIN defined = DOMAIN objs /\ DOMAIN kept = DOMAIN mods
        BY <2>8
      <3>4. Located(defined, extended, kept, k)
        BY <1>3, <1>4, <2>9, <3>3 DEF Located
      <3>5. bound = Folded(BindExtension, [objects |-> objs, modules |-> mods], extensions)
        BY <1>5, <1>6
      <3>6. kept = [x \in DOMAIN mods |-> mods[x].extensions]
        BY <2>8
      <3> QED
        BY <1>7, <1>9, <1>10, <1>11, <3>1, <3>2, <3>3, <3>4, <3>5, <3>6, BoundKept
    <2>11. sp \in DOMAIN objs
      BY <1>12, <2>10
    <2>12. PICK its, new : /\ its = ExtensionsIn(files, kernels, k, path, sp)
                           /\ new = extended[sp] \cup SoFar(extensions, Len(extensions), k, sp)
      OBVIOUS
    <2>13. SoFar(extensions, Len(extensions), k, sp) = its
      <3>1. PICK module : module = mods[k]
        OBVIOUS
      <3>2. There(files, sp)
        BY <2>9, <2>11, OfSourceIsThere
      <3>3. SoFar(extensions, Len(extensions), k, sp) = ExtensionsIn(files, kernels, k, module.path, sp)
        BY <1>4, <2>6, <3>1, <3>2, SoFarIs
      <3> QED
        BY <2>2, <2>12, <3>1, <3>3
    <2>14. new = ExtendedWith(files, more, sp)
      BY <2>5, <2>9, <2>11, <2>12, <2>13
    <2>15. KeptPairs(objs2[sp].md.pairs, sp, defined[sp], new, mods2)
      BY <2>10, <2>11, <2>12 DEF KeptWith
    <2>16. defined[sp] = Defined(files, mods2, sp)
      <3>1. sp.module # Kernel => mods2[sp.module].path = mods[sp.module].path
        BY <2>7, <2>8, <2>9, <2>11 DEF SameNames
      <3>2. SpecIn(files, mods2, sp) = SpecIn(files, mods, sp)
        BY <3>1 DEF SpecIn
      <3>3. Defined(files, mods2, sp) = Defined(files, mods, sp)
        BY <3>2 DEF Defined, MethodsOf
      <3> QED
        BY <2>9, <2>11, <3>3
    <2> QED
      BY <1>1, <1>7, <1>8, <2>14, <2>15, <2>16 DEF KeptHere
  <1> QED
    BY <1>1, <1>8, <1>11, <1>12 DEF KeptInv

(* The bootstrap has not ended while it takes steps.                       *)
LEMMA BootRunning ==
  ASSUME BootNext PROVE phase # "done"
  BY DEF BootNext, loadKernelSpecs, createInitialObjects, instantiateMetaobjectsOf,
         initializeMetaobjectsOf, createKernelNamespace, loadKernelMethods,
         createRuntimeWithBootstrappedKernel, fillSymbolTable,
         switchToDynamicSymbolProvider, NewMethodDict, ConvertPair, ReplaceMethodDict

(* Every step of the program keeps what was overridden.                    *)
LEMMA StepKept ==
  ASSUME Inv, Inv', LinksInv, LinksInv', CompleteInv, LookInv, LookInv', KeptInv, [Next]_vars
  PROVE  KeptInv'
  <1>1. CASE BootNext /\ UNCHANGED loaderVars
    <2>1. phase # "done"
      BY <1>1, BootRunning
    <2>2. DOMAIN modules' = {}
      BY <1>1, <2>1 DEF Inv, LoaderInv, loaderVars
    <2> QED
      BY <2>2, NoModulesKept
  <1>2. CASE loadKernel
    BY <1>2, LoadKernelKept
  <1>3. CASE \E path \in DOMAIN installation.modules : load(path)
    BY <1>3, OnlyLoadsKept DEF load, bootVars
  <1>4. CASE /\ loads # <<>> /\ Top.path \in DOMAIN installation.modules
             /\ \E files \in Orders(DOMAIN Source.classes) : createModule(files)
    BY <1>4, CreateModuleKept
  <1>5. CASE moduleNotFound \/ importRequired \/ createClass \/ compileExtensions \/ justLoaded
    BY <1>5, ModuleNotFoundKept, ImportRequiredKept, CreateClassKept, CompileExtensionsKept,
       JustLoadedKept
  <1>6. CASE sortClasses \/ register
    BY <1>6, OnlyLoadsKept DEF sortClasses, register, bootVars
  <1>7. CASE UNCHANGED vars
    BY <1>7, OnlyLoadsKept DEF vars, bootVars, loaderVars
  <1> QED
    BY <1>1, <1>2, <1>3, <1>4, <1>5, <1>6, <1>7 DEF Next, LoadNext

(* What is kept is what the sources say.                                   *)
KeptIn(mods, m, signature) ==
    signature \in DOMAIN mods[m].overriden /\ mods[m].overriden[signature].module = m
AnswersKept(sp, method, selector) ==
    /\ method.module # sp.module /\ Definition(sp, selector) # Nil => KeptIn(modules, sp.module, <<sp, selector>>)
    /\ \A path \in Extenders(sp, selector) :
          kernelModules[path] # method.module => KeptIn(modules, kernelModules[path], <<sp, selector>>)
LEMMA KeepsRight ==
  ASSUME LooksInv, KeptInv PROVE OverridesKept
  <1> SUFFICES ASSUME NEW sp \in Visible, NEW i \in DOMAIN objects[sp].md.pairs
               PROVE  AnswersKept(sp, objects[sp].md.pairs[i][2], objects[sp].md.pairs[i][2].selector.name)
    BY Zenon DEF OverridesKept, AnswersKept, KeptIn
  <1>1. PICK method, selector : /\ method = objects[sp].md.pairs[i][2]
                                /\ selector = method.selector.name
    BY SMTT(30)
  <1> SUFFICES AnswersKept(sp, method, selector)
    BY <1>1
  <1>2. PICK files, mods, kernels, pairs, x :
           /\ files = installation /\ mods = modules /\ kernels = kernelModules
           /\ pairs = objects[sp].md.pairs /\ x = pairs[i]
    OBVIOUS
  <1>3. PICK defined, extended : /\ defined = Defined(files, mods, sp)
                                 /\ extended = ExtendedWith(files, kernels, sp)
    OBVIOUS
  <1>4. /\ sp \in DOMAIN objects /\ Says(pairs, sp, defined, extended)
        /\ PairsOK(pairs, Universe) /\ sp.module \in BoundModules
    BY <1>2, <1>3, VisibleIs DEF IsFaithful, Faithful, BoundModules
  <1>5. x \in PairsOf(pairs)
    <2>1. i \in 1 .. Len(pairs)
      BY <1>1, <1>2, <1>4 DEF PairsOK, IsSeq
    <2> QED
      BY <1>2, <2>1 DEF PairsOf
  <1>6. KeyOf(x) = selector /\ method = x[2]
    <2>1. Answers(x, sp, defined, extended)
      BY <1>4, <1>5 DEF Says
    <2> QED
      BY <1>1, <1>2, <2>1 DEF Answers, KeyOf
  <1>7. ASSUME DOMAIN modules # {} PROVE KeptPair(x, sp, defined, extended, mods)
    <2>1. Clear(installation)
      BY DEF LooksInv
    <2>2. KeptHere(sp)
      BY <1>4, <1>7, <2>1 DEF KeptInv
    <2> QED
      BY <1>2, <1>3, <1>5, <2>2 DEF KeptHere, KeptPairs
  <1>8. CASE DOMAIN modules = {}
    <2>1. DOMAIN kernelModules = {}
      <3>1. Range(kernelModules) \subseteq DOMAIN modules
        BY DEF LooksInv, LinksInv, ModuleInv
      <3> QED
        BY <1>8, <3>1 DEF Range
    <2>2. extended = {}
      BY <1>2, <1>3, <2>1, NotExtended
    <2>3. method.module = sp.module
      BY <1>4, <1>5, <1>6, <2>2 DEF Says, Answers
    <2>4. Extenders(sp, selector) = {}
      BY <1>2, <1>3, <2>2, ExtendersAre
    <2> QED
      BY <2>3, <2>4 DEF AnswersKept
  <1>9. CASE DOMAIN modules # {}
    <2>1. ASSUME NEW m, HeldBy(mods, m, sp, selector)
          PROVE  KeptIn(modules, m, <<sp, selector>>)
      BY <1>2, <2>1 DEF HeldBy, KeptIn
    <2>2. ASSUME method.module # sp.module, Definition(sp, selector) # Nil
          PROVE  HeldBy(mods, sp.module, sp, selector)
      <3>1. PICK d : d = <<selector, Definition(sp, selector)>>
        OBVIOUS
      <3>2. d \in defined /\ d[1] = selector
        BY <1>2, <1>3, <2>2, <3>1, DefinitionIs
      <3> QED
        BY <1>6, <1>7, <1>9, <2>2, <3>2 DEF KeptPair
    <2>3. ASSUME NEW path \in Extenders(sp, selector), kernelModules[path] # method.module
          PROVE  HeldBy(mods, kernelModules[path], sp, selector)
      <3>1. PICK e : e = <<selector, kernelModules[path]>>
        OBVIOUS
      <3>2. e \in extended /\ e[1] = selector /\ e[2] = kernelModules[path]
        BY <1>2, <1>3, <2>3, <3>1, ExtenderExtends
      <3> QED
        BY <1>6, <1>7, <1>9, <2>3, <3>2 DEF KeptPair
    <2> QED
      BY <2>1, <2>2, <2>3 DEF AnswersKept
  <1> QED
    BY <1>8, <1>9

(* The method that a species answers with is never the only one: whatever  *)
(* it took the place of, its own module and every module that extends it   *)
(* keeps in its table of overridden methods (Module>>justLoaded over the   *)
(* extensions the Loader compiles), for every installation whose sources   *)
(* are clear and at every moment of every load, those that fail included.  *)
THEOREM OverridesAreKept ==
  Spec => [](Clear(installation) => OverridesKept)
  <1>1. LoaderInit => Inv /\ LinksInv /\ CompleteInv /\ LookInv /\ FailedFull /\ KeptInv
    <2>1. LoaderInit => DOMAIN modules = {}
      BY DEF LoaderInit
    <2>2. DOMAIN modules = {} => KeptInv
      BY DEF KeptInv, Keeping
    <2> QED
      BY <2>1, <2>2, InitInv, InitLinks, InitComplete, InitLooks, InitFailed
  <1>2. (Inv /\ LinksInv /\ CompleteInv /\ LookInv /\ FailedFull /\ KeptInv) /\ [Next]_vars
          => (Inv /\ LinksInv /\ CompleteInv /\ LookInv /\ FailedFull /\ KeptInv)'
    <2>1. SUFFICES ASSUME Inv, LinksInv, CompleteInv, LookInv, FailedFull, KeptInv, [Next]_vars
                   PROVE  (Inv /\ LinksInv /\ CompleteInv /\ LookInv /\ FailedFull /\ KeptInv)'
      OBVIOUS
    <2>2. Inv' /\ LinksInv' /\ CompleteInv'
      BY <2>1, StepKeeps, StepLinks, StepComplete
    <2>3. LookInv' /\ FailedFull'
      BY <2>1, <2>2, StepLooks, StepFailed
    <2>4. KeptInv'
      BY <2>1, <2>2, <2>3, StepKept
    <2> QED
      BY <2>2, <2>3, <2>4
  <1>3. Inv /\ LinksInv /\ CompleteInv /\ LookInv /\ FailedFull /\ KeptInv
          => (Clear(installation) => OverridesKept)
    BY KeepsRight DEF LooksInv
  <1> QED
    BY <1>1, <1>2, <1>3, PTL DEF Spec

=============================================================================
