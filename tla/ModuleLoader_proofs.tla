------------------------ MODULE ModuleLoader_proofs ------------------------
(***************************************************************************)
(* Theorems about the bootstrap and the loader: symbols are unique,        *)
(* nothing dangles, and registered modules are complete.                   *)
(***************************************************************************)
EXTENDS ModuleLoader, FiniteSetTheorems, SequenceTheorems, TLAPS

-----------------------------------------------------------------------------
(* Sequences, of elements of any kind.                                     *)
IsSeq(s) == Len(s) \in Nat /\ s = [i \in 1 .. Len(s) |-> s[i]]

(* A sequence in the sense of Seq, and back.                               *)
LEMMA SeqIs ==
  ASSUME NEW S, NEW s \in Seq(S)
  PROVE  IsSeq(s) /\ \A i \in 1 .. Len(s) : s[i] \in S
  BY LenProperties DEF IsSeq

(* A sequence of elements of S is in Seq(S).                               *)
LEMMA IsInSeq ==
  ASSUME NEW S, NEW s, IsSeq(s), \A i \in 1 .. Len(s) : s[i] \in S
  PROVE  s \in Seq(S)
  <1>1. s \in [1 .. Len(s) -> S]
    BY DEF IsSeq
  <1> QED
    BY <1>1, SeqDef DEF IsSeq

(* A sequence is one of its own elements.                                  *)
LEMMA OfSome ==
  ASSUME NEW s, IsSeq(s)
  PROVE  s \in Seq({s[i] : i \in 1 .. Len(s)})
  BY IsInSeq

(* What Append, \o and EXCEPT make of a sequence.                          *)
LEMMA Appended ==
  ASSUME NEW s, IsSeq(s), NEW e
  PROVE  /\ IsSeq(Append(s, e)) /\ Len(Append(s, e)) = Len(s) + 1
         /\ \A i \in 1 .. Len(s) + 1 :
              Append(s, e)[i] = IF i = Len(s) + 1 THEN e ELSE s[i]
  <1>1. PICK S : S = {s[i] : i \in 1 .. Len(s)} \union {e}
    OBVIOUS
  <1>2. s \in Seq(S)
    BY <1>1, IsInSeq
  <1>3. e \in S
    BY <1>1
  <1>4. /\ Append(s, e) \in Seq(S) /\ Len(Append(s, e)) = Len(s) + 1
        /\ \A i \in 1 .. Len(s) : Append(s, e)[i] = s[i]
        /\ Append(s, e)[Len(s) + 1] = e
    BY <1>2, <1>3, AppendProperties
  <1>5. IsSeq(Append(s, e)) /\ Len(s) \in Nat
    BY <1>4, SeqIs DEF IsSeq
  <1> QED
    BY <1>4, <1>5

(* What the concatenation holds at each place.                             *)
LEMMA ConcatIs ==
  ASSUME NEW s, IsSeq(s), NEW t, IsSeq(t)
  PROVE  /\ IsSeq(s \o t) /\ Len(s \o t) = Len(s) + Len(t)
         /\ \A i \in 1 .. Len(s) + Len(t) :
              (s \o t)[i] = IF i <= Len(s) THEN s[i] ELSE t[i - Len(s)]
  <1>1. PICK S : S = {s[i] : i \in 1 .. Len(s)} \union {t[i] : i \in 1 .. Len(t)}
    OBVIOUS
  <1>2. s \in Seq(S) /\ t \in Seq(S)
    BY <1>1, IsInSeq
  <1>3. s \o t \in Seq(S)
    BY <1>2, ConcatProperties
  <1> QED
    BY <1>2, <1>3, SeqIs, ConcatProperties

Replaced(s, k, e) == [s EXCEPT ![k] = e]

(* What EXCEPT leaves of a sequence.                                       *)
LEMMA Updated ==
  ASSUME NEW s, IsSeq(s), NEW k, NEW e
  PROVE  /\ IsSeq(Replaced(s, k, e)) /\ Len(Replaced(s, k, e)) = Len(s)
         /\ \A i \in 1 .. Len(s) : Replaced(s, k, e)[i] = IF i = k THEN e ELSE s[i]
  <1>1. PICK S : S = {s[i] : i \in 1 .. Len(s)} \union {e}
    OBVIOUS
  <1>2. s \in Seq(S)
    BY <1>1, IsInSeq
  <1>3. PICK t : t = [s EXCEPT ![k] = e]
    OBVIOUS
  <1>4. t = [i \in 1 .. Len(s) |-> IF i = k THEN e ELSE s[i]]
    BY <1>3 DEF IsSeq
  <1>5. t \in [1 .. Len(s) -> S]
    BY <1>1, <1>4
  <1>6. t \in Seq(S) /\ DOMAIN t = 1 .. Len(s)
    BY <1>4, <1>5, SeqDef DEF IsSeq
  <1>7. Len(t) = Len(s)
    BY <1>6, LenProperties DEF IsSeq
  <1> QED
    BY <1>3, <1>4, <1>6, <1>7, SeqIs DEF Replaced

(* The empty sequence.                                                     *)
LEMMA Emptied == ASSUME NEW s, s = <<>> PROVE IsSeq(s) /\ Len(s) = 0
  <1>1. s \in Seq({})
    OBVIOUS
  <1> QED
    BY <1>1, SeqIs

-----------------------------------------------------------------------------
(* Symbols, and methods and pairs that refer to nothing else than the      *)
(* symbols in U.                                                           *)
Unique(U) == \A s, t \in U : s.name = t.name => s = t
MethodOK(m, U) == m.selector \in U /\ \A i \in DOMAIN m.literals : m.literals[i] \in U
MethodsOK(methods, U) == IsSeq(methods) /\ \A i \in 1 .. Len(methods) : MethodOK(methods[i], U)
PairsOK(pairs, U) ==
    IsSeq(pairs) /\ \A i \in 1 .. Len(pairs) : pairs[i][1] \in U /\ MethodOK(pairs[i][2], U)
DictOK(md, U) == "pairs" \in DOMAIN md /\ PairsOK(md.pairs, U)
SlotsOK(slots, U) == "md" \in DOMAIN slots /\ (slots.md = Nil \/ DictOK(slots.md, U))
FullSlots(slots, U) == "md" \in DOMAIN slots /\ DictOK(slots.md, U)

(* What is true of some symbols is true of more.                           *)
LEMMA MorePairs ==
  ASSUME NEW U, NEW V, U \subseteq V, NEW pairs, PairsOK(pairs, U)
  PROVE  PairsOK(pairs, V)
  BY DEF PairsOK, MethodOK

(* The same for methods.                                                   *)
LEMMA MoreMethods ==
  ASSUME NEW U, NEW V, U \subseteq V, NEW methods, MethodsOK(methods, U)
  PROVE  MethodsOK(methods, V)
  BY DEF MethodsOK, MethodOK

(* The same for the slots of a behavior.                                   *)
LEMMA MoreSlots ==
  ASSUME NEW U, NEW V, U \subseteq V, NEW slots
  PROVE  /\ SlotsOK(slots, U) => SlotsOK(slots, V)
         /\ FullSlots(slots, U) => FullSlots(slots, V)
  <1>1. DictOK(slots.md, U) => DictOK(slots.md, V)
    BY MorePairs DEF DictOK
  <1> QED
    BY <1>1 DEF SlotsOK, FullSlots

(* at:put: adds nothing but its arguments.                                 *)
LEMMA PutPairs ==
  ASSUME NEW U, NEW pairs, PairsOK(pairs, U), NEW selector \in U, NEW m, MethodOK(m, U)
  PROVE  PairsOK(AtPut(pairs, selector, m), U)
  <1>e. PICK e : e = <<selector, m>>
    OBVIOUS
  <1>1. e[1] \in U /\ MethodOK(e[2], U)
    BY <1>e
  <1>2. IsSeq(pairs) /\ \A i \in 1 .. Len(pairs) : pairs[i][1] \in U /\ MethodOK(pairs[i][2], U)
    BY DEF PairsOK
  <1>3. PairsOK(Append(pairs, e), U)
    BY <1>1, <1>2, Appended DEF PairsOK
  <1>4. ASSUME NEW k PROVE PairsOK(Replaced(pairs, k, e), U)
    <2>1. /\ IsSeq(Replaced(pairs, k, e)) /\ Len(Replaced(pairs, k, e)) = Len(pairs)
          /\ \A i \in 1 .. Len(pairs) : Replaced(pairs, k, e)[i] = IF i = k THEN e ELSE pairs[i]
      BY <1>2, Updated
    <2> QED
      BY <2>1, <1>1, <1>2 DEF PairsOK
  <1> QED
    BY <1>e, <1>3, <1>4 DEF AtPut, Replaced

LiteralsOf(known, m) == [i \in DOMAIN m.literals |-> transferLiteral(known, m.literals[i])]

(* A compiled method refers to the symbols it was compiled with.           *)
LEMMA CompiledOK ==
  ASSUME NEW U, NEW known, NEW sp, NEW m, NEW module,
         NamesOfMethod(m) \subseteq DOMAIN known, \A n \in DOMAIN known : known[n] \in U
  PROVE  /\ known[m.selector] \in U
         /\ MethodOK(CompiledMethod(known, sp, m, module), U)
  <1>1. m.selector \in DOMAIN known
    BY DEF NamesOfMethod
  <1>2. \A i \in DOMAIN m.literals : m.literals[i] \in DOMAIN known
    BY DEF NamesOfMethod, Range
  <1>3. PICK literals : literals = LiteralsOf(known, m)
    OBVIOUS
  <1>4. \A i \in DOMAIN literals : literals[i] \in U
    BY <1>2, <1>3 DEF transferLiteral, LiteralsOf
  <1>5. CompiledMethod(known, sp, m, module)
          = [class |-> sp, selector |-> known[m.selector], source |-> m.source,
             module |-> module, literals |-> LiteralsOf(known, m)]
    BY DEF CompiledMethod, LiteralsOf
  <1>6. /\ CompiledMethod(known, sp, m, module).selector = known[m.selector]
        /\ CompiledMethod(known, sp, m, module).literals = literals
    BY <1>3, <1>5
  <1> QED
    BY <1>1, <1>4, <1>6 DEF MethodOK

Named(known) == \A n \in DOMAIN known : known[n].name = n
Extended(known, names, all) ==
    /\ DOMAIN all = DOMAIN known \cup names
    /\ \A n \in DOMAIN all : all[n].name = n /\ all[n] \in Range(all)
    /\ Range(known) \subseteq Range(all)
    /\ Unique(Range(all))

(* Interned keeps the symbols that are there, and one of each name.        *)
LEMMA InternedOK ==
  ASSUME NEW known, NEW names, Named(known)
  PROVE  Extended(known, names, Interned(known, names))
  <1> DEFINE all == Interned(known, names)
  <1> HIDE DEF all
  <1>1. DOMAIN all = DOMAIN known \cup names
    BY DEF Interned, all
  <1>2. \A n \in DOMAIN all : all[n] = IF n \in DOMAIN known THEN known[n] ELSE newSymbol(n)
    BY DEF Interned, all
  <1>3. \A n \in DOMAIN all : all[n].name = n
    BY <1>2 DEF newSymbol, Named
  <1>4. \A n \in DOMAIN all : all[n] \in Range(all)
    BY DEF Range
  <1>5. Range(known) \subseteq Range(all)
    BY <1>1, <1>2 DEF Range
  <1>6. Unique(Range(all))
    BY <1>3 DEF Range, Unique
  <1> QED
    BY <1>1, <1>3, <1>4, <1>5, <1>6 DEF Extended, all

(* asSymbol adds the names that the table has not got.                     *)
Added(table, names) == {[name |-> n, by |-> "asSymbol"] :
                          n \in {x \in names : ExistingSymbols(table, x) = {}}}

(* asSymbol keeps the symbols unique, and every name is found afterwards.  *)
LEMMA WithSymbolsOK ==
  ASSUME NEW table, Unique(table), NEW names, NEW all, all = WithSymbols(table, names)
  PROVE  /\ table \subseteq all /\ Unique(all)
         /\ \A n \in names : DynamicSymbol(all, n) \in all
  <1>1. all = table \cup Added(table, names)
    BY DEF WithSymbols, Added
  <1>2. \A s \in Added(table, names) : s.name \in names /\ ExistingSymbols(table, s.name) = {}
    BY DEF Added
  <1>3. \A s, t \in Added(table, names) : s.name = t.name => s = t
    BY DEF Added
  <1>4. \A s \in Added(table, names), t \in table : s.name # t.name
    BY <1>2 DEF ExistingSymbols
  <1>5. Unique(all)
    BY <1>1, <1>3, <1>4 DEF Unique
  <1>6. ASSUME NEW n \in names PROVE DynamicSymbol(all, n) \in all
    <2>1. \E s \in all : s.name = n
      <3>1. CASE ExistingSymbols(table, n) = {}
        <4>1. PICK s : s = [name |-> n, by |-> "asSymbol"]
          OBVIOUS
        <4>2. s \in Added(table, names) /\ s.name = n
          BY <3>1, <4>1 DEF Added
        <4> QED
          BY <4>2, <1>1
      <3>2. CASE ExistingSymbols(table, n) # {}
        BY <3>2, <1>1 DEF ExistingSymbols
      <3> QED
        BY <3>1, <3>2
    <2>2. ExistingSymbols(all, n) # {}
      BY <2>1 DEF ExistingSymbols
    <2>3. Added(all, {n}) = {}
      BY <2>2 DEF Added
    <2>4. WithSymbols(all, {n}) = all
      BY <2>3 DEF WithSymbols, Added
    <2> QED
      BY <2>1, <2>4 DEF DynamicSymbol
  <1> QED
    BY <1>1, <1>5, <1>6

-----------------------------------------------------------------------------
(* The loops over methods.                                                 *)
InstallStep(c, acc, m) ==
    IF ~m.compiles \/ ArrayIsFull(acc, c.known[m.selector]) THEN acc
    ELSE AtPut(acc, c.known[m.selector], CompiledMethod(c.known, c.sp, m, 0))
PairsIn(c, pairs) == PairsOK(pairs, c.U)
Install == INSTANCE FoldInduction WITH step <- InstallStep, Holds <- PairsIn

(* The loop of loadKernelMethods over the methods of one behavior: the     *)
(* pairs refer to known symbols only.                                      *)
LEMMA InstallAllOK ==
  ASSUME NEW U, NEW known, NEW pairs, PairsOK(pairs, U), NEW sp,
         NEW methods \in Seq(MethodSpec),
         \A i \in 1 .. Len(methods) :
            methods[i].compiles => NamesOfMethod(methods[i]) \subseteq DOMAIN known,
         \A n \in DOMAIN known : known[n] \in U
  PROVE  PairsOK(InstallAll(known, pairs, sp, methods), U)
  <1>c. PICK c : c = [known |-> known, sp |-> sp, U |-> U]
    OBVIOUS
  <1>d. c.known = known /\ c.sp = sp /\ c.U = U
    BY <1>c
  <1>1. InstallAll(known, pairs, sp, methods) = Install!Loop(c, pairs, methods)
    BY <1>d DEF InstallAll, InstallStep, Install!Loop, Folded, Install!Folded
  <1>2. ASSUME NEW acc, NEW i \in 1 .. Len(methods), PairsIn(c, acc)
        PROVE  PairsIn(c, InstallStep(c, acc, methods[i]))
    <2>1. PairsOK(acc, U)
      BY <1>2, <1>d DEF PairsIn
    <2>2. CASE ~methods[i].compiles \/ ArrayIsFull(acc, known[methods[i].selector])
      BY <2>1, <2>2, <1>d DEF PairsIn, InstallStep
    <2>3. CASE ~(~methods[i].compiles \/ ArrayIsFull(acc, known[methods[i].selector]))
      <3>1. NamesOfMethod(methods[i]) \subseteq DOMAIN known
        BY <2>3
      <3>2. known[methods[i].selector] \in U /\ MethodOK(CompiledMethod(known, sp, methods[i], 0), U)
        BY <3>1, CompiledOK
      <3>3. PairsOK(AtPut(acc, known[methods[i].selector], CompiledMethod(known, sp, methods[i], 0)), U)
        BY <2>1, <3>2, PutPairs
      <3>4. InstallStep(c, acc, methods[i])
              = AtPut(acc, known[methods[i].selector], CompiledMethod(known, sp, methods[i], 0))
        BY <2>3, <1>d DEF InstallStep
      <3> QED
        BY <3>3, <3>4, <1>d DEF PairsIn
    <2> QED
      BY <2>2, <2>3
  <1>3. Len(methods) \in Nat /\ PairsIn(c, pairs)
    BY <1>d, SeqIs DEF PairsIn, IsSeq
  <1>4. PairsIn(c, Install!Loop(c, pairs, methods))
    BY <1>2, <1>3, Install!LoopMaintains
  <1> QED
    BY <1>1, <1>4, <1>d DEF PairsIn

(* addSelector:withMethod:, for every method of a class of a module.       *)
PutStep(c, acc, m) == AtPut(acc, c.known[m.selector], CompiledMethod(c.known, c.sp, m, c.sp.module))
Put == INSTANCE FoldInduction WITH step <- PutStep, Holds <- PairsIn

(* The names in one method are among the names in all of them.             *)
LEMMA NamesOfOne ==
  ASSUME NEW methods, IsSeq(methods), NEW i \in 1 .. Len(methods)
  PROVE  NamesOfMethod(methods[i]) \subseteq NamesIn(methods)
  <1>1. i \in DOMAIN methods
    BY DEF IsSeq
  <1>2. methods[i] \in Range(methods)
    BY <1>1 DEF Range
  <1> QED
    BY <1>2 DEF NamesIn

KnownIn(table, names) == [n \in names |-> DynamicSymbol(table, n)]

(* The dictionary of a class of a module refers to symbols of the table.   *)
LEMMA InstalledOK ==
  ASSUME NEW table, NEW sp, NEW methods, IsSeq(methods),
         \A n \in NamesIn(methods) : DynamicSymbol(table, n) \in table
  PROVE  DictOK(Installed(table, sp, methods), table)
  <1>k. PICK known : known = KnownIn(table, NamesIn(methods))
    OBVIOUS
  <1>0. DOMAIN known = NamesIn(methods) /\ \A n \in DOMAIN known : known[n] \in table
    BY <1>k DEF KnownIn
  <1>c. PICK c : c = [known |-> known, sp |-> sp, U |-> table]
    OBVIOUS
  <1>d. c.known = known /\ c.sp = sp /\ c.U = table
    BY <1>c
  <1>1. Installed(table, sp, methods)
          = [kind |-> "MethodDictionary", pairs |-> Put!Loop(c, <<>>, methods)]
    BY <1>d, <1>k DEF Installed, PutStep, Put!Loop, Folded, Put!Folded, KnownIn
  <1>2. ASSUME NEW acc, NEW i \in 1 .. Len(methods), PairsIn(c, acc)
        PROVE  PairsIn(c, PutStep(c, acc, methods[i]))
    <2>1. PairsOK(acc, table)
      BY <1>2, <1>d DEF PairsIn
    <2>2. NamesOfMethod(methods[i]) \subseteq DOMAIN known
      BY <1>0, NamesOfOne
    <2>3. known[methods[i].selector] \in table
          /\ MethodOK(CompiledMethod(known, sp, methods[i], sp.module), table)
      BY <1>0, <2>2, CompiledOK
    <2>4. PairsOK(AtPut(acc, known[methods[i].selector],
                        CompiledMethod(known, sp, methods[i], sp.module)), table)
      BY <2>1, <2>3, PutPairs
    <2> QED
      BY <2>4, <1>d DEF PairsIn, PutStep
  <1>3. Len(methods) \in Nat /\ PairsIn(c, <<>>)
    BY <1>d, Emptied DEF PairsIn, IsSeq, PairsOK
  <1>4. PairsIn(c, Put!Loop(c, <<>>, methods))
    BY <1>2, <1>3, Put!LoopMaintains
  <1>5. "pairs" \in DOMAIN Installed(table, sp, methods)
        /\ Installed(table, sp, methods).pairs = Put!Loop(c, <<>>, methods)
    BY <1>1
  <1> QED
    BY <1>4, <1>5, <1>d DEF DictOK, PairsIn

(* Extensions are compiled with the symbols of the table.                  *)
LEMMA ExtensionsOK ==
  ASSUME NEW table, NEW module, NEW sp, NEW methods, IsSeq(methods),
         \A n \in NamesIn(methods) : DynamicSymbol(table, n) \in table
  PROVE  MethodsOK(Extensions(table, module, methods, sp), table)
  <1>k. PICK known : known = KnownIn(table, NamesIn(methods))
    OBVIOUS
  <1>0. DOMAIN known = NamesIn(methods) /\ \A n \in DOMAIN known : known[n] \in table
    BY <1>k DEF KnownIn
  <1>1. PICK compiled : compiled = Extensions(table, module, methods, sp)
    OBVIOUS
  <1>2. compiled = [i \in DOMAIN methods |-> CompiledMethod(known, sp, methods[i], module)]
    BY <1>1, <1>k DEF Extensions, KnownIn
  <1>3. DOMAIN methods = 1 .. Len(methods) /\ Len(methods) \in Nat
    BY DEF IsSeq
  <1>4. \A i \in 1 .. Len(methods) : compiled[i] = CompiledMethod(known, sp, methods[i], module)
    BY <1>2, <1>3
  <1>5. \A i \in 1 .. Len(methods) : MethodOK(CompiledMethod(known, sp, methods[i], module), table)
    <2> SUFFICES ASSUME NEW i \in 1 .. Len(methods)
                 PROVE  MethodOK(CompiledMethod(known, sp, methods[i], module), table)
      OBVIOUS
    <2>1. NamesOfMethod(methods[i]) \subseteq DOMAIN known
      BY <1>0, NamesOfOne
    <2> QED
      BY <1>0, <2>1, CompiledOK
  <1>6. compiled \in [1 .. Len(methods) -> {compiled[i] : i \in 1 .. Len(methods)}]
    BY <1>2, <1>3
  <1>7. compiled \in Seq({compiled[i] : i \in 1 .. Len(methods)}) /\ DOMAIN compiled = 1 .. Len(methods)
    BY <1>6, <1>3, SeqDef
  <1>8. IsSeq(compiled) /\ Len(compiled) = Len(methods)
    BY <1>3, <1>7, SeqIs, LenProperties
  <1> QED
    BY <1>1, <1>4, <1>5, <1>8 DEF MethodsOK

-----------------------------------------------------------------------------
(* Behaviors and modules.                                                  *)
ModuleOK(module, U) == "extensions" \in DOMAIN module /\ MethodsOK(module.extensions, U)
AllFull(objs, U) == \A sp \in DOMAIN objs : FullSlots(objs[sp], U)
ModulesOK(mods, U) == \A m \in DOMAIN mods : ModuleOK(mods[m], U)

WithPairs(slots, pairs) == [slots EXCEPT !.md.pairs = pairs]
Replacing(f, k, e) == [f EXCEPT ![k] = e]

(* EXCEPT changes one place.                                               *)
LEMMA ReplacingOne ==
  ASSUME NEW f, NEW k, NEW e
  PROVE  /\ DOMAIN Replacing(f, k, e) = DOMAIN f
         /\ \A x \in DOMAIN f : Replacing(f, k, e)[x] = IF x = k THEN e ELSE f[x]
  BY DEF Replacing

(* A method dictionary may be given other pairs.                           *)
LEMMA FullWithPairs ==
  ASSUME NEW U, NEW slots, FullSlots(slots, U), NEW pairs, PairsOK(pairs, U)
  PROVE  FullSlots(WithPairs(slots, pairs), U)
  <1>1. "md" \in DOMAIN slots /\ "pairs" \in DOMAIN slots.md
    BY DEF FullSlots, DictOK
  <1>2. PICK md : md = Replacing(slots.md, "pairs", pairs)
    OBVIOUS
  <1>3. "pairs" \in DOMAIN md /\ md.pairs = pairs
    BY <1>1, <1>2, ReplacingOne
  <1>4. WithPairs(slots, pairs) = Replacing(slots, "md", md)
    BY <1>2 DEF WithPairs, Replacing
  <1>5. "md" \in DOMAIN Replacing(slots, "md", md) /\ Replacing(slots, "md", md).md = md
    BY <1>1, ReplacingOne
  <1> QED
    BY <1>3, <1>4, <1>5 DEF FullSlots, DictOK

Putting(objs, sp, selector, m) == [objs EXCEPT ![sp].md.pairs = AtPut(@, selector, m)]

(* Putting a method into one behavior leaves all of them as they must be.  *)
LEMMA PuttingOK ==
  ASSUME NEW U, NEW objs, AllFull(objs, U), NEW sp, NEW m, MethodOK(m, U)
  PROVE  AllFull(Putting(objs, sp, m.selector, m), U)
  <1>1. PICK pairs : pairs = AtPut(objs[sp].md.pairs, m.selector, m)
    OBVIOUS
  <1>2. Putting(objs, sp, m.selector, m) = Replacing(objs, sp, WithPairs(objs[sp], pairs))
    BY <1>1 DEF Putting, Replacing, WithPairs
  <1>3. ASSUME sp \in DOMAIN objs PROVE FullSlots(WithPairs(objs[sp], pairs), U)
    <2>1. FullSlots(objs[sp], U)
      BY <1>3 DEF AllFull
    <2>2. PairsOK(objs[sp].md.pairs, U) /\ m.selector \in U
      BY <2>1 DEF FullSlots, DictOK, MethodOK
    <2>3. PairsOK(pairs, U)
      BY <1>1, <2>2, PutPairs
    <2> QED
      BY <2>1, <2>3, FullWithPairs
  <1> QED
    BY <1>2, <1>3, ReplacingOne DEF AllFull

(* A module keeps its extensions when another slot of it is set.           *)
LEMMA OtherSlot ==
  ASSUME NEW U, NEW mods, ModulesOK(mods, U), NEW k, NEW slot, slot # "extensions", NEW v,
         NEW mods2, mods2 = Replacing(mods, k, Replacing(mods[k], slot, v))
  PROVE  ModulesOK(mods2, U) /\ DOMAIN mods2 = DOMAIN mods
  <1>1. PICK module : module = Replacing(mods[k], slot, v)
    OBVIOUS
  <1>2. ASSUME k \in DOMAIN mods PROVE ModuleOK(module, U)
    <2>1. ModuleOK(mods[k], U)
      BY <1>2 DEF ModulesOK
    <2>2. "extensions" \in DOMAIN mods[k]
      BY <2>1 DEF ModuleOK
    <2>3. "extensions" \in DOMAIN module /\ module.extensions = mods[k].extensions
      BY <1>1, <2>2, ReplacingOne
    <2> QED
      BY <2>1, <2>3 DEF ModuleOK
  <1>3. /\ DOMAIN mods2 = DOMAIN mods
        /\ \A x \in DOMAIN mods : mods2[x] = IF x = k THEN module ELSE mods[x]
    BY <1>1, ReplacingOne
  <1> QED
    BY <1>2, <1>3 DEF ModulesOK

(* bindExtension, for every extension of a module.                         *)
BindStep(c, state, m) == BindExtension(state, m)
BoundOK(c, state) ==
    /\ AllFull(state.objects, c.U) /\ ModulesOK(state.modules, c.U)
    /\ DOMAIN state.modules = c.modules
Bind == INSTANCE FoldInduction WITH step <- BindStep, Holds <- BoundOK

OverridenIn(mods, k, signature, current) ==
    [mods EXCEPT ![k].overriden = Over(At(signature, current), @)]

(* One extension is installed, and what it replaces is kept.               *)
LEMMA BindExtensionOK ==
  ASSUME NEW c, NEW state, BoundOK(c, state), NEW m, MethodOK(m, c.U)
  PROVE  BoundOK(c, BindExtension(state, m))
  <1>1. AllFull(state.objects, c.U) /\ ModulesOK(state.modules, c.U) /\ DOMAIN state.modules = c.modules
    BY DEF BoundOK
  <1>2. AllFull(Putting(state.objects, m.class, m.selector, m), c.U)
    BY <1>1, PuttingOK
  <1>3. ASSUME NEW k, NEW signature, NEW current
        PROVE  /\ ModulesOK(OverridenIn(state.modules, k, signature, current), c.U)
               /\ DOMAIN OverridenIn(state.modules, k, signature, current) = DOMAIN state.modules
    <2>1. PICK v : v = Over(At(signature, current), state.modules[k].overriden)
      OBVIOUS
    <2>2. OverridenIn(state.modules, k, signature, current)
            = Replacing(state.modules, k, Replacing(state.modules[k], "overriden", v))
      BY <2>1 DEF OverridenIn, Replacing
    <2> QED
      BY <1>1, <2>2, OtherSlot
  <1>4. PICK bound : bound = BindExtension(state, m)
    OBVIOUS
  <1>5. /\ bound.objects = Putting(state.objects, m.class, m.selector, m)
        /\ \/ bound.modules = state.modules
           \/ \E k, signature, current :
                 bound.modules = OverridenIn(state.modules, k, signature, current)
    <2>1. PICK i : i = PositionOf(state.objects[m.class].md.pairs, m.selector)
      OBVIOUS
    <2>2. PICK current : current = state.objects[m.class].md.pairs[i][2]
      OBVIOUS
    <2>3. bound = [objects |-> Putting(state.objects, m.class, m.selector, m),
                   modules |-> IF i = 0 THEN state.modules
                               ELSE OverridenIn(state.modules, current.module,
                                                <<m.class, m.selector.name>>, current)]
      BY <1>4, <2>1, <2>2 DEF BindExtension, Putting, OverridenIn
    <2>4. /\ bound.objects = Putting(state.objects, m.class, m.selector, m)
          /\ bound.modules = IF i = 0 THEN state.modules
                             ELSE OverridenIn(state.modules, current.module,
                                              <<m.class, m.selector.name>>, current)
      BY <2>3
    <2> QED
      BY <2>4
  <1>6. ModulesOK(bound.modules, c.U) /\ DOMAIN bound.modules = c.modules
    BY <1>1, <1>3, <1>5
  <1> QED
    BY <1>2, <1>4, <1>5, <1>6 DEF BoundOK

(* justLoaded installs all of them.                                        *)
LEMMA BoundAll ==
  ASSUME NEW U, NEW objs, AllFull(objs, U), NEW mods, ModulesOK(mods, U),
         NEW extensions, MethodsOK(extensions, U),
         NEW bound, bound = Folded(BindExtension, [objects |-> objs, modules |-> mods], extensions)
  PROVE  AllFull(bound.objects, U) /\ ModulesOK(bound.modules, U) /\ DOMAIN bound.modules = DOMAIN mods
  <1>c. PICK c : c = [U |-> U, modules |-> DOMAIN mods]
    OBVIOUS
  <1>d. c.U = U /\ c.modules = DOMAIN mods
    BY <1>c
  <1>b. PICK base : base = [objects |-> objs, modules |-> mods]
    OBVIOUS
  <1>e. base.objects = objs /\ base.modules = mods
    BY <1>b
  <1>1. bound = Bind!Loop(c, base, extensions)
    BY <1>b DEF BindStep, Bind!Loop, Folded, Bind!Folded
  <1>2. BoundOK(c, base) /\ Len(extensions) \in Nat
    BY <1>d, <1>e DEF BoundOK, MethodsOK, IsSeq
  <1>3. ASSUME NEW u, NEW i \in 1 .. Len(extensions), BoundOK(c, u)
        PROVE  BoundOK(c, BindStep(c, u, extensions[i]))
    <2>1. MethodOK(extensions[i], c.U)
      BY <1>d DEF MethodsOK
    <2> QED
      BY <1>3, <2>1, BindExtensionOK DEF BindStep
  <1>4. BoundOK(c, Bind!Loop(c, base, extensions))
    BY <1>2, <1>3, Bind!LoopMaintains
  <1> QED
    BY <1>1, <1>4, <1>d DEF BoundOK

-----------------------------------------------------------------------------
(* The least of some numbers, and the elements of a set as a sequence.     *)
LEMMA MinIn ==
  ASSUME NEW S, S \subseteq Nat, S # {}
  PROVE  Min(S) \in S
  <1>r. PICK R : R = {ss \in Nat \X Nat : ss[1] < ss[2]}
    OBVIOUS
  <1>1. IsWellFoundedOn(R, Nat)
    BY <1>r, NatLessThanWellFounded DEF OpToRel
  <1>2. PICK x \in S : \A y \in S : ~(<<y, x>> \in R)
    BY <1>1, WFMin
  <1>3. \A y \in S : x <= y
    <2> SUFFICES ASSUME NEW y \in S PROVE x <= y
      OBVIOUS
    <2>1. ~(<<y, x>> \in R) /\ x \in Nat /\ y \in Nat
      BY <1>2
    <2> QED
      BY <2>1, <1>r
  <1> QED
    BY <1>3 DEF Min

(* The elements of a finite set in some order.                             *)
LEMMA SetToSeqOK ==
  ASSUME NEW S, IsFiniteSet(S)
  PROVE  SetToSeq(S) \in Seq(S)
  <1>1. PICK n : n = Cardinality(S)
    OBVIOUS
  <1>2. n \in Nat /\ ExistsBijection(1 .. n, S)
    BY <1>1, FS_CardinalityType
  <1>3. PICK f : f \in Bijection(1 .. n, S)
    BY <1>2 DEF ExistsBijection
  <1>4. f \in [1 .. n -> S] /\ IsInjective(f)
    BY <1>3 DEF Bijection, Injection, IsInjective
  <1>5. SetToSeq(S) \in [1 .. n -> S]
    BY <1>1, <1>4 DEF SetToSeq
  <1> QED
    BY <1>2, <1>5, SeqDef

(* The loops over the files of a directory keep to its classes.            *)
WithoutStep(c, acc, f) == IF f = c.name THEN acc ELSE Append(acc, f)
FilesIn(c, files) == files \in Seq(c.S)
Drop == INSTANCE FoldInduction WITH step <- WithoutStep, Holds <- FilesIn

(* Removing a file leaves files that were there.                           *)
LEMMA WithoutOK ==
  ASSUME NEW S, NEW name, NEW files \in Seq(S)
  PROVE  Without(name, files) \in Seq(S)
  <1>c. PICK c : c = [name |-> name, S |-> S]
    OBVIOUS
  <1>d. c.name = name /\ c.S = S
    BY <1>c
  <1>1. Without(name, files) = Drop!Loop(c, <<>>, files)
    BY <1>d DEF Without, WithoutStep, Drop!Loop, Folded, Drop!Folded
  <1>2. FilesIn(c, <<>>) /\ Len(files) \in Nat /\ \A i \in 1 .. Len(files) : files[i] \in S
    BY <1>d, SeqIs DEF FilesIn, IsSeq
  <1>3. ASSUME NEW u, NEW i \in 1 .. Len(files), FilesIn(c, u)
        PROVE  FilesIn(c, WithoutStep(c, u, files[i]))
    <2>1. u \in Seq(S) /\ files[i] \in S
      BY <1>2, <1>3, <1>d DEF FilesIn
    <2>2. Append(u, files[i]) \in Seq(S)
      BY <2>1, AppendProperties
    <2> QED
      BY <2>1, <2>2, <1>d DEF FilesIn, WithoutStep
  <1>4. FilesIn(c, Drop!Loop(c, <<>>, files))
    BY <1>2, <1>3, Drop!LoopMaintains
  <1> QED
    BY <1>1, <1>4, <1>d DEF FilesIn

SortStateOK(S, state) ==
    /\ {"sorted", "created", "remaining"} \subseteq DOMAIN state
    /\ state.sorted \in Seq(S) /\ state.remaining \in Seq(S)
StateIn(c, state) == SortStateOK(c.S, state)

PassStep(c, acc, name) ==
    IF c.specs[name].supername \notin DOMAIN c.specs \/ c.specs[name].supername \in acc.created
    THEN [acc EXCEPT !.sorted = Append(@, name), !.created = @ \cup {name}]
    ELSE [acc EXCEPT !.remaining = Append(@, name)]
Pass == INSTANCE FoldInduction WITH step <- PassStep, Holds <- StateIn
PassesStep(c, state, i) == OnePass(c.specs, state)
Passes == INSTANCE FoldInduction WITH step <- PassesStep, Holds <- StateIn

(* One file of one pass over the files of a module.                        *)
LEMMA PassStepOK ==
  ASSUME NEW c, NEW acc, StateIn(c, acc), NEW name \in c.S
  PROVE  StateIn(c, PassStep(c, acc, name))
  <1>1. /\ {"sorted", "created", "remaining"} \subseteq DOMAIN acc
        /\ acc.sorted \in Seq(c.S) /\ acc.remaining \in Seq(c.S)
    BY DEF StateIn, SortStateOK
  <1>2. PICK s : s = Append(acc.sorted, name)
    OBVIOUS
  <1>3. PICK r : r = Append(acc.remaining, name)
    OBVIOUS
  <1>4. s \in Seq(c.S) /\ r \in Seq(c.S)
    BY <1>1, <1>2, <1>3, AppendProperties
  <1>5. PICK k : k = acc.created \cup {name}
    OBVIOUS
  <1>6. \/ PassStep(c, acc, name) = Replacing(Replacing(acc, "sorted", s), "created", k)
        \/ PassStep(c, acc, name) = Replacing(acc, "remaining", r)
    BY <1>2, <1>3, <1>5, <1>1 DEF PassStep, Replacing
  <1>7. StateIn(c, Replacing(acc, "remaining", r))
    BY <1>1, <1>4 DEF StateIn, SortStateOK, Replacing
  <1>8. StateIn(c, Replacing(acc, "sorted", s))
    BY <1>1, <1>4 DEF StateIn, SortStateOK, Replacing
  <1>9. PICK t : t = Replacing(acc, "sorted", s)
    OBVIOUS
  <1>10. StateIn(c, Replacing(t, "created", k))
    BY <1>8, <1>9 DEF StateIn, SortStateOK, Replacing
  <1> QED
    BY <1>6, <1>7, <1>9, <1>10

(* One pass keeps the files.                                               *)
LEMMA OnePassOK ==
  ASSUME NEW c, NEW state, StateIn(c, state)
  PROVE  StateIn(c, OnePass(c.specs, state))
  <1>1. /\ {"sorted", "created", "remaining"} \subseteq DOMAIN state
        /\ state.sorted \in Seq(c.S) /\ state.remaining \in Seq(c.S)
    BY DEF StateIn, SortStateOK
  <1>2. PICK base : base = Replacing(state, "remaining", <<>>)
    OBVIOUS
  <1>3. StateIn(c, base)
    BY <1>1, <1>2 DEF StateIn, SortStateOK, Replacing
  <1>4. PICK files : files = state.remaining
    OBVIOUS
  <1>5. Len(files) \in Nat /\ \A i \in 1 .. Len(files) : files[i] \in c.S
    BY <1>1, <1>4, SeqIs DEF IsSeq
  <1>6. OnePass(c.specs, state) = Pass!Loop(c, base, files)
    <2>1. OnePass(c.specs, state) = Pass!Loop(c, [state EXCEPT !.remaining = <<>>], state.remaining)
      BY DEF OnePass, PassStep, Pass!Loop, Folded, Pass!Folded
    <2> QED
      BY <1>2, <1>4, <2>1 DEF Replacing
  <1>7. ASSUME NEW u, NEW i \in 1 .. Len(files), StateIn(c, u)
        PROVE  StateIn(c, PassStep(c, u, files[i]))
    BY <1>5, <1>7, PassStepOK
  <1>8. StateIn(c, Pass!Loop(c, base, files))
    BY <1>3, <1>5, <1>7, Pass!LoopMaintains
  <1> QED
    BY <1>6, <1>8

AfterPasses(specs, first, files) ==
    Folded(LAMBDA state, i : OnePass(specs, state),
           [sorted |-> <<>>, created |-> {first}, remaining |-> files], files)

(* sortClasses answers classes that the directory has.                     *)
LEMMA SortedOK ==
  ASSUME NEW names, NEW specs, NEW first, NEW files \in Seq(names)
  PROVE  Sorted(specs, first, files) \in Seq(names)
  <1>c. PICK c : c = [specs |-> specs, S |-> names]
    OBVIOUS
  <1>d. c.specs = specs /\ c.S = names
    BY <1>c
  <1>1. PICK base : base = [sorted |-> <<>>, created |-> {first}, remaining |-> files]
    OBVIOUS
  <1>2. StateIn(c, base) /\ Len(files) \in Nat
    BY <1>1, <1>d, SeqIs DEF StateIn, SortStateOK, IsSeq
  <1>3. ASSUME NEW u, NEW i \in 1 .. Len(files), StateIn(c, u)
        PROVE  StateIn(c, PassesStep(c, u, files[i]))
    BY <1>3, OnePassOK DEF PassesStep
  <1>4. StateIn(c, Passes!Loop(c, base, files))
    BY <1>2, <1>3, Passes!LoopMaintains
  <1>5. AfterPasses(specs, first, files) = Passes!Loop(c, base, files)
    BY <1>1, <1>d DEF AfterPasses, PassesStep, Passes!Loop, Folded, Passes!Folded
  <1>6. Sorted(specs, first, files)
          = AfterPasses(specs, first, files).sorted \o AfterPasses(specs, first, files).remaining
    BY DEF Sorted, AfterPasses
  <1> QED
    BY <1>4, <1>5, <1>6, <1>d, ConcatProperties DEF StateIn, SortStateOK

(* The extensions of a module, class after class.                          *)
ConcatStep(c, acc, n) == acc \o c.extensions[n]
MethodsIn(c, methods) == MethodsOK(methods, c.U)
Concat == INSTANCE FoldInduction WITH step <- ConcatStep, Holds <- MethodsIn

(* Two groups of methods together.                                         *)
LEMMA ConcatOK ==
  ASSUME NEW U, NEW s, NEW t, MethodsOK(s, U), MethodsOK(t, U)
  PROVE  MethodsOK(s \o t, U)
  <1>1. IsSeq(s) /\ IsSeq(t) /\ Len(s) \in Nat /\ Len(t) \in Nat
    BY DEF MethodsOK, IsSeq
  <1>2. /\ IsSeq(s \o t) /\ Len(s \o t) = Len(s) + Len(t)
        /\ \A i \in 1 .. Len(s) + Len(t) :
             (s \o t)[i] = IF i <= Len(s) THEN s[i] ELSE t[i - Len(s)]
    BY <1>1, ConcatIs
  <1>3. ASSUME NEW i \in 1 .. Len(s) + Len(t) PROVE MethodOK((s \o t)[i], U)
    <2>1. CASE i <= Len(s)
      BY <2>1, <1>1, <1>2 DEF MethodsOK
    <2>2. CASE ~(i <= Len(s))
      <3>1. i - Len(s) \in 1 .. Len(t) /\ (s \o t)[i] = t[i - Len(s)]
        BY <2>2, <1>1, <1>2
      <3> QED
        BY <3>1 DEF MethodsOK
    <2> QED
      BY <2>1, <2>2
  <1> QED
    BY <1>2, <1>3 DEF MethodsOK

(* The extensions of all classes together.                                 *)
LEMMA ConcatAllOK ==
  ASSUME NEW U, NEW extensions, NEW names \in Seq(DOMAIN extensions),
         \A n \in DOMAIN extensions : MethodsOK(extensions[n], U)
  PROVE  MethodsOK(Concatenated(extensions, names), U)
  <1>c. PICK c : c = [extensions |-> extensions, U |-> U]
    OBVIOUS
  <1>d. c.extensions = extensions /\ c.U = U
    BY <1>c
  <1>1. Concatenated(extensions, names) = Concat!Loop(c, <<>>, names)
    BY <1>d DEF Concatenated, ConcatStep, Concat!Loop, Folded, Concat!Folded
  <1>2. /\ MethodsIn(c, <<>>) /\ Len(names) \in Nat
        /\ \A i \in 1 .. Len(names) : names[i] \in DOMAIN extensions
    BY <1>d, Emptied, SeqIs DEF MethodsIn, MethodsOK, IsSeq
  <1>3. ASSUME NEW u, NEW i \in 1 .. Len(names), MethodsIn(c, u)
        PROVE  MethodsIn(c, ConcatStep(c, u, names[i]))
    BY <1>2, <1>3, <1>d, ConcatOK DEF MethodsIn, ConcatStep
  <1>4. MethodsIn(c, Concat!Loop(c, <<>>, names))
    BY <1>2, <1>3, Concat!LoopMaintains
  <1> QED
    BY <1>1, <1>4, <1>d DEF MethodsIn

-----------------------------------------------------------------------------
(* The inductive invariant.  The symbols there are; what the phases have   *)
(* done; what the loads under way may touch.                               *)
Universe == symbolTable \cup Range(symbols)
SpeciesIn(names) == {Class(n) : n \in names} \cup {Metaclass(Class(n)) : n \in names}

SpecsOK(specs) ==
    /\ DOMAIN specs # {}
    /\ \A n \in DOMAIN specs :
          specs[n].methods \in Seq(MethodSpec) /\ specs[n].metaMethods \in Seq(MethodSpec)

SpecInv ==
    /\ phase \in {"initial", "instantiate", "initialize", "namespace", "methods"} => SpecsOK(spec)
    /\ phase \in {"instantiate", "initialize", "methods"} => todo # {} /\ todo \subseteq DOMAIN spec

SymbolInv ==
    /\ \A n \in DOMAIN symbols : symbols[n].name = n
    /\ Unique(Universe)
    /\ phase \in {"methods", "runtime"} => DOMAIN symbols # {}
    /\ phase \in {"specs", "initial", "instantiate", "initialize", "namespace", "methods", "runtime"}
          => symbolTable = {}
    /\ phase = "fill" => todo # {} /\ Range(symbols) = symbolTable \cup todo
    /\ phase \in {"switch", "convert", "done"} => Range(symbols) \subseteq symbolTable

ObjectInv ==
    /\ \A sp \in DOMAIN objects : SlotsOK(objects[sp], Universe)
    /\ phase = "initialize" =>
          \A sp \in DOMAIN objects : sp.name \in todo \/ FullSlots(objects[sp], Universe)
    /\ phase \in {"namespace", "methods", "runtime", "fill", "switch", "convert", "done"}
          => AllFull(objects, Universe)

SpeciesInv ==
    /\ phase = "specs" => DOMAIN objects = {}
    /\ phase \notin {"done", "failed"} => DOMAIN objects \subseteq SpeciesIn(DOMAIN spec)
    /\ phase \in {"initialize", "namespace", "methods", "runtime", "fill", "switch"}
          => DOMAIN objects # {}
    /\ phase = "convert" => todo # {} /\ todo \subseteq DOMAIN objects

NewMdInv == newMd = Nil \/ PairsOK(newMd, Universe)

BootInv ==
    /\ installation \in Installations
    /\ SpecInv /\ SymbolInv /\ ObjectInv /\ SpeciesInv /\ NewMdInv

Unregistered == {"import", "classes", "register"}

LoadOK(l, files, present, registered) ==
    /\ {"path", "step", "module", "files", "imports"} \subseteq DOMAIN l
    /\ l.step \in Unregistered => l.path \in DOMAIN files.modules
    /\ l.step \in Unregistered \cup {"create", "justLoaded"}
    /\ l.step = "create" => l.module = Nil
    /\ l.step \in {"import", "classes"} => l.files \in Seq(DOMAIN files.modules[l.path].classes)
    /\ l.step = "import" => l.imports \in Seq(Import)
    /\ l.step \in Unregistered => l.module \in present \ registered
    /\ l.step = "justLoaded" => l.module \in present

Apart(k, l) == k.step \in Unregistered /\ l.step \in Unregistered => k.module # l.module

LoadsOK(ls, files, present, registered) ==
    /\ IsSeq(ls)
    /\ \A i \in 1 .. Len(ls) : LoadOK(ls[i], files, present, registered)
    /\ \A i, j \in 1 .. Len(ls) : i # j => Apart(ls[i], ls[j])

(* No load touches the kernel, or what the Loader has registered.          *)
Registered == Range(loadedModules) \cup {Kernel}

LoaderInv ==
    /\ phase # "done" => DOMAIN modules = {}
    /\ DOMAIN modules = {} => loads = <<>>
    /\ DOMAIN modules # {} => Kernel \in DOMAIN modules /\ <<"Kernel">> \in DOMAIN kernelModules
    /\ DOMAIN modules \subseteq Nat /\ IsFiniteSet(DOMAIN modules)
    /\ Range(loadedModules) \subseteq DOMAIN modules
    /\ ModulesOK(modules, Universe)
    /\ LoadsOK(loads, installation, DOMAIN modules, Registered)

Inv == BootInv /\ LoaderInv

SymbolsOf(m) == {m.selector} \cup {m.literals[i] : i \in DOMAIN m.literals}
UsedSymbols ==
    UNION {UNION {{objects[sp].md.pairs[i][1]} \cup SymbolsOf(objects[sp].md.pairs[i][2]) :
                     i \in DOMAIN objects[sp].md.pairs} :
             sp \in {x \in DOMAIN objects : objects[x].md # Nil}}

(* What has to be shown follows from the invariant.                        *)
LEMMA InvImpliesUnique ==
  ASSUME Inv PROVE SymbolsUnique
  <1>1. PICK U : U = Universe
    OBVIOUS
  <1>2. Unique(U) /\ \A sp \in DOMAIN objects : SlotsOK(objects[sp], U)
    BY <1>1 DEF Inv, BootInv, SymbolInv, ObjectInv
  <1>3. ASSUME NEW sp \in DOMAIN objects, objects[sp].md # Nil, NEW i \in DOMAIN objects[sp].md.pairs
        PROVE  /\ objects[sp].md.pairs[i][1] \in U
               /\ MethodOK(objects[sp].md.pairs[i][2], U)
    <2>1. PairsOK(objects[sp].md.pairs, U)
      BY <1>2, <1>3 DEF SlotsOK, DictOK
    <2>2. i \in 1 .. Len(objects[sp].md.pairs)
      BY <2>1 DEF PairsOK, IsSeq
    <2> QED
      BY <2>1, <2>2 DEF PairsOK
  <1>4. PICK used : used = UsedSymbols
    OBVIOUS
  <1>5. used \subseteq U
    BY <1>3, <1>4 DEF UsedSymbols, SymbolsOf, MethodOK
  <1>6. used \cup symbolTable \cup Range(symbols) \subseteq U
    BY <1>5, <1>1 DEF Universe
  <1>7. \A s, t \in used \cup symbolTable \cup Range(symbols) : s.name = t.name => s = t
    BY <1>6, <1>2 DEF Unique
  <1> QED
    BY <1>4, <1>7 DEF SymbolsUnique, UsedSymbols, SymbolsOf

-----------------------------------------------------------------------------
(* A species is a class of the kernel or the metaclass of one.             *)
LEMMA SpeciesOf ==
  ASSUME NEW names, NEW sp \in SpeciesIn(names)
  PROVE  /\ sp.name \in names
         /\ sp = Class(sp.name) \/ sp = Metaclass(Class(sp.name))
         /\ sp.side = "class" \/ (sp.side = "metaclass" /\ ClassOf(sp).side = "class")
  <1>1. PICK n \in names : sp = Class(n) \/ sp = Metaclass(Class(n))
    BY DEF SpeciesIn
  <1>2. CASE sp = Class(n)
    BY <1>2 DEF Class
  <1>3. CASE sp = Metaclass(Class(n))
    <2>1. sp = [side |-> "metaclass", module |-> 0, name |-> n]
      BY <1>3 DEF Class, Metaclass
    <2>2. sp.name = n /\ sp.side = "metaclass"
      BY <2>1
    <2>3. ClassOf(sp) = [side |-> "class", module |-> 0, name |-> n]
      BY <2>1 DEF ClassOf
    <2>4. ClassOf(sp).side = "class"
      BY <2>3
    <2> QED
      BY <1>3, <2>2, <2>4
  <1> QED
    BY <1>1, <1>2, <1>3

(* As long as the kernel is built, nothing is loaded.                      *)
LEMMA LoaderIdle ==
  ASSUME LoaderInv, phase # "done", UNCHANGED loaderVars
  PROVE  LoaderInv'
  <1>1. /\ DOMAIN modules' = {} /\ DOMAIN loadedModules' = {} /\ loads' = <<>>
    <2>1. DOMAIN modules = {} /\ Range(loadedModules) \subseteq DOMAIN modules /\ loads = <<>>
      BY DEF LoaderInv
    <2>2. DOMAIN loadedModules = {}
      BY <2>1 DEF Range
    <2> QED
      BY <2>1, <2>2 DEF loaderVars
  <1>2. Range(loadedModules)' = {}
    BY <1>1 DEF Range
  <1>3. IsFiniteSet(DOMAIN modules')
    BY <1>1, FS_EmptySet
  <1>4. ModulesOK(modules, Universe)'
    BY <1>1 DEF ModulesOK
  <1>5. LoadsOK(loads, installation, DOMAIN modules, Registered)'
    BY <1>1, Emptied DEF LoadsOK
  <1> QED
    BY <1>1, <1>2, <1>3, <1>4, <1>5 DEF LoaderInv

(* One element of todo less, or the next phase.                            *)
LEMMA ContinueOn ==
  ASSUME NEW next, NEW then, todo # {}, Continue(next, then)
  PROVE  /\ First \in todo
         /\ \/ todo = {First} /\ todo' = then /\ phase' = next
            \/ /\ todo' = todo \ {First} /\ phase' = phase
               /\ todo' # {} /\ todo' \subseteq todo
  <1>1. First \in todo
    BY DEF First
  <1> QED
    BY <1>1 DEF Continue

(* What is true of the objects stays true when there are more symbols.     *)
LEMMA MoreSymbols ==
  ASSUME BootInv, Universe \subseteq Universe', objects' = objects, newMd' = newMd
  PROVE  /\ \A sp \in DOMAIN objects' : SlotsOK(objects'[sp], Universe')
         /\ \A sp \in DOMAIN objects :
               FullSlots(objects[sp], Universe) => FullSlots(objects'[sp], Universe')
         /\ AllFull(objects, Universe) => AllFull(objects', Universe')
         /\ NewMdInv'
  <1>1. \A sp \in DOMAIN objects : SlotsOK(objects[sp], Universe)
    BY DEF BootInv, ObjectInv
  <1>2. \A sp \in DOMAIN objects : SlotsOK(objects[sp], Universe')
    BY <1>1, MoreSlots
  <1>3. \A sp \in DOMAIN objects :
           FullSlots(objects[sp], Universe) => FullSlots(objects[sp], Universe')
    BY MoreSlots
  <1>4. NewMdInv'
    BY MorePairs DEF BootInv, NewMdInv
  <1> QED
    BY <1>2, <1>3, <1>4 DEF AllFull

(* The specs of the kernel with the extensions of the VM are specs of      *)
(* classes.                                                                *)
LEMMA ExtendedSpecs ==
  ASSUME NEW files \in Installations
  PROVE  SpecsOK(WithExtensions(files.kernel, files.vm))
  <1>1. /\ "Class" \in DOMAIN files.kernel
        /\ \A n \in DOMAIN files.kernel : files.kernel[n] \in ClassSpec
        /\ \A n \in DOMAIN files.vm : files.vm[n] \in ExtensionSpec
    BY InstallationsAssumption DEF InstallationOK
  <1>2. PICK specs : specs = WithExtensions(files.kernel, files.vm)
    OBVIOUS
  <1>3. DOMAIN specs = DOMAIN files.kernel
    BY <1>2 DEF WithExtensions
  <1>4. ASSUME NEW n \in DOMAIN specs
        PROVE  specs[n].methods \in Seq(MethodSpec) /\ specs[n].metaMethods \in Seq(MethodSpec)
    <2>1. files.kernel[n].methods \in Seq(MethodSpec) /\ files.kernel[n].metaMethods \in Seq(MethodSpec)
      BY <1>1, <1>3 DEF ClassSpec
    <2>2. CASE n \notin DOMAIN files.vm
      <3>1. specs[n] = files.kernel[n]
        BY <1>2, <1>3, <2>2 DEF WithExtensions
      <3> QED
        BY <2>1, <3>1
    <2>3. CASE n \in DOMAIN files.vm
      <3>1. files.vm[n].methods \in Seq(MethodSpec) /\ files.vm[n].metaMethods \in Seq(MethodSpec)
        BY <1>1, <2>3 DEF ExtensionSpec
      <3>2. PICK methods : methods = files.kernel[n].methods \o files.vm[n].methods
        OBVIOUS
      <3>3. PICK metaMethods : metaMethods = files.kernel[n].metaMethods \o files.vm[n].metaMethods
        OBVIOUS
      <3>4. specs[n] = [files.kernel[n] EXCEPT !.methods = methods, !.metaMethods = metaMethods]
        BY <1>2, <1>3, <2>3, <3>2, <3>3 DEF WithExtensions
      <3>5. specs[n].methods = methods /\ specs[n].metaMethods = metaMethods
        BY <1>1, <1>3, <3>4 DEF ClassSpec
      <3> QED
        BY <2>1, <3>1, <3>2, <3>3, <3>5, ConcatProperties
    <2> QED
      BY <2>2, <2>3
  <1> QED
    BY <1>1, <1>2, <1>3, <1>4 DEF SpecsOK

(* One lemma for each phase of the Bootstrapper, first loadKernelSpecs.    *)
LEMMA LoadKernelSpecsKeeps ==
  ASSUME BootInv, loadKernelSpecs
  PROVE  BootInv'
  <1> USE DEF loadKernelSpecs
  <1>1. installation \in Installations /\ DOMAIN objects = {} /\ symbolTable = {}
    BY DEF BootInv, SpeciesInv, SymbolInv
  <1>2. SpecInv'
    BY <1>1, ExtendedSpecs DEF SpecInv
  <1>3. Universe' = Universe
    BY DEF Universe
  <1>4. SymbolInv'
    BY <1>1, <1>3 DEF BootInv, SymbolInv
  <1>5. ObjectInv' /\ SpeciesInv'
    BY <1>1 DEF ObjectInv, SpeciesInv, AllFull
  <1>6. NewMdInv'
    BY <1>3 DEF BootInv, NewMdInv
  <1> QED
    BY <1>1, <1>2, <1>4, <1>5, <1>6 DEF BootInv

(* createInitialObjects.                                                   *)
LEMMA CreateInitialObjectsKeeps ==
  ASSUME BootInv, createInitialObjects
  PROVE  BootInv'
  <1> USE DEF createInitialObjects
  <1>1. installation \in Installations /\ SpecsOK(spec)
    BY DEF BootInv, SpecInv
  <1>2. SpecInv'
    BY <1>1 DEF SpecInv, SpecsOK
  <1>3. Universe' = Universe
    BY DEF Universe
  <1>4. SymbolInv'
    BY <1>1, <1>3 DEF BootInv, SymbolInv
  <1>5. ObjectInv' /\ SpeciesInv'
    BY <1>1, <1>3 DEF BootInv, ObjectInv, SpeciesInv
  <1>6. NewMdInv'
    BY <1>3 DEF BootInv, NewMdInv
  <1> QED
    BY <1>1, <1>2, <1>4, <1>5, <1>6 DEF BootInv

(* instantiateMetaclasses: every behavior gets its slots.                  *)
LEMMA InstantiateKeeps ==
  ASSUME BootInv, instantiateMetaobjectsOf
  PROVE  BootInv'
  <1>1. /\ phase = "instantiate" /\ Continue("initialize", DOMAIN spec)
        /\ UNCHANGED <<installation, spec, namespace, symbols, symbolTable, provider, newMd>>
    BY DEF instantiateMetaobjectsOf
  <1>2. /\ installation \in Installations /\ SpecsOK(spec) /\ todo # {} /\ todo \subseteq DOMAIN spec
        /\ DOMAIN objects \subseteq SpeciesIn(DOMAIN spec)
    BY <1>1 DEF BootInv, SpecInv, SpeciesInv
  <1>3. /\ First \in todo
        /\ \/ todo = {First} /\ todo' = DOMAIN spec /\ phase' = "initialize"
           \/ todo' = todo \ {First} /\ phase' = phase /\ todo' # {} /\ todo' \subseteq todo
    BY <1>1, <1>2, ContinueOn
  <1>4. SpecInv'
    BY <1>1, <1>2, <1>3 DEF SpecInv, SpecsOK
  <1>5. Universe' = Universe
    BY <1>1 DEF Universe
  <1>6. SymbolInv'
    BY <1>1, <1>3, <1>5 DEF BootInv, SymbolInv
  <1>7. PICK made : made = [sp \in {Class(First), Metaclass(Class(First))} |-> Empty]
    OBVIOUS
  <1>8. DOMAIN made = {Class(First), Metaclass(Class(First))} /\ \A sp \in DOMAIN made : made[sp] = Empty
    BY <1>7
  <1>9. objects' = Over(objects, made)
    BY <1>7 DEF instantiateMetaobjectsOf
  <1>10. /\ DOMAIN objects' = DOMAIN objects \cup DOMAIN made
         /\ \A sp \in DOMAIN objects' : objects'[sp] = IF sp \in DOMAIN objects THEN objects[sp] ELSE made[sp]
    <2>1. PICK f : f = objects
      OBVIOUS
    <2>2. PICK h : h = objects'
      OBVIOUS
    <2>3. h = Over(f, made)
      BY <1>9, <2>1, <2>2
    <2>4. /\ DOMAIN h = DOMAIN f \cup DOMAIN made
          /\ \A sp \in DOMAIN h : h[sp] = IF sp \in DOMAIN f THEN f[sp] ELSE made[sp]
      BY <2>3 DEF Over
    <2> QED
      BY <2>1, <2>2, <2>4
  <1>11. DOMAIN made \subseteq SpeciesIn(DOMAIN spec)
    BY <1>2, <1>3, <1>8 DEF SpeciesIn
  <1>12. SlotsOK(Empty, Universe')
    BY DEF Empty, SlotsOK
  <1>13. \A sp \in DOMAIN objects' : SlotsOK(objects'[sp], Universe')
    BY <1>5, <1>8, <1>10, <1>12 DEF BootInv, ObjectInv
  <1>14. DOMAIN objects' \subseteq SpeciesIn(DOMAIN spec') /\ DOMAIN objects' # {}
    BY <1>1, <1>2, <1>8, <1>10, <1>11
  <1>15. \A sp \in DOMAIN objects' : sp.name \in DOMAIN spec
    BY <1>1, <1>14, SpeciesOf
  <1>16. ObjectInv'
    BY <1>1, <1>3, <1>13, <1>15 DEF ObjectInv
  <1>17. SpeciesInv'
    BY <1>1, <1>3, <1>14 DEF SpeciesInv
  <1>18. NewMdInv'
    BY <1>1, <1>5 DEF BootInv, NewMdInv
  <1> QED
    BY <1>1, <1>2, <1>4, <1>6, <1>16, <1>17, <1>18 DEF BootInv

(* Symbols are added one by one by name before there is a symbol table.    *)
LEMMA MoreInterned ==
  ASSUME BootInv, symbolTable = {}, symbolTable' = symbolTable,
         NEW names, symbols' = Interned(symbols, names)
  PROVE  /\ Universe \subseteq Universe' /\ Unique(Universe')
         /\ \A n \in DOMAIN symbols' : symbols'[n].name = n /\ symbols'[n] \in Universe'
         /\ DOMAIN symbols' = DOMAIN symbols \cup names
  <1>1. PICK known : known = symbols
    OBVIOUS
  <1>2. PICK all : all = symbols'
    OBVIOUS
  <1>3. \A n \in DOMAIN known : known[n].name = n
    BY <1>1 DEF BootInv, SymbolInv
  <1>4. all = Interned(known, names)
    BY <1>1, <1>2
  <1>5. /\ DOMAIN all = DOMAIN known \cup names
        /\ \A n \in DOMAIN all : all[n].name = n /\ all[n] \in Range(all)
        /\ Range(known) \subseteq Range(all)
        /\ Unique(Range(all))
    <2>1. Extended(known, names, Interned(known, names))
      BY <1>3, InternedOK DEF Named
    <2> QED
      BY <1>4, <2>1 DEF Extended
  <1>6. Universe = Range(known) /\ Universe' = Range(all)
    BY <1>1, <1>2 DEF Universe
  <1> QED
    BY <1>1, <1>2, <1>5, <1>6

(* The slots of a class and of its metaclass, as they are initialized.     *)
KnownByInitialize ==
    Interned(symbols, {First} \cup Range(spec[First].instVarNames)
                              \cup Range(spec[First].classInstVarNames))
SlotsOfClass ==
    [isa |-> Metaclass(Class(First)),
     superclass |-> Links(First).class, next |-> Links(First).class,
     format |-> instSizeOf(First) % 128, name |-> KnownByInitialize[First], md |-> newMethodArray]
SlotsOfMetaclass ==
    [isa |-> Class("Metaclass"),
     superclass |-> Links(First).metaclass, next |-> Links(First).metaclass,
     format |-> (instSizeOf("Class") + Len(spec[First].classInstVarNames)) % 128,
     name |-> Nil, md |-> newMethodArray]

(* initializeClass: name, superclass, format and an empty dictionary.      *)
LEMMA InitializeKeeps ==
  ASSUME BootInv, initializeMetaobjectsOf
  PROVE  BootInv'
  <1>1. /\ phase = "initialize" /\ Continue("namespace", {})
        /\ UNCHANGED <<installation, spec, namespace, symbolTable, provider, newMd>>
    BY DEF initializeMetaobjectsOf
  <1>2. /\ installation \in Installations /\ SpecsOK(spec) /\ todo # {} /\ todo \subseteq DOMAIN spec
        /\ DOMAIN objects \subseteq SpeciesIn(DOMAIN spec) /\ DOMAIN objects # {} /\ symbolTable = {}
    BY <1>1 DEF BootInv, SpecInv, SpeciesInv, SymbolInv
  <1>3. /\ First \in todo
        /\ \/ todo = {First} /\ todo' = {} /\ phase' = "namespace"
           \/ todo' = todo \ {First} /\ phase' = phase /\ todo' # {} /\ todo' \subseteq todo
    BY <1>1, <1>2, ContinueOn
  <1>4. SpecInv'
    BY <1>1, <1>2, <1>3 DEF SpecInv, SpecsOK
  <1>5. PICK names : symbols' = Interned(symbols, names)
    BY DEF initializeMetaobjectsOf
  <1>6. /\ Universe \subseteq Universe' /\ Unique(Universe')
        /\ \A n \in DOMAIN symbols' : symbols'[n].name = n
    BY <1>1, <1>2, <1>5, MoreInterned
  <1>7. SymbolInv'
    BY <1>1, <1>2, <1>3, <1>6 DEF SymbolInv
  <1>8. PICK class, metaclass : class = Class(First) /\ metaclass = Metaclass(class)
    OBVIOUS
  <1>9. PICK slots, metaslots : /\ objects' = [objects EXCEPT ![class] = slots, ![metaclass] = metaslots]
                                /\ "md" \in DOMAIN slots /\ slots.md = newMethodArray
                                /\ "md" \in DOMAIN metaslots /\ metaslots.md = newMethodArray
    <2>1. PICK slots : slots = SlotsOfClass
      OBVIOUS
    <2>2. PICK metaslots : metaslots = SlotsOfMetaclass
      OBVIOUS
    <2>3. objects' = [objects EXCEPT ![class] = slots, ![metaclass] = metaslots]
      BY <1>8, <2>1, <2>2 DEF initializeMetaobjectsOf, SlotsOfClass, SlotsOfMetaclass, KnownByInitialize
    <2>4. "md" \in DOMAIN slots /\ slots.md = newMethodArray
      BY <2>1 DEF SlotsOfClass
    <2>5. "md" \in DOMAIN metaslots /\ metaslots.md = newMethodArray
      BY <2>2 DEF SlotsOfMetaclass
    <2> QED
      BY <2>3, <2>4, <2>5
  <1>10. DictOK(newMethodArray, Universe')
    <2>1. newMethodArray.pairs = <<>> /\ "pairs" \in DOMAIN newMethodArray
      BY DEF newMethodArray
    <2>2. PairsOK(newMethodArray.pairs, Universe')
      BY <2>1, Emptied DEF PairsOK
    <2> QED
      BY <2>1, <2>2 DEF DictOK
  <1>11. FullSlots(slots, Universe') /\ FullSlots(metaslots, Universe')
    BY <1>9, <1>10 DEF FullSlots
  <1>12. /\ DOMAIN objects' = DOMAIN objects
         /\ \A sp \in DOMAIN objects :
              objects'[sp] = IF sp = metaclass THEN metaslots
                             ELSE IF sp = class THEN slots ELSE objects[sp]
    BY <1>9
  <1>13. \A sp \in DOMAIN objects : sp.name = First => sp = class \/ sp = metaclass
    <2> SUFFICES ASSUME NEW sp \in DOMAIN objects, sp.name = First
                 PROVE  sp = class \/ sp = metaclass
      OBVIOUS
    <2>1. sp \in SpeciesIn(DOMAIN spec)
      BY <1>2
    <2>2. sp = Class(sp.name) \/ sp = Metaclass(Class(sp.name))
      BY <2>1, SpeciesOf
    <2> QED
      BY <1>8, <2>2
  <1>14. \A sp \in DOMAIN objects : SlotsOK(objects[sp], Universe')
    BY <1>6, MoreSlots DEF BootInv, ObjectInv
  <1>15. \A sp \in DOMAIN objects : FullSlots(objects[sp], Universe) => FullSlots(objects[sp], Universe')
    BY <1>6, MoreSlots
  <1>16. \A sp \in DOMAIN objects' : SlotsOK(objects'[sp], Universe')
    <2>1. SlotsOK(slots, Universe') /\ SlotsOK(metaslots, Universe')
      BY <1>11 DEF SlotsOK, FullSlots
    <2> QED
      BY <1>12, <1>14, <2>1
  <1>17. \A sp \in DOMAIN objects' : sp.name \in todo \ {First} \/ FullSlots(objects'[sp], Universe')
    <2> SUFFICES ASSUME NEW sp \in DOMAIN objects, sp.name \notin todo \ {First}
                 PROVE  FullSlots(objects'[sp], Universe')
      BY <1>12
    <2>1. CASE sp = class \/ sp = metaclass
      BY <2>1, <1>11, <1>12
    <2>2. CASE ~(sp = class \/ sp = metaclass)
      <3>1. sp.name \notin todo
        BY <2>2, <1>13
      <3>2. FullSlots(objects[sp], Universe)
        BY <1>1, <3>1 DEF BootInv, ObjectInv
      <3> QED
        BY <2>2, <3>2, <1>12, <1>15
    <2> QED
      BY <2>1, <2>2
  <1>18. ObjectInv'
    BY <1>1, <1>3, <1>16, <1>17 DEF ObjectInv, AllFull
  <1>19. SpeciesInv'
    BY <1>1, <1>2, <1>3, <1>12 DEF SpeciesInv
  <1>20. NewMdInv'
    BY <1>1, <1>6, MorePairs DEF BootInv, NewMdInv
  <1> QED
    BY <1>1, <1>2, <1>4, <1>7, <1>18, <1>19, <1>20 DEF BootInv

(* createKernelNamespace.                                                  *)
LEMMA CreateKernelNamespaceKeeps ==
  ASSUME BootInv, createKernelNamespace
  PROVE  BootInv'
  <1>1. /\ phase = "namespace" /\ phase' = "methods" /\ todo' = DOMAIN spec
        /\ UNCHANGED <<installation, spec, objects, symbolTable, provider, newMd>>
    BY DEF createKernelNamespace
  <1>0. PICK names : names = DOMAIN spec \cup {"WordSize", "Kernel"}
    OBVIOUS
  <1>2. symbols' = Interned(symbols, names)
    BY <1>0 DEF createKernelNamespace
  <1>3. /\ installation \in Installations /\ SpecsOK(spec) /\ symbolTable = {}
        /\ DOMAIN objects \subseteq SpeciesIn(DOMAIN spec) /\ DOMAIN objects # {}
        /\ AllFull(objects, Universe)
    BY <1>1 DEF BootInv, SpecInv, SpeciesInv, SymbolInv, ObjectInv
  <1>4. SpecInv'
    BY <1>1, <1>3 DEF SpecInv, SpecsOK
  <1>5. /\ Universe \subseteq Universe' /\ Unique(Universe')
        /\ \A n \in DOMAIN symbols' : symbols'[n].name = n
        /\ DOMAIN symbols' = DOMAIN symbols \cup names
    BY <1>1, <1>2, <1>3, MoreInterned
  <1>6. SymbolInv'
    BY <1>0, <1>1, <1>3, <1>5 DEF SymbolInv
  <1>7. /\ \A sp \in DOMAIN objects' : SlotsOK(objects'[sp], Universe')
        /\ AllFull(objects', Universe') /\ NewMdInv'
    BY <1>1, <1>3, <1>5, MoreSymbols
  <1>8. ObjectInv' /\ SpeciesInv'
    BY <1>1, <1>3, <1>7 DEF ObjectInv, SpeciesInv
  <1> QED
    BY <1>1, <1>3, <1>4, <1>6, <1>7, <1>8 DEF BootInv

(* The methods of a class and of its metaclass are installed in both.      *)
InstallIn(objs, sp, known, methods) ==
    Replacing(objs, sp, WithPairs(objs[sp], InstallAll(known, objs[sp].md.pairs, sp, methods)))

(* The methods of one behavior are installed.                              *)
LEMMA InstallInOK ==
  ASSUME NEW U, NEW objs, AllFull(objs, U), NEW sp, NEW known, NEW methods \in Seq(MethodSpec),
         \A i \in 1 .. Len(methods) :
            methods[i].compiles => NamesOfMethod(methods[i]) \subseteq DOMAIN known,
         \A n \in DOMAIN known : known[n] \in U
  PROVE  AllFull(InstallIn(objs, sp, known, methods), U)
  <1>1. PICK pairs : pairs = InstallAll(known, objs[sp].md.pairs, sp, methods)
    OBVIOUS
  <1>2. ASSUME sp \in DOMAIN objs PROVE FullSlots(WithPairs(objs[sp], pairs), U)
    <2>1. FullSlots(objs[sp], U)
      BY <1>2 DEF AllFull
    <2>2. PairsOK(objs[sp].md.pairs, U)
      BY <2>1 DEF FullSlots, DictOK
    <2>3. PICK before : before = objs[sp].md.pairs
      OBVIOUS
    <2>4. PairsOK(InstallAll(known, before, sp, methods), U)
      BY <2>2, <2>3, InstallAllOK
    <2> QED
      BY <1>1, <2>1, <2>3, <2>4, FullWithPairs
  <1> QED
    BY <1>1, <1>2, ReplacingOne DEF AllFull, InstallIn

CompiledOf(s) == {m \in Range(s.methods) \cup Range(s.metaMethods) : m.compiles}

(* The names in the methods that compile are interned before they are      *)
(* compiled.                                                               *)
LEMMA CompiledKnown ==
  ASSUME NEW s, s.methods \in Seq(MethodSpec), s.metaMethods \in Seq(MethodSpec),
         NEW D, UNION {NamesOfMethod(m) : m \in CompiledOf(s)} \subseteq D
  PROVE  /\ \A i \in 1 .. Len(s.methods) :
               s.methods[i].compiles => NamesOfMethod(s.methods[i]) \subseteq D
         /\ \A i \in 1 .. Len(s.metaMethods) :
               s.metaMethods[i].compiles => NamesOfMethod(s.metaMethods[i]) \subseteq D
  <1>1. /\ DOMAIN s.methods = 1 .. Len(s.methods)
        /\ DOMAIN s.metaMethods = 1 .. Len(s.metaMethods)
    BY LenProperties
  <1>2. ASSUME NEW i \in 1 .. Len(s.methods), s.methods[i].compiles
        PROVE  s.methods[i] \in CompiledOf(s)
    BY <1>1, <1>2 DEF CompiledOf, Range
  <1>3. ASSUME NEW i \in 1 .. Len(s.metaMethods), s.metaMethods[i].compiles
        PROVE  s.metaMethods[i] \in CompiledOf(s)
    BY <1>1, <1>3 DEF CompiledOf, Range
  <1>4. \A m \in CompiledOf(s) : NamesOfMethod(m) \subseteq D
    OBVIOUS
  <1> QED
    BY <1>2, <1>3, <1>4

(* loadKernelMethods: one class and its metaclass, with the symbols of     *)
(* their methods.                                                          *)
LEMMA LoadKernelMethodsKeeps ==
  ASSUME BootInv, loadKernelMethods
  PROVE  BootInv'
  <1>1. /\ phase = "methods" /\ Continue("runtime", {})
        /\ UNCHANGED <<installation, spec, namespace, symbolTable, provider, newMd>>
    BY DEF loadKernelMethods
  <1>2. /\ installation \in Installations /\ SpecsOK(spec) /\ todo # {} /\ todo \subseteq DOMAIN spec
        /\ DOMAIN objects \subseteq SpeciesIn(DOMAIN spec) /\ DOMAIN objects # {}
        /\ DOMAIN symbols # {} /\ symbolTable = {} /\ AllFull(objects, Universe)
    BY <1>1 DEF BootInv, SpecInv, SpeciesInv, SymbolInv, ObjectInv
  <1>3. /\ First \in todo
        /\ \/ todo = {First} /\ todo' = {} /\ phase' = "runtime"
           \/ todo' = todo \ {First} /\ phase' = phase /\ todo' # {} /\ todo' \subseteq todo
    BY <1>1, <1>2, ContinueOn
  <1>4. SpecInv'
    BY <1>1, <1>2, <1>3 DEF SpecInv, SpecsOK
  <1>5. PICK s : s = spec[First]
    OBVIOUS
  <1>6. PICK names : names = UNION {NamesOfMethod(m) : m \in CompiledOf(s)}
    OBVIOUS
  <1>7. PICK class, metaclass : class = Class(First) /\ metaclass = Metaclass(class)
    OBVIOUS
  <1>8. PICK known : known = symbols'
    OBVIOUS
  <1>9. symbols' = Interned(symbols, names)
    BY <1>5, <1>6 DEF loadKernelMethods, CompiledOf
  <1>10. /\ Universe \subseteq Universe' /\ Unique(Universe')
         /\ \A n \in DOMAIN symbols' : symbols'[n].name = n /\ symbols'[n] \in Universe'
         /\ DOMAIN symbols' = DOMAIN symbols \cup names
    BY <1>1, <1>2, <1>9, MoreInterned
  <1>11. SymbolInv'
    BY <1>1, <1>2, <1>3, <1>10 DEF SymbolInv
  <1>12. s.methods \in Seq(MethodSpec) /\ s.metaMethods \in Seq(MethodSpec)
    BY <1>2, <1>3, <1>5 DEF SpecsOK
  <1>13. PICK D : D = DOMAIN known
    OBVIOUS
  <1>14. UNION {NamesOfMethod(m) : m \in CompiledOf(s)} \subseteq D
    BY <1>6, <1>8, <1>10, <1>13
  <1>15. /\ \A i \in 1 .. Len(s.methods) :
               s.methods[i].compiles => NamesOfMethod(s.methods[i]) \subseteq D
         /\ \A i \in 1 .. Len(s.metaMethods) :
               s.metaMethods[i].compiles => NamesOfMethod(s.metaMethods[i]) \subseteq D
    BY <1>12, <1>14, CompiledKnown
  <1>16. PICK V : V = Universe'
    OBVIOUS
  <1>17. \A n \in DOMAIN known : known[n] \in V
    BY <1>8, <1>10, <1>16
  <1>18. PICK objs : objs = objects
    OBVIOUS
  <1>19. AllFull(objs, V)
    BY <1>2, <1>10, <1>16, <1>18, MoreSlots DEF AllFull
  <1>20. PICK methods, metaMethods : methods = s.methods /\ metaMethods = s.metaMethods
    OBVIOUS
  <1>21. PICK half : half = InstallIn(objs, class, known, methods)
    OBVIOUS
  <1>22. PICK full : full = InstallIn(half, metaclass, known, metaMethods)
    OBVIOUS
  <1>23. AllFull(half, V)
    BY <1>12, <1>13, <1>15, <1>17, <1>19, <1>20, <1>21, InstallInOK
  <1>24. AllFull(full, V)
    BY <1>12, <1>13, <1>15, <1>17, <1>20, <1>22, <1>23, InstallInOK
  <1>25. class # metaclass
    <2>1. class.side = "class" /\ metaclass.side = "metaclass"
      BY <1>7 DEF Class, Metaclass
    <2> QED
      BY <2>1
  <1>26. objects' = [objs EXCEPT ![class].md.pairs = InstallAll(known, @, class, methods),
                                 ![metaclass].md.pairs = InstallAll(known, @, metaclass, metaMethods)]
    BY <1>5, <1>7, <1>8, <1>18, <1>20 DEF loadKernelMethods
  <1>27. objects' = full
    BY <1>21, <1>22, <1>25, <1>26 DEF InstallIn, Replacing, WithPairs
  <1>28. DOMAIN objects' = DOMAIN objects
    BY <1>18, <1>26
  <1>29. AllFull(objects', Universe') /\ \A sp \in DOMAIN objects' : SlotsOK(objects'[sp], Universe')
    BY <1>16, <1>24, <1>27 DEF AllFull, FullSlots, SlotsOK
  <1>30. ObjectInv' /\ SpeciesInv'
    BY <1>1, <1>2, <1>3, <1>28, <1>29 DEF ObjectInv, SpeciesInv
  <1>31. NewMdInv'
    BY <1>1, <1>10, MorePairs DEF BootInv, NewMdInv
  <1> QED
    BY <1>1, <1>2, <1>4, <1>11, <1>30, <1>31 DEF BootInv

(* createRuntime: the table of symbols holds what the Bootstrapper has     *)
(* interned.                                                               *)
LEMMA CreateRuntimeKeeps ==
  ASSUME BootInv, createRuntimeWithBootstrappedKernel
  PROVE  BootInv'
  <1>1. /\ phase = "runtime"
        /\ \/ phase' = "fill" /\ todo' = Range(symbols)
           \/ phase' = "failed" /\ todo' = todo
        /\ UNCHANGED <<installation, spec, objects, namespace, symbols, symbolTable, provider, newMd>>
    BY DEF createRuntimeWithBootstrappedKernel
  <1>2. /\ installation \in Installations /\ symbolTable = {} /\ DOMAIN symbols # {}
        /\ DOMAIN objects \subseteq SpeciesIn(DOMAIN spec) /\ DOMAIN objects # {}
        /\ AllFull(objects, Universe)
    BY <1>1 DEF BootInv, SpecInv, SpeciesInv, SymbolInv, ObjectInv
  <1>3. Range(symbols) # {}
    BY <1>2 DEF Range
  <1>4. Universe' = Universe /\ Range(symbols)' = Range(symbols)
    BY <1>1 DEF Universe, Range
  <1>5. SymbolInv'
    BY <1>1, <1>2, <1>3, <1>4 DEF BootInv, SymbolInv
  <1>6. SpecInv'
    BY <1>1 DEF SpecInv
  <1>7. ObjectInv' /\ SpeciesInv'
    BY <1>1, <1>2, <1>4 DEF BootInv, ObjectInv, SpeciesInv
  <1>8. NewMdInv'
    BY <1>1, <1>4 DEF BootInv, NewMdInv
  <1> QED
    BY <1>1, <1>2, <1>5, <1>6, <1>7, <1>8 DEF BootInv

(* The table gets one symbol after the other, and no others.               *)
LEMMA FillSymbolTableKeeps ==
  ASSUME BootInv, fillSymbolTable
  PROVE  BootInv'
  <1>1. /\ phase = "fill" /\ symbolTable' = symbolTable \cup {First} /\ Continue("switch", {})
        /\ UNCHANGED <<installation, spec, objects, namespace, symbols, provider, newMd>>
    BY DEF fillSymbolTable
  <1>2. /\ installation \in Installations /\ todo # {} /\ Range(symbols) = symbolTable \cup todo
        /\ DOMAIN objects \subseteq SpeciesIn(DOMAIN spec) /\ DOMAIN objects # {}
        /\ AllFull(objects, Universe)
    BY <1>1 DEF BootInv, SpecInv, SpeciesInv, SymbolInv, ObjectInv
  <1>3. /\ First \in todo
        /\ \/ todo = {First} /\ todo' = {} /\ phase' = "switch"
           \/ todo' = todo \ {First} /\ phase' = phase /\ todo' # {} /\ todo' \subseteq todo
    BY <1>1, <1>2, ContinueOn
  <1>4. Range(symbols)' = Range(symbols)
    BY <1>1 DEF Range
  <1>5. Universe' = Universe
    BY <1>1, <1>2, <1>3, <1>4 DEF Universe
  <1>6. SymbolInv'
    BY <1>1, <1>2, <1>3, <1>4, <1>5 DEF BootInv, SymbolInv
  <1>7. SpecInv'
    BY <1>1, <1>3 DEF SpecInv
  <1>8. ObjectInv' /\ SpeciesInv'
    BY <1>1, <1>2, <1>3, <1>5 DEF BootInv, ObjectInv, SpeciesInv
  <1>9. NewMdInv'
    BY <1>1, <1>5 DEF BootInv, NewMdInv
  <1> QED
    BY <1>1, <1>2, <1>6, <1>7, <1>8, <1>9 DEF BootInv

(* switchToDynamicMethodDictionaries.                                      *)
LEMMA SwitchKeeps ==
  ASSUME BootInv, switchToDynamicSymbolProvider
  PROVE  BootInv'
  <1>1. /\ phase = "switch" /\ phase' = "convert" /\ todo' = DOMAIN objects
        /\ UNCHANGED <<installation, spec, objects, namespace, symbols, symbolTable, newMd>>
    BY DEF switchToDynamicSymbolProvider
  <1>2. Range(symbols)' = Range(symbols) /\ Universe' = Universe
    BY <1>1 DEF Range, Universe
  <1>3. SymbolInv'
    BY <1>1, <1>2 DEF BootInv, SymbolInv
  <1>4. SpecInv'
    BY <1>1 DEF SpecInv
  <1>5. ObjectInv' /\ SpeciesInv'
    BY <1>1, <1>2 DEF BootInv, ObjectInv, SpeciesInv
  <1>6. NewMdInv'
    BY <1>1, <1>2 DEF BootInv, NewMdInv
  <1> QED
    BY <1>1, <1>3, <1>4, <1>5, <1>6 DEF BootInv

(* There is always a behavior to convert next, and it is one of those      *)
(* that are left.                                                          *)
LEMMA ConvertingOK ==
  ASSUME BootInv, phase = "convert"
  PROVE  Converting \in todo /\ todo \subseteq DOMAIN objects
  <1>1. todo # {} /\ todo \subseteq DOMAIN objects /\ DOMAIN objects \subseteq SpeciesIn(DOMAIN spec)
    BY DEF BootInv, SpeciesInv
  <1>2. CASE \E sp \in todo : sp.side = "metaclass" /\ ClassOf(sp) \notin todo
    <2>1. (CHOOSE sp \in todo : sp.side = "metaclass" /\ ClassOf(sp) \notin todo) \in todo
      BY <1>2
    <2> QED
      BY <1>1, <1>2, <2>1 DEF Converting
  <1>3. CASE ~\E sp \in todo : sp.side = "metaclass" /\ ClassOf(sp) \notin todo
    <2>1. PICK sp \in todo : TRUE
      BY <1>1
    <2>2. sp.side = "class" \/ (sp.side = "metaclass" /\ ClassOf(sp).side = "class")
      BY <1>1, <2>1, SpeciesOf
    <2>3. \E c \in todo : c.side = "class"
      BY <1>3, <2>2
    <2>4. (CHOOSE c \in todo : c.side = "class") \in todo
      BY <2>3
    <2> QED
      BY <1>1, <1>3, <2>4 DEF Converting
  <1> QED
    BY <1>2, <1>3

(* The new dictionary of the next behavior.                                *)
LEMMA NewMethodDictKeeps ==
  ASSUME BootInv, NewMethodDict
  PROVE  BootInv'
  <1>1. /\ phase = "convert" /\ newMd' \in {<<>>, newMd} /\ phase' \in {"convert", "failed"}
        /\ UNCHANGED <<installation, spec, todo, objects, namespace, symbols, symbolTable, provider>>
    BY DEF NewMethodDict
  <1>2. Range(symbols)' = Range(symbols) /\ Universe' = Universe
    BY <1>1 DEF Range, Universe
  <1>3. SymbolInv'
    BY <1>1, <1>2 DEF BootInv, SymbolInv
  <1>4. SpecInv'
    BY <1>1 DEF SpecInv
  <1>5. ObjectInv' /\ SpeciesInv'
    BY <1>1, <1>2 DEF BootInv, ObjectInv, SpeciesInv
  <1>6. PairsOK(<<>>, Universe)
    BY Emptied DEF PairsOK
  <1>7. NewMdInv'
    BY <1>1, <1>2, <1>6 DEF BootInv, NewMdInv
  <1> QED
    BY <1>1, <1>3, <1>4, <1>5, <1>7 DEF BootInv

(* One pair is put into the new dictionary.                                *)
LEMMA ConvertPairKeeps ==
  ASSUME BootInv, ConvertPair
  PROVE  BootInv'
  <1>1. /\ phase = "convert" /\ newMd # Nil /\ Missing # <<>> /\ phase' \in {"convert", "failed"}
        /\ newMd' = newMd \/ newMd' = AtPut(newMd, Head(Missing)[1], Head(Missing)[2])
        /\ UNCHANGED <<installation, spec, todo, objects, namespace, symbols, symbolTable, provider>>
    BY DEF ConvertPair
  <1>2. Range(symbols)' = Range(symbols) /\ Universe' = Universe
    BY <1>1 DEF Range, Universe
  <1>3. SymbolInv'
    BY <1>1, <1>2 DEF BootInv, SymbolInv
  <1>4. SpecInv'
    BY <1>1 DEF SpecInv
  <1>5. ObjectInv' /\ SpeciesInv'
    BY <1>1, <1>2 DEF BootInv, ObjectInv, SpeciesInv
  <1>6. Converting \in DOMAIN objects
    BY <1>1, ConvertingOK
  <1>7. PICK pairs : pairs = objects[Converting].md.pairs
    OBVIOUS
  <1>8. PairsOK(pairs, Universe) /\ PairsOK(newMd, Universe)
    BY <1>1, <1>6, <1>7 DEF BootInv, ObjectInv, AllFull, FullSlots, DictOK, NewMdInv
  <1>9. PICK P : P = {pairs[i] : i \in 1 .. Len(pairs)}
    OBVIOUS
  <1>10. pairs \in Seq(P) /\ Len(pairs) \in Nat /\ Len(newMd) \in Nat
    BY <1>8, <1>9, OfSome DEF PairsOK, IsSeq
  <1>11. PICK missing : missing = SubSeq(pairs, Len(newMd) + 1, Len(pairs))
    OBVIOUS
  <1>12. missing = Missing
    BY <1>7, <1>11 DEF Missing
  <1>13. missing \in Seq(P)
    <2>1. \A i \in Len(newMd) + 1 .. Len(pairs) : pairs[i] \in P
      BY <1>9, <1>10
    <2> QED
      BY <1>10, <1>11, <2>1, SubSeqProperties
  <1>14. Head(missing) \in P
    BY <1>1, <1>12, <1>13, HeadTailProperties
  <1>15. PICK p : p = Head(missing)
    OBVIOUS
  <1>16. p[1] \in Universe /\ MethodOK(p[2], Universe)
    BY <1>8, <1>9, <1>14, <1>15 DEF PairsOK
  <1>17. PairsOK(AtPut(newMd, p[1], p[2]), Universe)
    BY <1>8, <1>16, PutPairs
  <1>18. NewMdInv'
    BY <1>1, <1>2, <1>8, <1>12, <1>15, <1>17 DEF NewMdInv
  <1> QED
    BY <1>1, <1>3, <1>4, <1>5, <1>18 DEF BootInv

(* The new dictionary takes the place of the old one.                      *)
LEMMA ReplaceMethodDictKeeps ==
  ASSUME BootInv, ReplaceMethodDict
  PROVE  BootInv'
  <1>1. /\ phase = "convert" /\ newMd # Nil /\ newMd' = Nil /\ todo' = todo \ {Converting}
        /\ phase' = IF todo = {Converting} THEN "done" ELSE phase
        /\ UNCHANGED <<installation, spec, namespace, symbols, symbolTable, provider>>
    BY DEF ReplaceMethodDict
  <1>2. Range(symbols)' = Range(symbols) /\ Universe' = Universe
    BY <1>1 DEF Range, Universe
  <1>3. Converting \in todo /\ todo \subseteq DOMAIN objects
    BY <1>1, ConvertingOK
  <1>4. SymbolInv'
    BY <1>1, <1>2 DEF BootInv, SymbolInv
  <1>5. SpecInv'
    BY <1>1 DEF SpecInv
  <1>6. PICK md : md = [kind |-> "MethodDictionary", pairs |-> newMd]
    OBVIOUS
  <1>7. DictOK(md, Universe)
    BY <1>1, <1>6 DEF BootInv, NewMdInv, DictOK
  <1>8. PICK sp : sp = Converting
    OBVIOUS
  <1>9. PICK slots : slots = Replacing(objects[sp], "md", md)
    OBVIOUS
  <1>10. objects' = Replacing(objects, sp, slots)
    BY <1>6, <1>8, <1>9 DEF ReplaceMethodDict, Replacing
  <1>11. AllFull(objects, Universe)
    BY <1>1 DEF BootInv, ObjectInv
  <1>12. FullSlots(slots, Universe)
    <2>1. "md" \in DOMAIN objects[sp]
      BY <1>3, <1>8, <1>11 DEF AllFull, FullSlots
    <2>2. "md" \in DOMAIN slots /\ slots.md = md
      BY <1>9, <2>1, ReplacingOne
    <2> QED
      BY <1>7, <2>2 DEF FullSlots
  <1>13. DOMAIN objects' = DOMAIN objects
         /\ \A x \in DOMAIN objects : objects'[x] = IF x = sp THEN slots ELSE objects[x]
    BY <1>10, ReplacingOne
  <1>14. AllFull(objects', Universe') /\ \A x \in DOMAIN objects' : SlotsOK(objects'[x], Universe')
    BY <1>2, <1>11, <1>12, <1>13 DEF AllFull, FullSlots, SlotsOK
  <1>15. ObjectInv'
    BY <1>1, <1>14 DEF ObjectInv
  <1>16. SpeciesInv'
    BY <1>1, <1>3, <1>13 DEF BootInv, SpeciesInv
  <1>17. NewMdInv'
    BY <1>1 DEF NewMdInv
  <1> QED
    BY <1>1, <1>4, <1>5, <1>15, <1>16, <1>17 DEF BootInv

(* The bootstrap as a whole.                                               *)
LEMMA BootstrapKeeps ==
  ASSUME Inv, BootNext, UNCHANGED loaderVars
  PROVE  Inv'
  <1>1. BootInv'
    BY LoadKernelSpecsKeeps, CreateInitialObjectsKeeps, InstantiateKeeps, InitializeKeeps,
       CreateKernelNamespaceKeeps, LoadKernelMethodsKeeps, CreateRuntimeKeeps,
       FillSymbolTableKeeps, SwitchKeeps, NewMethodDictKeeps, ConvertPairKeeps,
       ReplaceMethodDictKeeps DEF Inv, BootNext
  <1>2. phase # "done"
    BY DEF BootNext, loadKernelSpecs, createInitialObjects, instantiateMetaobjectsOf,
           initializeMetaobjectsOf, createKernelNamespace, loadKernelMethods,
           createRuntimeWithBootstrappedKernel, fillSymbolTable,
           switchToDynamicSymbolProvider, NewMethodDict, ConvertPair, ReplaceMethodDict
  <1>3. LoaderInv'
    BY <1>2, LoaderIdle DEF Inv
  <1> QED
    BY <1>1, <1>3 DEF Inv

-----------------------------------------------------------------------------
(* The stack of loads.                                                     *)
Popped(ls) == SubSeq(ls, 1, Len(ls) - 1)

(* The stack without the load on top.                                      *)
LEMMA PoppedIs ==
  ASSUME NEW ls, IsSeq(ls), ls # <<>>
  PROVE  /\ Len(ls) \in Nat /\ Len(ls) >= 1
         /\ IsSeq(Popped(ls)) /\ Len(Popped(ls)) = Len(ls) - 1
         /\ \A i \in 1 .. Len(ls) - 1 : Popped(ls)[i] = ls[i]
  <1>1. PICK S : S = {ls[i] : i \in 1 .. Len(ls)}
    OBVIOUS
  <1>2. ls \in Seq(S) /\ Len(ls) \in Nat
    BY <1>1, OfSome DEF IsSeq
  <1>3. Len(ls) # 0
    BY <1>2, EmptySeq
  <1>4. PICK n : n = Len(ls) - 1
    OBVIOUS
  <1>5. n \in Int /\ \A i \in 1 .. n : ls[i] \in S
    BY <1>1, <1>2, <1>4
  <1>6. PICK t : t = SubSeq(ls, 1, n)
    OBVIOUS
  <1>7. /\ SubSeq(ls, 1, n) \in Seq(S)
        /\ Len(SubSeq(ls, 1, n)) = IF 1 <= n THEN n - 1 + 1 ELSE 0
        /\ \A i \in 1 .. n - 1 + 1 : SubSeq(ls, 1, n)[i] = ls[1 + i - 1]
    BY <1>5, SubSeqProperties
  <1>8. t \in Seq(S) /\ Len(t) = n /\ \A i \in 1 .. n : t[i] = ls[i]
    BY <1>2, <1>3, <1>4, <1>6, <1>7
  <1>9. IsSeq(t)
    BY <1>8, SeqIs
  <1> QED
    BY <1>2, <1>3, <1>4, <1>6, <1>8, <1>9 DEF Popped

(* The empty stack.                                                        *)
LEMMA NoLoads == ASSUME NEW files, NEW D, NEW R PROVE LoadsOK(<<>>, files, D, R)
  BY Emptied DEF LoadsOK

(* The stack of one load.                                                  *)
LEMMA OneLoad ==
  ASSUME NEW files, NEW D, NEW R, NEW l, LoadOK(l, files, D, R)
  PROVE  LoadsOK(<<l>>, files, D, R)
  <1>1. PICK ls : ls = <<l>>
    OBVIOUS
  <1>2. ls \in Seq({l}) /\ Len(ls) = 1 /\ ls[1] = l
    BY <1>1
  <1>3. IsSeq(ls)
    BY <1>2, SeqIs
  <1> QED
    BY <1>1, <1>2, <1>3 DEF LoadsOK

(* The load on top is apart from the others.                               *)
LEMMA PopOK ==
  ASSUME NEW files, NEW D, NEW R, NEW ls, LoadsOK(ls, files, D, R), ls # <<>>,
         NEW top, top = ls[Len(ls)]
  PROVE  /\ LoadOK(top, files, D, R) /\ LoadsOK(Popped(ls), files, D, R)
         /\ \A i \in 1 .. Len(Popped(ls)) : Apart(Popped(ls)[i], top) /\ Apart(top, Popped(ls)[i])
  <1>1. IsSeq(ls)
    BY DEF LoadsOK
  <1>2. /\ Len(ls) \in Nat /\ Len(ls) >= 1
        /\ IsSeq(Popped(ls)) /\ Len(Popped(ls)) = Len(ls) - 1
        /\ \A i \in 1 .. Len(ls) - 1 : Popped(ls)[i] = ls[i]
    BY <1>1, PoppedIs
  <1> QED
    BY <1>2 DEF LoadsOK

(* A load that is apart from those on the stack may go on top.             *)
LEMMA PushOK ==
  ASSUME NEW files, NEW D, NEW R, NEW ls, LoadsOK(ls, files, D, R),
         NEW l, LoadOK(l, files, D, R),
         \A i \in 1 .. Len(ls) : Apart(ls[i], l) /\ Apart(l, ls[i])
  PROVE  LoadsOK(Append(ls, l), files, D, R)
  <1>1. IsSeq(ls) /\ Len(ls) \in Nat
    BY DEF LoadsOK, IsSeq
  <1>2. PICK t : t = Append(ls, l)
    OBVIOUS
  <1>3. /\ IsSeq(t) /\ Len(t) = Len(ls) + 1
        /\ \A i \in 1 .. Len(ls) + 1 : t[i] = IF i = Len(ls) + 1 THEN l ELSE ls[i]
    BY <1>1, <1>2, Appended
  <1>4. \A i \in 1 .. Len(t) : LoadOK(t[i], files, D, R)
    BY <1>1, <1>3 DEF LoadsOK
  <1>5. \A i, j \in 1 .. Len(t) : i # j => Apart(t[i], t[j])
    BY <1>1, <1>3 DEF LoadsOK
  <1> QED
    BY <1>2, <1>3, <1>4, <1>5 DEF LoadsOK

(* More modules, and registered ones that no unfinished load is about.     *)
LEMMA WiderOK ==
  ASSUME NEW files, NEW D, NEW R, NEW ls, LoadsOK(ls, files, D, R),
         NEW E, D \subseteq E, NEW Q,
         \A i \in 1 .. Len(ls) : ls[i].step \in Unregistered => ls[i].module \notin Q
  PROVE  LoadsOK(ls, files, E, Q)
  <1>1. ASSUME NEW i \in 1 .. Len(ls) PROVE LoadOK(ls[i], files, E, Q)
    <2>1. LoadOK(ls[i], files, D, R)
      BY DEF LoadsOK
    <2> QED
      BY <2>1 DEF LoadOK
  <1> QED
    BY <1>1 DEF LoadsOK

-----------------------------------------------------------------------------
(* The loader.  It works when the bootstrap is over, and the symbols are   *)
(* those of the table.                                                     *)
LEMMA Loading ==
  ASSUME Inv, DOMAIN modules # {} \/ loads # <<>> \/ phase = "done"
  PROVE  /\ phase = "done" /\ Universe = symbolTable /\ AllFull(objects, symbolTable)
         /\ Unique(symbolTable) /\ installation \in Installations
  <1>1. phase = "done"
    BY DEF Inv, LoaderInv
  <1>2. Universe = symbolTable
    BY <1>1 DEF Inv, BootInv, SymbolInv, Universe
  <1> QED
    BY <1>1, <1>2 DEF Inv, BootInv, SymbolInv, ObjectInv

(* A step of the loader that adds symbols keeps what the Bootstrapper has  *)
(* built.                                                                  *)
LEMMA BootKept ==
  ASSUME Inv, phase = "done",
         UNCHANGED <<installation, phase, spec, todo, namespace, symbols, provider, newMd>>,
         symbolTable \subseteq symbolTable', Unique(symbolTable'), AllFull(objects', symbolTable')
  PROVE  BootInv' /\ Universe' = symbolTable'
  <1>1. Range(symbols)' = Range(symbols) /\ Range(symbols) \subseteq symbolTable /\ Universe = symbolTable
    BY DEF Range, Inv, BootInv, SymbolInv, Universe
  <1>2. Universe' = symbolTable'
    BY <1>1 DEF Universe
  <1>3. SpecInv' /\ SpeciesInv'
    BY DEF SpecInv, SpeciesInv
  <1>4. SymbolInv'
    BY <1>1, <1>2 DEF Inv, BootInv, SymbolInv
  <1>5. \A sp \in DOMAIN objects' : SlotsOK(objects'[sp], Universe')
    BY <1>2 DEF AllFull, FullSlots, SlotsOK
  <1>6. ObjectInv'
    BY <1>2, <1>5 DEF ObjectInv
  <1>7. NewMdInv'
    BY <1>1, <1>2, MorePairs DEF Inv, BootInv, NewMdInv
  <1> QED
    BY <1>2, <1>3, <1>4, <1>6, <1>7 DEF BootInv, Inv

(* The loads with Top going on as another one, with more in the table.     *)
LEMMA TopIs ==
  ASSUME Inv, loads # <<>>
  PROVE  /\ LoadOK(Top, installation, DOMAIN modules, Registered)
         /\ LoadsOK(Pop, installation, DOMAIN modules, Registered)
         /\ \A i \in 1 .. Len(Pop) : Apart(Pop[i], Top) /\ Apart(Top, Pop[i])
         /\ DOMAIN modules # {}
  <1>1. PICK ls : ls = loads
    OBVIOUS
  <1>2. PICK top : top = ls[Len(ls)]
    OBVIOUS
  <1>3. Top = top /\ Pop = Popped(ls)
    BY <1>1, <1>2 DEF Top, Pop, Popped
  <1>4. PICK files, D, R : files = installation /\ D = DOMAIN modules /\ R = Registered
    OBVIOUS
  <1>5. LoadsOK(ls, files, D, R) /\ ls # <<>>
    BY <1>1, <1>4 DEF Inv, LoaderInv
  <1>6. /\ LoadOK(top, files, D, R) /\ LoadsOK(Popped(ls), files, D, R)
        /\ \A i \in 1 .. Len(Popped(ls)) : Apart(Popped(ls)[i], top) /\ Apart(top, Popped(ls)[i])
    BY <1>2, <1>5, PopOK
  <1>7. DOMAIN modules # {}
    BY DEF Inv, LoaderInv
  <1> QED
    BY <1>3, <1>4, <1>6, <1>7

(* What a step of the loader has to show.                                  *)
LEMMA LoaderKept ==
  ASSUME Inv, phase' = "done", DOMAIN modules # {},
         DOMAIN modules' \subseteq Nat, IsFiniteSet(DOMAIN modules'), ModulesOK(modules', Universe'),
         Registered' \subseteq DOMAIN modules',
         DOMAIN kernelModules \subseteq DOMAIN kernelModules',
         LoadsOK(loads', installation', DOMAIN modules', Registered')
  PROVE  LoaderInv'
  <1>1. <<"Kernel">> \in DOMAIN kernelModules
    BY DEF Inv, LoaderInv
  <1>2. Kernel \in DOMAIN modules' /\ DOMAIN modules' # {}
    BY DEF Registered
  <1>3. Range(loadedModules)' \subseteq DOMAIN modules'
    BY DEF Registered
  <1> QED
    BY <1>1, <1>2, <1>3 DEF LoaderInv

(* The sources of a module are as the readers make them.                   *)
LEMMA ModuleSource ==
  ASSUME installation \in Installations, NEW path \in DOMAIN installation.modules
  PROVE  ModuleSourceOK(installation.modules[path])
  BY InstallationsAssumption DEF InstallationOK

(* The kernel is the first module.                                         *)
LEMMA LoadKernelKeeps ==
  ASSUME Inv, loadKernel
  PROVE  Inv'
  <1>1. /\ phase = "done" /\ DOMAIN modules = {}
        /\ UNCHANGED <<bootVars, loads, stopped>>
    BY DEF loadKernel
  <1>2. UNCHANGED <<installation, phase, spec, todo, objects, namespace, symbols, symbolTable,
                    provider, newMd>>
    BY <1>1 DEF bootVars
  <1>3. /\ Universe = symbolTable /\ AllFull(objects, symbolTable) /\ Unique(symbolTable)
    BY <1>1, Loading
  <1>4. BootInv' /\ Universe' = symbolTable'
    BY <1>1, <1>2, <1>3, BootKept
  <1>5. PICK kernel : kernel = [path |-> <<"Kernel">>, namespace |-> <<>>, extensions |-> <<>>,
                                overriden |-> <<>>]
    OBVIOUS
  <1>6. /\ modules' = At(Kernel, kernel) /\ loadedModules' = At("Kernel", Kernel)
        /\ kernelModules' = At(<<"Kernel">>, Kernel)
    BY <1>5 DEF loadKernel
  <1>7. DOMAIN modules' = {Kernel} /\ modules'[Kernel] = kernel
    BY <1>6 DEF At
  <1>8. Range(loadedModules)' = {Kernel}
    BY <1>6 DEF At, Range
  <1>9. DOMAIN kernelModules' = {<<"Kernel">>}
    BY <1>6 DEF At
  <1>10. ModuleOK(kernel, Universe')
    <2>1. "extensions" \in DOMAIN kernel /\ kernel.extensions = <<>>
      BY <1>5
    <2> QED
      BY <2>1, Emptied DEF ModuleOK, MethodsOK
  <1>11. ModulesOK(modules', Universe')
    BY <1>7, <1>10 DEF ModulesOK
  <1>12. loads' = <<>>
    BY <1>1 DEF Inv, LoaderInv
  <1>13. LoadsOK(loads, installation, DOMAIN modules, Registered)'
    BY <1>12, Emptied DEF LoadsOK
  <1>14. Kernel \in Nat /\ IsFiniteSet({Kernel})
    BY FS_Singleton DEF Kernel
  <1>15. LoaderInv'
    BY <1>1, <1>2, <1>7, <1>8, <1>9, <1>11, <1>13, <1>14 DEF LoaderInv
  <1> QED
    BY <1>4, <1>15 DEF Inv

(* A load begins with a new module, or with one that is registered.        *)
LEMMA LoadOfOK ==
  ASSUME NEW path, NEW files, NEW D,
         Range(loadedModules) \subseteq D, NEW R
  PROVE  LoadOK(LoadOf(path), files, D, R) /\ LoadOf(path).step \notin Unregistered
  <1>1. PICK l : l = LoadOf(path)
    OBVIOUS
  <1>2. CASE Last(path) \in DOMAIN loadedModules
    <2>1. PICK m : m = loadedModules[Last(path)]
      OBVIOUS
    <2>2. m \in D
      BY <1>2, <2>1 DEF Range
    <2>3. l = [path |-> path, step |-> "justLoaded", module |-> m, files |-> <<>>, imports |-> <<>>]
      BY <1>1, <1>2, <2>1 DEF LoadOf
    <2>4. /\ {"path", "step", "module", "files", "imports"} \subseteq DOMAIN l
          /\ l.path = path /\ l.step = "justLoaded" /\ l.module = m
      BY <2>3
    <2> QED
      BY <1>1, <2>2, <2>4 DEF LoadOK, Unregistered
  <1>3. CASE Last(path) \notin DOMAIN loadedModules
    <2>1. l = [path |-> path, step |-> "create", module |-> Nil, files |-> <<>>, imports |-> <<>>]
      BY <1>1, <1>3 DEF LoadOf
    <2>2. /\ {"path", "step", "module", "files", "imports"} \subseteq DOMAIN l
          /\ l.path = path /\ l.step = "create" /\ l.module = Nil
      BY <2>1
    <2> QED
      BY <1>1, <2>2 DEF LoadOK, Unregistered
  <1> QED
    BY <1>2, <1>3

(* What is common to the steps of the loader that leave symbols, behaviors *)
(* and modules alone.                                                      *)
LEMMA OnlyLoads ==
  ASSUME Inv, DOMAIN modules # {}, UNCHANGED <<bootVars, modules>>,
         Registered' \subseteq DOMAIN modules,
         DOMAIN kernelModules \subseteq DOMAIN kernelModules',
         LoadsOK(loads', installation, DOMAIN modules, Registered')
  PROVE  Inv'
  <1>1. /\ phase = "done" /\ Universe = symbolTable /\ AllFull(objects, symbolTable)
        /\ Unique(symbolTable)
    BY Loading
  <1>2. UNCHANGED <<installation, phase, spec, todo, objects, namespace, symbols, symbolTable,
                    provider, newMd>>
    BY DEF bootVars
  <1>3. BootInv' /\ Universe' = symbolTable'
    BY <1>1, <1>2, BootKept
  <1>4. DOMAIN modules \subseteq Nat /\ IsFiniteSet(DOMAIN modules) /\ ModulesOK(modules, Universe)
    BY DEF Inv, LoaderInv
  <1>5. modules' = modules /\ Universe' = Universe
    BY <1>1, <1>2, <1>3
  <1>6. LoadsOK(loads', installation', DOMAIN modules', Registered')
    BY <1>2, <1>5
  <1>7. LoaderInv'
    BY <1>1, <1>2, <1>4, <1>5, <1>6, LoaderKept
  <1> QED
    BY <1>3, <1>7 DEF Inv

(* load: a module is asked for.                                            *)
LEMMA LoadKeeps ==
  ASSUME Inv, NEW path \in DOMAIN installation.modules, load(path)
  PROVE  Inv'
  <1>1. /\ DOMAIN modules # {} /\ loads' = <<LoadOf(path)>>
        /\ UNCHANGED <<bootVars, modules, loadedModules, kernelModules, stopped>>
    BY DEF load
  <1>2. Registered \subseteq DOMAIN modules
    BY <1>1 DEF Inv, LoaderInv, Registered
  <1>3. PICK l, files, D, R : /\ l = LoadOf(path) /\ files = installation
                              /\ D = DOMAIN modules /\ R = Registered
    OBVIOUS
  <1>4. LoadOK(l, files, D, R)
    BY <1>2, <1>3, LoadOfOK DEF Registered
  <1>5. LoadsOK(<<l>>, files, D, R)
    BY <1>4, OneLoad
  <1>6. Registered' = Registered
    BY <1>1 DEF Registered
  <1> QED
    BY <1>1, <1>2, <1>3, <1>5, <1>6, OnlyLoads

(* The two ways in which a load ends early.                                *)
LEMMA StopKeeps ==
  ASSUME Inv, loads # <<>>, NEW why, Stop(why)
  PROVE  Inv'
  <1>1. loads' = <<>> /\ UNCHANGED <<bootVars, modules, loadedModules, kernelModules>>
    BY DEF Stop
  <1>2. DOMAIN modules # {} /\ Registered \subseteq DOMAIN modules
    BY DEF Inv, LoaderInv, Registered
  <1>3. LoadsOK(loads', installation, DOMAIN modules, Registered')
    BY <1>1, NoLoads
  <1>4. Registered' = Registered
    BY <1>1 DEF Registered
  <1> QED
    BY <1>1, <1>2, <1>3, <1>4, OnlyLoads

(* An error in a source ends all the loads.                                *)
LEMMA FailKeeps ==
  ASSUME Inv, loads # <<>>, Fail, Top.module \notin Registered
  PROVE  Inv'
  <1>1. /\ loads' = <<>>
        /\ UNCHANGED <<installation, phase, spec, todo, namespace, symbols, symbolTable, provider,
                       newMd, loadedModules, kernelModules>>
    BY DEF Fail
  <1>2. DOMAIN modules # {}
    BY DEF Inv, LoaderInv
  <1>3. /\ phase = "done" /\ Universe = symbolTable /\ AllFull(objects, symbolTable)
        /\ Unique(symbolTable)
    BY Loading
  <1>4. /\ DOMAIN objects' \subseteq DOMAIN objects
        /\ \A sp \in DOMAIN objects' : objects'[sp] = objects[sp]
    BY DEF Fail
  <1>5. AllFull(objects', symbolTable')
    BY <1>1, <1>3, <1>4 DEF AllFull
  <1>6. BootInv' /\ Universe' = symbolTable'
    BY <1>1, <1>3, <1>5, BootKept
  <1>7. /\ DOMAIN modules' = DOMAIN modules \ {Top.module}
        /\ \A m \in DOMAIN modules' : modules'[m] = modules[m]
    BY DEF Fail
  <1>8. /\ DOMAIN modules \subseteq Nat /\ IsFiniteSet(DOMAIN modules)
        /\ ModulesOK(modules, Universe) /\ Registered \subseteq DOMAIN modules
    BY <1>2 DEF Inv, LoaderInv, Registered
  <1>9. IsFiniteSet(DOMAIN modules')
    BY <1>7, <1>8, FS_Subset
  <1>10. ModulesOK(modules', Universe')
    BY <1>1, <1>3, <1>6, <1>7, <1>8 DEF ModulesOK
  <1>11. Registered' = Registered
    BY <1>1 DEF Registered
  <1>12. LoadsOK(loads', installation', DOMAIN modules', Registered')
    BY <1>1, NoLoads
  <1>13. LoaderInv'
    BY <1>1, <1>2, <1>3, <1>7, <1>8, <1>9, <1>10, <1>11, <1>12, LoaderKept
  <1> QED
    BY <1>6, <1>13 DEF Inv

(* Top goes on as another load of the same module.                         *)
LEMMA TopReplaced ==
  ASSUME Inv, loads # <<>>, NEW l,
         NEW D, DOMAIN modules \subseteq D, NEW R,
         LoadOK(l, installation, D, R),
         \A i \in 1 .. Len(Pop) : Pop[i].step \in Unregistered =>
             Pop[i].module \notin R /\ (l.step \in Unregistered => Pop[i].module # l.module)
  PROVE  LoadsOK(Append(Pop, l), installation, D, R)
  <1>1. PICK files, E, Q, ls : /\ files = installation /\ E = DOMAIN modules
                               /\ Q = Registered /\ ls = Pop
    OBVIOUS
  <1>2. LoadsOK(ls, files, E, Q)
    BY <1>1, TopIs
  <1>3. E \subseteq D /\ \A i \in 1 .. Len(ls) : ls[i].step \in Unregistered => ls[i].module \notin R
    BY <1>1
  <1>4. LoadsOK(ls, files, D, R)
    BY <1>2, <1>3, WiderOK
  <1>5. LoadOK(l, files, D, R)
    BY <1>1
  <1>6. \A i \in 1 .. Len(ls) : Apart(ls[i], l) /\ Apart(l, ls[i])
    BY <1>1 DEF Apart
  <1>7. LoadsOK(Append(ls, l), files, D, R)
    BY <1>4, <1>5, <1>6, PushOK
  <1> QED
    BY <1>1, <1>7

(* The load on top goes on with the same module.                           *)
LEMMA SameModule ==
  ASSUME Inv, loads # <<>>, NEW l, LoadOK(l, installation, DOMAIN modules, Registered),
         l.module = Top.module, Top.step \in Unregistered
  PROVE  LoadsOK(Append(Pop, l), installation, DOMAIN modules, Registered)
  <1>1. /\ LoadsOK(Pop, installation, DOMAIN modules, Registered)
        /\ \A i \in 1 .. Len(Pop) : Apart(Pop[i], Top)
    BY TopIs
  <1>2. ASSUME NEW i \in 1 .. Len(Pop), Pop[i].step \in Unregistered
        PROVE  Pop[i].module \notin Registered /\ Pop[i].module # l.module
    <2>1. LoadOK(Pop[i], installation, DOMAIN modules, Registered)
      BY <1>1 DEF LoadsOK
    <2> QED
      BY <1>1, <1>2, <2>1 DEF LoadOK, Apart
  <1>3. PICK D, R : D = DOMAIN modules /\ R = Registered
    OBVIOUS
  <1>4. LoadsOK(Append(Pop, l), installation, D, R)
    BY <1>2, <1>3, TopReplaced
  <1> QED
    BY <1>3, <1>4

(* Phase 4.                                                                *)
LEMMA ImportRequiredKeeps ==
  ASSUME Inv, importRequired
  PROVE  Inv'
  <1>1. loads # <<>> /\ Top.step = "import" /\ Top.imports # <<>>
    BY DEF importRequired
  <1>2. PICK top, import : top = Top /\ import = Head(top.imports)
    OBVIOUS
  <1>3. PICK files, D, R : files = installation /\ D = DOMAIN modules /\ R = Registered
    OBVIOUS
  <1>4. /\ LoadOK(top, files, D, R) /\ LoadsOK(Pop, files, D, R) /\ D # {}
        /\ \A i \in 1 .. Len(Pop) : Apart(Pop[i], top) /\ Apart(top, Pop[i])
    BY <1>1, <1>2, <1>3, TopIs
  <1>5. /\ {"path", "step", "module", "files", "imports"} \subseteq DOMAIN top
        /\ top.path \in DOMAIN files.modules /\ top.step = "import"
        /\ top.files \in Seq(DOMAIN files.modules[top.path].classes)
        /\ top.imports \in Seq(Import) /\ top.module \in D \ R
    BY <1>1, <1>2, <1>4 DEF LoadOK, Unregistered
  <1>6. PICK S : S = Import
    OBVIOUS
  <1>7. import \in S /\ Tail(top.imports) \in Seq(S)
    BY <1>1, <1>2, <1>5, <1>6, HeadTailProperties
  <1>8. /\ phase = "done" /\ Universe = symbolTable /\ AllFull(objects, symbolTable)
        /\ Unique(symbolTable)
    BY <1>1, Loading
  <1>9. /\ D \subseteq Nat /\ IsFiniteSet(D) /\ R \subseteq D /\ <<"Kernel">> \in DOMAIN kernelModules
        /\ ModulesOK(modules, Universe) /\ LoadsOK(loads, files, D, R)
    BY <1>3, <1>4 DEF Inv, LoaderInv, Registered
  <1>10. CASE import.module \notin DOMAIN kernelModules
    <2>1. /\ loads' = Append(loads, LoadOf(import.module))
          /\ UNCHANGED <<bootVars, modules, loadedModules, kernelModules, stopped>>
      BY <1>2, <1>10 DEF importRequired
    <2>3. PICK l : l = LoadOf(import.module)
      OBVIOUS
    <2>4. LoadOK(l, files, D, R) /\ l.step \notin Unregistered
      <3>1. PICK path : path = import.module
        OBVIOUS
      <3>2. Range(loadedModules) \subseteq D
        BY <1>3, <1>9 DEF Registered
      <3> QED
        BY <2>3, <3>1, <3>2, LoadOfOK
    <2>5. PICK ls : ls = loads
      OBVIOUS
    <2>6. LoadsOK(ls, files, D, R) /\ \A i \in 1 .. Len(ls) : Apart(ls[i], l) /\ Apart(l, ls[i])
      BY <1>9, <2>4, <2>5 DEF Apart
    <2>7. LoadsOK(Append(ls, l), files, D, R)
      BY <2>4, <2>6, PushOK
    <2>8. Registered' = R /\ kernelModules' = kernelModules
      BY <1>3, <2>1 DEF Registered
    <2>9. LoadsOK(loads', installation, DOMAIN modules, Registered')
      BY <1>3, <2>1, <2>3, <2>5, <2>7, <2>8
    <2> QED
      BY <1>3, <1>4, <1>9, <2>1, <2>8, <2>9, OnlyLoads
  <1>11. CASE import.module \in DOMAIN kernelModules
    <2>1. PICK value : value = NamespaceAt(kernelModules[import.module], import.name)
      OBVIOUS
    <2>2. CASE value = Nil
      <3>1. Stop("KeyNotFound")
        BY <1>2, <1>11, <2>1, <2>2 DEF importRequired
      <3> QED
        BY <1>1, <3>1, StopKeeps
    <2>3. CASE value # Nil
      <3>1. PICK names : names = Over(At(import.name, value), modules[top.module].namespace)
        OBVIOUS
      <3>2. PICK l : l = Replacing(top, "imports", Tail(top.imports))
        OBVIOUS
      <3>3. /\ modules' = Replacing(modules, top.module,
                                    Replacing(modules[top.module], "namespace", names))
            /\ loads' = Append(Pop, l)
            /\ UNCHANGED <<bootVars, loadedModules, kernelModules, stopped>>
        BY <1>2, <1>11, <2>1, <2>3, <3>1, <3>2 DEF importRequired, Replacing
      <3>4. /\ {"path", "step", "module", "files", "imports"} \subseteq DOMAIN l
            /\ l.path = top.path /\ l.step = "import" /\ l.files = top.files
            /\ l.module = top.module /\ l.imports = Tail(top.imports)
        BY <1>5, <3>2 DEF Replacing
      <3>5. LoadOK(l, files, D, R)
        BY <1>5, <1>6, <1>7, <3>4 DEF LoadOK, Unregistered
      <3>6. LoadsOK(Append(Pop, l), files, D, R)
        BY <1>1, <1>2, <1>3, <3>4, <3>5, SameModule DEF Unregistered
      <3>7. ModulesOK(modules', Universe) /\ DOMAIN modules' = DOMAIN modules
        <4>1. PICK mods, mods2, k, U : /\ mods = modules /\ mods2 = modules' /\ k = top.module
                                       /\ U = Universe
          OBVIOUS
        <4>2. ModulesOK(mods, U) /\ mods2 = Replacing(mods, k, Replacing(mods[k], "namespace", names))
          BY <1>9, <3>3, <4>1
        <4>3. "namespace" # "extensions"
          OBVIOUS
        <4>4. ModulesOK(mods2, U) /\ DOMAIN mods2 = DOMAIN mods
          BY <4>2, <4>3, OtherSlot
        <4> QED
          BY <4>1, <4>4
      <3>8. BootInv' /\ Universe' = symbolTable'
        BY <1>8, <3>3, BootKept DEF bootVars
      <3>9. /\ Registered' = R /\ kernelModules' = kernelModules
            /\ installation' = installation /\ phase' = phase /\ Universe' = Universe
        BY <1>3, <1>8, <3>3, <3>8 DEF bootVars, Registered
      <3>10. LoadsOK(loads', installation', DOMAIN modules', Registered')
        BY <1>3, <3>3, <3>6, <3>7, <3>9
      <3>11. LoaderInv'
        BY <1>3, <1>4, <1>8, <1>9, <3>7, <3>9, <3>10, LoaderKept
      <3> QED
        BY <3>8, <3>11 DEF Inv
    <2> QED
      BY <2>2, <2>3
  <1> QED
    BY <1>10, <1>11

(* sortClasses.                                                            *)
LEMMA SortClassesKeeps ==
  ASSUME Inv, sortClasses
  PROVE  Inv'
  <1>1. /\ loads # <<>> /\ Top.step = "import"
        /\ UNCHANGED <<bootVars, modules, loadedModules, kernelModules, stopped>>
    BY DEF sortClasses
  <1>2. PICK top : top = Top
    OBVIOUS
  <1>3. PICK files, D, R : files = installation /\ D = DOMAIN modules /\ R = Registered
    OBVIOUS
  <1>4. LoadOK(top, files, D, R) /\ D # {}
    BY <1>1, <1>2, <1>3, TopIs
  <1>5. /\ {"path", "step", "module", "files", "imports"} \subseteq DOMAIN top
        /\ top.path \in DOMAIN files.modules
        /\ top.files \in Seq(DOMAIN files.modules[top.path].classes)
        /\ top.module \in D \ R
    BY <1>1, <1>2, <1>4 DEF LoadOK, Unregistered
  <1>6. PICK classes, first : /\ classes = files.modules[top.path].classes
                              /\ first = CHOOSE n \in DOMAIN classes : n \notin Range(top.files)
    OBVIOUS
  <1>7. PICK sorted, names : sorted = Sorted(classes, first, top.files) /\ names = DOMAIN classes
    OBVIOUS
  <1>8. sorted \in Seq(names)
    BY <1>5, <1>6, <1>7, SortedOK
  <1>9. PICK l : l = Replacing(Replacing(top, "step", "classes"), "files", sorted)
    OBVIOUS
  <1>10. loads' = Append(Pop, l)
    BY <1>2, <1>3, <1>6, <1>7, <1>9 DEF sortClasses, Source, Replacing
  <1>11. /\ {"path", "step", "module", "files", "imports"} \subseteq DOMAIN l
         /\ l.path = top.path /\ l.step = "classes" /\ l.files = sorted /\ l.module = top.module
    BY <1>5, <1>9 DEF Replacing
  <1>12. LoadOK(l, files, D, R)
    BY <1>5, <1>6, <1>7, <1>8, <1>11 DEF LoadOK, Unregistered
  <1>13. LoadsOK(Append(Pop, l), files, D, R)
    BY <1>1, <1>2, <1>3, <1>11, <1>12, SameModule DEF Unregistered
  <1>14. R \subseteq D
    BY <1>3, <1>4 DEF Inv, LoaderInv, Registered
  <1>15. Registered' = R
    BY <1>1, <1>3 DEF Registered
  <1> QED
    BY <1>1, <1>3, <1>4, <1>10, <1>13, <1>14, <1>15, OnlyLoads

(* register.                                                               *)
LEMMA RegisterKeeps ==
  ASSUME Inv, register
  PROVE  Inv'
  <1>1. /\ loads # <<>> /\ Top.step = "register"
        /\ UNCHANGED <<bootVars, modules, kernelModules, stopped>>
    BY DEF register
  <1>2. PICK top : top = Top
    OBVIOUS
  <1>3. PICK files, D, R : files = installation /\ D = DOMAIN modules /\ R = Registered
    OBVIOUS
  <1>4. /\ LoadOK(top, files, D, R) /\ LoadsOK(Pop, files, D, R) /\ D # {}
        /\ \A i \in 1 .. Len(Pop) : Apart(Pop[i], top)
    BY <1>1, <1>2, <1>3, TopIs
  <1>5. /\ {"path", "step", "module", "files", "imports"} \subseteq DOMAIN top
        /\ top.path \in DOMAIN files.modules /\ top.module \in D \ R
    BY <1>1, <1>2, <1>4 DEF LoadOK, Unregistered
  <1>6. R \subseteq D
    BY <1>3, <1>4 DEF Inv, LoaderInv, Registered
  <1>7. loadedModules' = Over(At(Last(top.path), top.module), loadedModules)
    BY <1>2 DEF register
  <1>8. PICK Q : Q = Registered'
    OBVIOUS
  <1>9. Q \subseteq R \cup {top.module}
    BY <1>3, <1>7, <1>8 DEF Range, Over, At, Registered
  <1>11. PICK l : l = Replacing(top, "step", "justLoaded")
    OBVIOUS
  <1>12. loads' = Append(Pop, l)
    BY <1>2, <1>11 DEF register, Replacing
  <1>13. /\ {"path", "step", "module", "files", "imports"} \subseteq DOMAIN l
         /\ l.path = top.path /\ l.step = "justLoaded" /\ l.module = top.module
    BY <1>5, <1>11 DEF Replacing
  <1>14. LoadOK(l, files, D, Q)
    BY <1>5, <1>13 DEF LoadOK, Unregistered
  <1>15. ASSUME NEW i \in 1 .. Len(Pop), Pop[i].step \in Unregistered
         PROVE  Pop[i].module \notin Q
    <2>1. LoadOK(Pop[i], files, D, R)
      BY <1>4 DEF LoadsOK
    <2>2. top.step \in Unregistered
      BY <1>1, <1>2 DEF Unregistered
    <2> QED
      BY <1>4, <1>9, <1>15, <2>1, <2>2 DEF LoadOK, Apart
  <1>16. LoadsOK(Append(Pop, l), files, D, Q)
    BY <1>1, <1>3, <1>13, <1>14, <1>15, TopReplaced DEF Unregistered
  <1>17. Q \subseteq D
    BY <1>5, <1>6, <1>9
  <1> QED
    BY <1>1, <1>3, <1>4, <1>8, <1>12, <1>16, <1>17, OnlyLoads

-----------------------------------------------------------------------------
(* Classes.                                                                *)
LEMMA NamesOfBoth ==
  ASSUME NEW a, IsSeq(a), NEW b, IsSeq(b)
  PROVE  NamesIn(a) \subseteq NamesIn(a \o b) /\ NamesIn(b) \subseteq NamesIn(a \o b)
  <1>1. PICK c : c = a \o b
    OBVIOUS
  <1>2. /\ Len(a) \in Nat /\ Len(b) \in Nat /\ IsSeq(c) /\ Len(c) = Len(a) + Len(b)
        /\ \A i \in 1 .. Len(a) + Len(b) : c[i] = IF i <= Len(a) THEN a[i] ELSE b[i - Len(a)]
    <2>1. /\ IsSeq(a \o b) /\ Len(a \o b) = Len(a) + Len(b)
          /\ \A i \in 1 .. Len(a) + Len(b) :
               (a \o b)[i] = IF i <= Len(a) THEN a[i] ELSE b[i - Len(a)]
      BY ConcatIs
    <2>2. Len(a) \in Nat /\ Len(b) \in Nat
      BY DEF IsSeq
    <2> QED
      BY <1>1, <2>1, <2>2
  <1>3. DOMAIN a = 1 .. Len(a) /\ DOMAIN b = 1 .. Len(b) /\ DOMAIN c = 1 .. Len(a) + Len(b)
    BY <1>2 DEF IsSeq
  <1>4. Range(a) \subseteq Range(c)
    <2>1. ASSUME NEW i \in 1 .. Len(a) PROVE i \in DOMAIN c /\ c[i] = a[i]
      BY <1>2, <1>3
    <2> QED
      BY <1>3, <2>1 DEF Range
  <1>5. Range(b) \subseteq Range(c)
    <2>1. ASSUME NEW i \in 1 .. Len(b) PROVE Len(a) + i \in DOMAIN c /\ c[Len(a) + i] = b[i]
      BY <1>2, <1>3
    <2> QED
      BY <1>3, <2>1 DEF Range
  <1> QED
    BY <1>1, <1>4, <1>5 DEF NamesIn

(* The slots of a class of a module and of its metaclass.                  *)
ClassSlots(table, class, name, s, super) ==
    [isa |-> Metaclass(class), superclass |-> super, next |-> super,
     format |-> objects[super].format + Len(s.instVarNames),
     name |-> DynamicSymbol(table, name), md |-> Installed(table, class, s.methods)]
MetaclassSlots(table, metaclass, s, supermeta) ==
    [isa |-> Class("Metaclass"), superclass |-> supermeta, next |-> supermeta,
     format |-> objects[supermeta].format, name |-> Nil,
     md |-> Installed(table, metaclass, s.metaMethods)]

(* A new class and its metaclass have dictionaries that refer to the       *)
(* table.                                                                  *)
LEMMA NewClassOK ==
  ASSUME NEW table, NEW module, NEW name, NEW s, NEW super,
         IsSeq(s.methods), IsSeq(s.metaMethods),
         \A n \in NamesOf(name, s) : DynamicSymbol(table, n) \in table
  PROVE  AllFull(NewClass(table, module, name, s, super), table)
  <1>1. /\ \A n \in NamesIn(s.methods) : DynamicSymbol(table, n) \in table
        /\ \A n \in NamesIn(s.metaMethods) : DynamicSymbol(table, n) \in table
    BY NamesOfBoth DEF NamesOf
  <1>2. PICK class, metaclass, supermeta : /\ class = ClassIn(module, name)
                                           /\ metaclass = Metaclass(class)
                                           /\ supermeta = Metaclass(super)
    OBVIOUS
  <1>3. PICK md, metamd : /\ md = Installed(table, class, s.methods)
                          /\ metamd = Installed(table, metaclass, s.metaMethods)
    OBVIOUS
  <1>4. DictOK(md, table) /\ DictOK(metamd, table)
    BY <1>1, <1>3, InstalledOK
  <1>5. PICK slots, metaslots : /\ slots = ClassSlots(table, class, name, s, super)
                                /\ metaslots = MetaclassSlots(table, metaclass, s, supermeta)
    OBVIOUS
  <1>6. /\ "md" \in DOMAIN slots /\ slots.md = md
        /\ "md" \in DOMAIN metaslots /\ metaslots.md = metamd
    BY <1>3, <1>5 DEF ClassSlots, MetaclassSlots
  <1>7. FullSlots(slots, table) /\ FullSlots(metaslots, table)
    BY <1>4, <1>6 DEF FullSlots
  <1>8. NewClass(table, module, name, s, super) = Over(At(class, slots), At(metaclass, metaslots))
    BY <1>2, <1>5 DEF NewClass, ClassSlots, MetaclassSlots
  <1> QED
    BY <1>7, <1>8 DEF AllFull, Over, At

(* New behaviors over old ones.                                            *)
LEMMA OverFull ==
  ASSUME NEW U, NEW f, AllFull(f, U), NEW g, AllFull(g, U)
  PROVE  AllFull(Over(f, g), U)
  BY DEF AllFull, Over

(* The same for all behaviors.                                             *)
LEMMA MoreFull ==
  ASSUME NEW U, NEW V, U \subseteq V, NEW objs, AllFull(objs, U)
  PROVE  AllFull(objs, V)
  BY MoreSlots DEF AllFull

(* The same for all modules.                                               *)
LEMMA MoreModules ==
  ASSUME NEW U, NEW V, U \subseteq V, NEW mods, ModulesOK(mods, U)
  PROVE  ModulesOK(mods, V)
  BY MoreMethods DEF ModulesOK, ModuleOK

(* The objects and the table after a class was made.                       *)
LEMMA ClassMade ==
  ASSUME Inv, phase = "done", NEW module, NEW name, NEW s, NEW super,
         s.methods \in Seq(MethodSpec), s.metaMethods \in Seq(MethodSpec),
         symbolTable' = WithSymbols(symbolTable, NamesOf(name, s)),
         objects' = Over(NewClass(symbolTable', module, name, s, super), objects)
  PROVE  symbolTable \subseteq symbolTable' /\ Unique(symbolTable') /\ AllFull(objects', symbolTable')
  <1>1. AllFull(objects, symbolTable) /\ Unique(symbolTable)
    BY Loading
  <1>2. PICK before, after, names : /\ before = symbolTable /\ after = symbolTable'
                                    /\ names = NamesOf(name, s)
    OBVIOUS
  <1>3. Unique(before) /\ after = WithSymbols(before, names)
    BY <1>1, <1>2
  <1>4. /\ before \subseteq after /\ Unique(after)
        /\ \A n \in names : DynamicSymbol(after, n) \in after
    BY <1>3, WithSymbolsOK
  <1>5. IsSeq(s.methods) /\ IsSeq(s.metaMethods)
    BY SeqIs
  <1>6. PICK made : made = NewClass(after, module, name, s, super)
    OBVIOUS
  <1>7. AllFull(made, after)
    BY <1>2, <1>4, <1>5, <1>6, NewClassOK
  <1>8. PICK objs : objs = objects
    OBVIOUS
  <1>9. AllFull(objs, after)
    BY <1>1, <1>2, <1>4, <1>8, MoreFull
  <1>10. AllFull(Over(made, objs), after)
    BY <1>7, <1>9, OverFull
  <1> QED
    BY <1>2, <1>4, <1>6, <1>8, <1>10

(* createClass.                                                            *)
LEMMA CreateClassKeeps ==
  ASSUME Inv, createClass
  PROVE  Inv'
  <1>1. loads # <<>> /\ Top.step = "classes" /\ Top.files # <<>>
    BY DEF createClass
  <1>2. PICK top, name : top = Top /\ name = Head(top.files)
    OBVIOUS
  <1>3. PICK files, D, R : files = installation /\ D = DOMAIN modules /\ R = Registered
    OBVIOUS
  <1>4. LoadOK(top, files, D, R) /\ D # {}
    BY <1>1, <1>2, <1>3, TopIs
  <1>5. /\ {"path", "step", "module", "files", "imports"} \subseteq DOMAIN top
        /\ top.path \in DOMAIN files.modules
        /\ top.files \in Seq(DOMAIN files.modules[top.path].classes)
        /\ top.module \in D \ R
    BY <1>1, <1>2, <1>4 DEF LoadOK, Unregistered
  <1>6. PICK classes : classes = files.modules[top.path].classes
    OBVIOUS
  <1>7. name \in DOMAIN classes /\ Tail(top.files) \in Seq(DOMAIN classes)
    BY <1>1, <1>2, <1>5, <1>6, HeadTailProperties
  <1>8. /\ phase = "done" /\ Universe = symbolTable /\ AllFull(objects, symbolTable)
        /\ Unique(symbolTable) /\ installation \in Installations
    BY <1>1, Loading
  <1>9. /\ D \subseteq Nat /\ IsFiniteSet(D) /\ R \subseteq D /\ ModulesOK(modules, Universe)
    BY <1>3, <1>4 DEF Inv, LoaderInv, Registered
  <1>10. PICK s : s = classes[name]
    OBVIOUS
  <1>11. s.methods \in Seq(MethodSpec) /\ s.metaMethods \in Seq(MethodSpec)
    BY <1>3, <1>5, <1>6, <1>7, <1>8, <1>10, ModuleSource DEF ModuleSourceOK, ClassSpec
  <1>12. PICK super : super = NamespaceAt(top.module, s.supername)
    OBVIOUS
  <1>13. PICK names : names = Over(At(name, ClassIn(top.module, name)), modules[top.module].namespace)
    OBVIOUS
  <1>14. PICK l : l = Replacing(top, "files", Tail(top.files))
    OBVIOUS
  <1>15. \/ Stop("KeyNotFound") \/ Stop("MessageNotUnderstood")
         \/ Fail
         \/ /\ symbolTable' = WithSymbols(symbolTable, NamesOf(name, s))
            /\ objects' = Over(NewClass(symbolTable', top.module, name, s, super), objects)
            /\ modules' = Replacing(modules, top.module,
                                    Replacing(modules[top.module], "namespace", names))
            /\ loads' = Append(Pop, l)
            /\ UNCHANGED <<installation, phase, spec, todo, namespace, symbols, provider,
                           newMd, loadedModules, kernelModules, stopped>>
    BY <1>2, <1>3, <1>6, <1>10, <1>12, <1>13, <1>14 DEF createClass, Source, Replacing
  <1>16. CASE Stop("KeyNotFound") \/ Stop("MessageNotUnderstood")
    BY <1>1, <1>16, StopKeeps
  <1>17. CASE Fail
    BY <1>1, <1>2, <1>3, <1>5, <1>17, FailKeeps
  <1>18. CASE /\ symbolTable' = WithSymbols(symbolTable, NamesOf(name, s))
              /\ objects' = Over(NewClass(symbolTable', top.module, name, s, super), objects)
              /\ modules' = Replacing(modules, top.module,
                                      Replacing(modules[top.module], "namespace", names))
              /\ loads' = Append(Pop, l)
              /\ UNCHANGED <<installation, phase, spec, todo, namespace, symbols, provider,
                             newMd, loadedModules, kernelModules, stopped>>
    <2>1. PICK module : module = top.module
      OBVIOUS
    <2>2. /\ symbolTable \subseteq symbolTable' /\ Unique(symbolTable')
          /\ AllFull(objects', symbolTable')
      BY <1>8, <1>11, <1>18, <2>1, ClassMade
    <2>3. BootInv' /\ Universe' = symbolTable'
      BY <1>8, <1>18, <2>2, BootKept
    <2>4. ModulesOK(modules', Universe') /\ DOMAIN modules' = DOMAIN modules
      <3>1. PICK mods, mods2, U, V : /\ mods = modules /\ mods2 = modules'
                                     /\ U = Universe /\ V = Universe'
        OBVIOUS
      <3>2. U \subseteq V /\ ModulesOK(mods, U)
        BY <1>8, <1>9, <2>2, <2>3, <3>1
      <3>3. ModulesOK(mods, V)
        BY <3>2, MoreModules
      <3>4. ModulesOK(mods, V)
            /\ mods2 = Replacing(mods, module, Replacing(mods[module], "namespace", names))
        BY <1>18, <2>1, <3>1, <3>3
      <3>5. "namespace" # "extensions"
        OBVIOUS
      <3>6. ModulesOK(mods2, V) /\ DOMAIN mods2 = DOMAIN mods
        BY <3>4, <3>5, OtherSlot
      <3> QED
        BY <3>1, <3>6
    <2>5. /\ {"path", "step", "module", "files", "imports"} \subseteq DOMAIN l
          /\ l.path = top.path /\ l.step = "classes" /\ l.files = Tail(top.files)
          /\ l.module = top.module
      BY <1>1, <1>2, <1>5, <1>14 DEF Replacing
    <2>6. LoadOK(l, files, D, R)
      BY <1>5, <1>6, <1>7, <2>5 DEF LoadOK, Unregistered
    <2>7. LoadsOK(Append(Pop, l), files, D, R)
      BY <1>1, <1>2, <1>3, <2>5, <2>6, SameModule DEF Unregistered
    <2>8. /\ Registered' = R /\ kernelModules' = kernelModules
          /\ installation' = installation /\ phase' = phase
      BY <1>3, <1>18 DEF Registered
    <2>9. LoadsOK(loads', installation', DOMAIN modules', Registered')
      BY <1>3, <1>18, <2>4, <2>7, <2>8
    <2>10. LoaderInv'
      BY <1>3, <1>4, <1>8, <1>9, <2>4, <2>8, <2>9, LoaderKept
    <2> QED
      BY <2>3, <2>10 DEF Inv
  <1> QED
    BY <1>15, <1>16, <1>17, <1>18

(* A number for a new module.                                              *)
LEMMA NewModuleIs ==
  ASSUME NEW D, D \subseteq Nat, IsFiniteSet(D), 0 \in D
  PROVE  Min((1 .. Cardinality(D)) \ D) \in Nat \ D
  <1>1. PICK k : k = Cardinality(D)
    OBVIOUS
  <1>2. k \in Nat
    BY <1>1, FS_CardinalityType
  <1>3. (1 .. k) \ D # {}
    <2> SUFFICES ASSUME 1 .. k \subseteq D PROVE FALSE
      OBVIOUS
    <2>1. 0 .. k \subseteq D
      BY <1>2
    <2>2. Cardinality(0 .. k) = k + 1
      BY <1>2, FS_Interval
    <2>3. Cardinality(0 .. k) <= Cardinality(D)
      BY <2>1, FS_Subset
    <2> QED
      BY <1>1, <1>2, <2>2, <2>3
  <1>4. PICK S : S = (1 .. k) \ D
    OBVIOUS
  <1>5. S \subseteq Nat /\ S # {}
    BY <1>2, <1>3, <1>4
  <1>6. Min(S) \in S
    BY <1>5, MinIn
  <1> QED
    BY <1>1, <1>2, <1>4, <1>6

(* The class of a module is one of its classes, if it has any.             *)
LEMMA ModuleClassNameIs ==
  ASSUME NEW specs, IsFiniteSet(DOMAIN specs), NEW files \in Orders(DOMAIN specs)
  PROVE  /\ files \in Seq(DOMAIN specs)
         /\ ModuleClassName(specs, files) \in DOMAIN specs \cup {Nil}
  <1>1. PICK n, names : n = Cardinality(DOMAIN specs) /\ names = DOMAIN specs
    OBVIOUS
  <1>2. n \in Nat
    BY <1>1, FS_CardinalityType
  <1>3. files \in [1 .. n -> names]
    BY <1>1 DEF Orders
  <1>4. files \in Seq(names)
    BY <1>2, <1>3, SeqDef
  <1>5. PICK found : found = {i \in DOMAIN files : ReachesModule(specs, files[i])}
    OBVIOUS
  <1>6. found \subseteq 1 .. n /\ found \subseteq Nat
    BY <1>2, <1>3, <1>5
  <1>7. found # {} => Min(found) \in found
    BY <1>6, MinIn
  <1>8. ModuleClassName(specs, files) = IF found = {} THEN Nil ELSE files[Min(found)]
    BY <1>5 DEF ModuleClassName
  <1>9. found # {} => files[Min(found)] \in names
    BY <1>3, <1>6, <1>7
  <1> QED
    BY <1>1, <1>4, <1>8, <1>9

(* createModule, when nothing fails.                                       *)
Created(name, module, super, table, order) ==
    /\ symbolTable' = table
    /\ objects' = Over(NewClass(table, module, name, Source.classes[name], super), objects)
    /\ modules' = Over(modules, At(module,
           [path |-> Top.path,
            namespace |-> Over(At(name, ClassIn(module, name)), bindKernelExports),
            extensions |-> <<>>, overriden |-> <<>>]))
    /\ loads' = Append(Pop, [Top EXCEPT !.step = "import", !.module = module,
                                 !.files = Without(name, order), !.imports = Source.imports])
    /\ UNCHANGED <<installation, phase, spec, todo, namespace, symbols, provider,
                    newMd, loadedModules, kernelModules, stopped>>

(* moduleNotFound.                                                         *)
LEMMA ModuleNotFoundKeeps ==
  ASSUME Inv, moduleNotFound
  PROVE  Inv'
  <1>1. loads # <<>> /\ Top.step = "create" /\ Fail
    BY DEF moduleNotFound
  <1>2. PICK top, files, D, R : /\ top = Top /\ files = installation
                                /\ D = DOMAIN modules /\ R = Registered
    OBVIOUS
  <1>3. LoadOK(top, files, D, R) /\ D # {}
    BY <1>1, <1>2, TopIs
  <1>4. top.module = Nil
    BY <1>1, <1>2, <1>3 DEF LoadOK
  <1>5. D \subseteq Nat /\ R \subseteq D
    BY <1>2, <1>3 DEF Inv, LoaderInv, Registered
  <1>6. top.module \notin R
    BY <1>4, <1>5, NilAssumption
  <1> QED
    BY <1>1, <1>2, <1>6, FailKeeps

(* createModule.                                                           *)
LEMMA CreateModuleKeeps ==
  ASSUME Inv, loads # <<>>, NEW order \in Orders(DOMAIN Source.classes), createModule(order)
  PROVE  Inv'
  <1>1. loads # <<>> /\ Top.step = "create" /\ Top.path \in DOMAIN installation.modules
    BY DEF createModule
  <1>2. PICK top : top = Top
    OBVIOUS
  <1>3. PICK files, D, R : files = installation /\ D = DOMAIN modules /\ R = Registered
    OBVIOUS
  <1>4. LoadOK(top, files, D, R) /\ LoadsOK(Pop, files, D, R) /\ D # {}
    BY <1>1, <1>2, <1>3, TopIs
  <1>5. /\ {"path", "step", "module", "files", "imports"} \subseteq DOMAIN top
        /\ top.path \in DOMAIN files.modules /\ top.module = Nil
    BY <1>1, <1>2, <1>3, <1>4 DEF LoadOK, Unregistered
  <1>6. PICK source, specs : source = files.modules[top.path] /\ specs = source.classes
    OBVIOUS
  <1>7. /\ phase = "done" /\ Universe = symbolTable /\ AllFull(objects, symbolTable)
        /\ Unique(symbolTable) /\ installation \in Installations
    BY <1>1, Loading
  <1>8. /\ D \subseteq Nat /\ IsFiniteSet(D) /\ R \subseteq D /\ ModulesOK(modules, Universe)
        /\ Kernel \in D
    BY <1>3, <1>4 DEF Inv, LoaderInv, Registered
  <1>9. ModuleSourceOK(source) /\ source.imports \in Seq(Import)
    BY <1>3, <1>5, <1>6, <1>7, ModuleSource DEF ModuleSourceOK
  <1>10. /\ order \in Seq(DOMAIN specs)
         /\ ModuleClassName(specs, order) \in DOMAIN specs \cup {Nil}
    <2>1. IsFiniteSet(DOMAIN specs)
      BY <1>6, <1>9 DEF ModuleSourceOK
    <2>2. order \in Orders(DOMAIN specs)
      BY <1>2, <1>3, <1>6 DEF Source
    <2> QED
      BY <2>1, <2>2, ModuleClassNameIs
  <1>11. PICK module : module = NewModule
    OBVIOUS
  <1>12. module \in Nat \ D
    BY <1>3, <1>8, <1>11, NewModuleIs DEF NewModule, Kernel
  <1>13. PICK name : name = ModuleClassName(specs, order)
    OBVIOUS
  <1>14. PICK s : s = specs[name]
    OBVIOUS
  <1>15. PICK super : super = NamespaceAt(Kernel, s.supername)
    OBVIOUS
  <1>16. PICK new : new = [path |-> top.path,
                           namespace |-> Over(At(name, ClassIn(module, name)), bindKernelExports),
                           extensions |-> <<>>, overriden |-> <<>>]
    OBVIOUS
  <1>17. PICK l : l = [top EXCEPT !.step = "import", !.module = module,
                                  !.files = Without(name, order), !.imports = source.imports]
    OBVIOUS
  <1>18. \/ Fail
         \/ Stop("no Module subclass")
         \/ Stop("KeyNotFound") \/ Stop("MessageNotUnderstood")
         \/ /\ name # Nil
            /\ symbolTable' = WithSymbols(symbolTable, NamesOf(name, s))
            /\ objects' = Over(NewClass(symbolTable', module, name, s, super), objects)
            /\ modules' = Over(modules, At(module, new))
            /\ loads' = Append(Pop, l)
            /\ UNCHANGED <<installation, phase, spec, todo, namespace, symbols, provider,
                           newMd, loadedModules, kernelModules, stopped>>
    <2>1. Source = source /\ Source.classes = specs
      BY <1>2, <1>3, <1>6 DEF Source
    <2>2. \E n \in {ModuleClassName(Source.classes, order)} :
             \/ Fail
             \/ Stop("no Module subclass")
             \/ /\ n # Nil
                /\ \E above \in {NamespaceAt(Kernel, Source.classes[n].supername)},
                      table \in {WithSymbols(symbolTable, NamesOf(n, Source.classes[n]))} :
                     \/ Stop("KeyNotFound") \/ Stop("MessageNotUnderstood")
                     \/ Fail
                     \/ Created(n, NewModule, above, table, order)
      BY DEF createModule, Created
    <2>3. \/ Fail \/ Stop("no Module subclass") \/ Stop("KeyNotFound")
          \/ Stop("MessageNotUnderstood")
          \/ /\ name # Nil
             /\ Created(name, module, super, WithSymbols(symbolTable, NamesOf(name, s)), order)
      BY <1>11, <1>13, <1>14, <1>15, <2>1, <2>2
    <2> QED
      BY <1>2, <1>14, <1>16, <1>17, <2>1, <2>3 DEF Created
  <1>19. CASE Fail
    BY <1>1, <1>2, <1>3, <1>5, <1>8, <1>19, FailKeeps, NilAssumption
  <1>20. CASE Stop("no Module subclass") \/ Stop("KeyNotFound") \/ Stop("MessageNotUnderstood")
    BY <1>1, <1>20, StopKeeps
  <1>21. CASE /\ name # Nil
              /\ symbolTable' = WithSymbols(symbolTable, NamesOf(name, s))
              /\ objects' = Over(NewClass(symbolTable', module, name, s, super), objects)
              /\ modules' = Over(modules, At(module, new))
              /\ loads' = Append(Pop, l)
              /\ UNCHANGED <<installation, phase, spec, todo, namespace, symbols, provider,
                             newMd, loadedModules, kernelModules, stopped>>
    <2>1. name \in DOMAIN specs
      BY <1>10, <1>13, <1>21
    <2>2. s.methods \in Seq(MethodSpec) /\ s.metaMethods \in Seq(MethodSpec)
      BY <1>6, <1>9, <1>14, <2>1 DEF ModuleSourceOK, ClassSpec
    <2>3. /\ symbolTable \subseteq symbolTable' /\ Unique(symbolTable')
          /\ AllFull(objects', symbolTable')
      BY <1>7, <1>21, <2>2, ClassMade
    <2>4. BootInv' /\ Universe' = symbolTable'
      BY <1>7, <1>21, <2>3, BootKept
    <2>5. ModulesOK(modules', Universe') /\ DOMAIN modules' = D \cup {module}
      <3>1. PICK mods, U, V : mods = modules /\ U = Universe /\ V = Universe'
        OBVIOUS
      <3>2. U \subseteq V /\ ModulesOK(mods, U)
        BY <1>7, <1>8, <2>3, <2>4, <3>1
      <3>3. ModulesOK(mods, V)
        BY <3>2, MoreModules
      <3>4. ModuleOK(new, V)
        <4>1. "extensions" \in DOMAIN new /\ new.extensions = <<>>
          BY <1>16
        <4> QED
          BY <4>1, Emptied DEF ModuleOK, MethodsOK
      <3>5. modules' = Over(mods, At(module, new))
        BY <1>21, <3>1
      <3> QED
        BY <1>3, <3>1, <3>3, <3>4, <3>5 DEF ModulesOK, Over, At
    <2>6. PICK E : E = D \cup {module}
      OBVIOUS
    <2>7. IsFiniteSet(E) /\ E \subseteq Nat /\ R \subseteq E /\ D \subseteq E
      BY <1>8, <1>12, <2>6, FS_AddElement
    <2>8. PICK left : left = Without(name, order)
      OBVIOUS
    <2>9. left \in Seq(DOMAIN specs)
      <3>1. PICK names : names = DOMAIN specs
        OBVIOUS
      <3>2. order \in Seq(names)
        BY <1>10, <3>1
      <3>3. Without(name, order) \in Seq(names)
        BY <3>2, WithoutOK
      <3> QED
        BY <2>8, <3>1, <3>3
    <2>10. /\ {"path", "step", "module", "files", "imports"} \subseteq DOMAIN l
           /\ l.path = top.path /\ l.step = "import" /\ l.files = left
           /\ l.module = module /\ l.imports = source.imports
      BY <1>5, <1>17, <2>8
    <2>11. LoadOK(l, files, E, R)
      BY <1>5, <1>6, <1>8, <1>9, <1>12, <2>6, <2>9, <2>10 DEF LoadOK, Unregistered
    <2>12. ASSUME NEW i \in 1 .. Len(Pop), Pop[i].step \in Unregistered
           PROVE  Pop[i].module \notin R /\ Pop[i].module # l.module
      <3>1. LoadOK(Pop[i], files, D, R)
        BY <1>4 DEF LoadsOK
      <3> QED
        BY <1>12, <2>10, <2>12, <3>1 DEF LoadOK
    <2>13. LoadsOK(Append(Pop, l), files, E, R)
      BY <1>1, <1>3, <2>7, <2>11, <2>12, TopReplaced
    <2>14. /\ Registered' = R /\ kernelModules' = kernelModules
           /\ installation' = installation /\ phase' = phase
      BY <1>3, <1>21 DEF Registered
    <2>15. LoadsOK(loads', installation', DOMAIN modules', Registered')
      BY <1>3, <1>21, <2>5, <2>6, <2>13, <2>14
    <2>16. LoaderInv'
      BY <1>3, <1>4, <1>7, <2>5, <2>6, <2>7, <2>14, <2>15, LoaderKept
    <2> QED
      BY <2>4, <2>16 DEF Inv
  <1> QED
    BY <1>18, <1>19, <1>20, <1>21

-----------------------------------------------------------------------------
(* Extensions.                                                             *)
NamesOfExtensions(extension, bases) ==
    UNION {NamesIn(extension[n].methods \o extension[n].metaMethods) : n \in bases}

(* The extensions of one class.                                            *)
LEMMA ExtensionOfOK ==
  ASSUME NEW table, NEW module, NEW spec1, NEW sp, IsSeq(spec1.methods), IsSeq(spec1.metaMethods),
         \A n \in NamesIn(spec1.methods \o spec1.metaMethods) : DynamicSymbol(table, n) \in table
  PROVE  MethodsOK(ExtensionOf(table, module, spec1, sp), table)
  <1>1. /\ \A n \in NamesIn(spec1.methods) : DynamicSymbol(table, n) \in table
        /\ \A n \in NamesIn(spec1.metaMethods) : DynamicSymbol(table, n) \in table
    BY NamesOfBoth
  <1>2. PICK s, t : /\ s = Extensions(table, module, spec1.methods, sp)
                    /\ t = Extensions(table, module, spec1.metaMethods, Metaclass(sp))
    OBVIOUS
  <1>3. MethodsOK(s, table) /\ MethodsOK(t, table)
    BY <1>1, <1>2, ExtensionsOK
  <1>4. MethodsOK(s \o t, table)
    BY <1>3, ConcatOK
  <1> QED
    BY <1>2, <1>4 DEF ExtensionOf

(* The extensions of all classes that the module knows.                    *)
LEMMA ExtensionsOfOK ==
  ASSUME NEW table, NEW module, NEW extension, NEW bases, IsFiniteSet(bases),
         \A n \in bases : extension[n] \in ExtensionSpec,
         \A n \in NamesOfExtensions(extension, bases) : DynamicSymbol(table, n) \in table
  PROVE  MethodsOK(ExtensionsOf(table, module, extension, bases), table)
  <1>1. PICK of : of = [n \in bases |->
                           ExtensionOf(table, module, extension[n], NamespaceAt(module, n))]
    OBVIOUS
  <1>2. DOMAIN of = bases
    BY <1>1
  <1>3. ASSUME NEW n \in bases PROVE MethodsOK(of[n], table)
    <2>1. PICK spec1, sp : spec1 = extension[n] /\ sp = NamespaceAt(module, n)
      OBVIOUS
    <2>2. of[n] = ExtensionOf(table, module, spec1, sp)
      BY <1>1, <2>1
    <2>3. IsSeq(spec1.methods) /\ IsSeq(spec1.metaMethods)
      BY <2>1, SeqIs DEF ExtensionSpec
    <2>4. \A x \in NamesIn(spec1.methods \o spec1.metaMethods) : DynamicSymbol(table, x) \in table
      BY <2>1 DEF NamesOfExtensions
    <2>5. MethodsOK(ExtensionOf(table, module, spec1, sp), table)
      BY <2>3, <2>4, ExtensionOfOK
    <2> QED
      BY <2>2, <2>5
  <1>4. PICK names : names = SetToSeq(bases)
    OBVIOUS
  <1>5. names \in Seq(DOMAIN of)
    BY <1>2, <1>4, SetToSeqOK
  <1>6. \A n \in DOMAIN of : MethodsOK(of[n], table)
    BY <1>2, <1>3
  <1>7. MethodsOK(Concatenated(of, names), table)
    BY <1>5, <1>6, ConcatAllOK
  <1>8. ExtensionsOf(table, module, extension, bases) = Concatenated(of, names)
    BY <1>1, <1>4 DEF ExtensionsOf
  <1> QED
    BY <1>7, <1>8

(* compileExtensions, when all of them compile.                            *)
ExtensionsCompiled(extension, bases, table) ==
    /\ symbolTable' = table
    /\ modules' = [modules EXCEPT ![Top.module].extensions =
                       ExtensionsOf(table, Top.module, extension, bases)]
    /\ loads' = Append(Pop, [Top EXCEPT !.step = "register"])
    /\ UNCHANGED <<installation, phase, spec, todo, objects, namespace, symbols, provider,
                   newMd, loadedModules, kernelModules, stopped>>

(* A module may be given other extensions.                                 *)
LEMMA ExtensionSlot ==
  ASSUME NEW U, NEW mods, ModulesOK(mods, U), NEW k, NEW v, MethodsOK(v, U),
         NEW mods2, mods2 = Replacing(mods, k, Replacing(mods[k], "extensions", v))
  PROVE  ModulesOK(mods2, U) /\ DOMAIN mods2 = DOMAIN mods
  <1>1. PICK module : module = Replacing(mods[k], "extensions", v)
    OBVIOUS
  <1>2. ASSUME k \in DOMAIN mods PROVE ModuleOK(module, U)
    <2>1. ModuleOK(mods[k], U)
      BY <1>2 DEF ModulesOK
    <2>2. "extensions" \in DOMAIN mods[k]
      BY <2>1 DEF ModuleOK
    <2>3. "extensions" \in DOMAIN module /\ module.extensions = v
      BY <1>1, <2>2, ReplacingOne
    <2> QED
      BY <2>3 DEF ModuleOK
  <1>3. /\ DOMAIN mods2 = DOMAIN mods
        /\ \A x \in DOMAIN mods : mods2[x] = IF x = k THEN module ELSE mods[x]
    BY <1>1, ReplacingOne
  <1> QED
    BY <1>2, <1>3 DEF ModulesOK

(* compileExtensions.                                                      *)
LEMMA CompileExtensionsKeeps ==
  ASSUME Inv, compileExtensions
  PROVE  Inv'
  <1>1. loads # <<>> /\ Top.step = "classes"
    BY DEF compileExtensions
  <1>2. PICK top : top = Top
    OBVIOUS
  <1>3. PICK files, D, R : files = installation /\ D = DOMAIN modules /\ R = Registered
    OBVIOUS
  <1>4. LoadOK(top, files, D, R) /\ D # {}
    BY <1>1, <1>2, <1>3, TopIs
  <1>5. /\ {"path", "step", "module", "files", "imports"} \subseteq DOMAIN top
        /\ top.path \in DOMAIN files.modules /\ top.module \in D \ R
    BY <1>1, <1>2, <1>4 DEF LoadOK, Unregistered
  <1>6. /\ phase = "done" /\ Universe = symbolTable /\ AllFull(objects, symbolTable)
        /\ Unique(symbolTable) /\ installation \in Installations
    BY <1>1, Loading
  <1>7. /\ D \subseteq Nat /\ IsFiniteSet(D) /\ R \subseteq D /\ ModulesOK(modules, Universe)
    BY <1>3, <1>4 DEF Inv, LoaderInv, Registered
  <1>8. PICK extension : extension = Source.extensions
    OBVIOUS
  <1>9. IsFiniteSet(DOMAIN extension) /\ \A n \in DOMAIN extension : extension[n] \in ExtensionSpec
    BY <1>2, <1>3, <1>5, <1>6, <1>8, ModuleSource DEF ModuleSourceOK, Source
  <1>10. PICK bases : bases = {n \in DOMAIN extension : NamespaceAt(Top.module, n) # Nil}
    OBVIOUS
  <1>11. IsFiniteSet(bases) /\ \A n \in bases : extension[n] \in ExtensionSpec
    BY <1>9, <1>10, FS_Subset
  <1>12. PICK names : names = bases \cup NamesOfExtensions(extension, bases)
    OBVIOUS
  <1>13. PICK before, table : before = symbolTable /\ table = WithSymbols(before, names)
    OBVIOUS
  <1>14. /\ before \subseteq table /\ Unique(table)
         /\ \A n \in names : DynamicSymbol(table, n) \in table
    BY <1>6, <1>13, WithSymbolsOK
  <1>15. Fail \/ Stop("MessageNotUnderstood") \/ ExtensionsCompiled(extension, bases, table)
    BY <1>8, <1>10, <1>12, <1>13 DEF compileExtensions, ExtensionsCompiled, NamesOfExtensions
  <1>16. CASE Fail
    BY <1>1, <1>2, <1>3, <1>5, <1>16, FailKeeps
  <1>17. CASE ExtensionsCompiled(extension, bases, table)
    <2>2. PICK v : v = ExtensionsOf(table, top.module, extension, bases)
      OBVIOUS
    <2>3. \A n \in NamesOfExtensions(extension, bases) : DynamicSymbol(table, n) \in table
      BY <1>12, <1>14
    <2>4. MethodsOK(v, table)
      BY <1>11, <2>2, <2>3, ExtensionsOfOK
    <2>5. PICK l : l = Replacing(top, "step", "register")
      OBVIOUS
    <2>6. /\ symbolTable' = table /\ loads' = Append(Pop, l)
          /\ UNCHANGED <<installation, phase, spec, todo, objects, namespace, symbols, provider,
                         newMd, loadedModules, kernelModules, stopped>>
      BY <1>2, <1>17, <2>5 DEF ExtensionsCompiled, Replacing
    <2>7. modules' = Replacing(modules, top.module, Replacing(modules[top.module], "extensions", v))
      <3>1. modules' = [modules EXCEPT ![top.module].extensions = v]
        BY <1>2, <1>17, <2>2 DEF ExtensionsCompiled
      <3> QED
        BY <3>1 DEF Replacing
    <2>8. AllFull(objects', symbolTable')
      BY <1>6, <1>13, <1>14, <2>6, MoreFull
    <2>9. BootInv' /\ Universe' = symbolTable'
      BY <1>6, <1>13, <1>14, <2>6, <2>8, BootKept
    <2>10. ModulesOK(modules', Universe') /\ DOMAIN modules' = D
      <3>1. PICK mods, mods2, k : mods = modules /\ mods2 = modules' /\ k = top.module
        OBVIOUS
      <3>2. before \subseteq table /\ ModulesOK(mods, before)
        BY <1>6, <1>7, <1>13, <1>14, <3>1
      <3>3. ModulesOK(mods, table)
        BY <3>2, MoreModules
      <3>4. mods2 = Replacing(mods, k, Replacing(mods[k], "extensions", v))
        BY <2>7, <3>1
      <3>5. ModulesOK(mods2, table) /\ DOMAIN mods2 = DOMAIN mods
        BY <2>4, <3>3, <3>4, ExtensionSlot
      <3> QED
        BY <1>3, <2>6, <2>9, <3>1, <3>5
    <2>11. /\ {"path", "step", "module", "files", "imports"} \subseteq DOMAIN l
           /\ l.path = top.path /\ l.step = "register" /\ l.module = top.module
      BY <1>5, <2>5 DEF Replacing
    <2>12. LoadOK(l, files, D, R)
      BY <1>5, <2>11 DEF LoadOK, Unregistered
    <2>13. LoadsOK(Append(Pop, l), files, D, R)
      BY <1>1, <1>2, <1>3, <2>11, <2>12, SameModule DEF Unregistered
    <2>14. /\ Registered' = R /\ kernelModules' = kernelModules
           /\ installation' = installation /\ phase' = phase
      BY <1>3, <2>6 DEF Registered
    <2>15. LoadsOK(loads', installation', DOMAIN modules', Registered')
      BY <1>3, <2>6, <2>10, <2>13, <2>14
    <2>16. LoaderInv'
      BY <1>3, <1>4, <1>6, <1>7, <2>10, <2>14, <2>15, LoaderKept
    <2> QED
      BY <2>9, <2>16 DEF Inv
  <1>18. CASE Stop("MessageNotUnderstood")
    BY <1>1, <1>18, StopKeeps
  <1> QED
    BY <1>15, <1>16, <1>17, <1>18

(* justLoaded.                                                             *)
LEMMA JustLoadedKeeps ==
  ASSUME Inv, justLoaded
  PROVE  Inv'
  <1>1. /\ loads # <<>> /\ Top.step = "justLoaded" /\ loads' = Pop
        /\ kernelModules' = Over(At(Top.path, Top.module), kernelModules)
        /\ UNCHANGED <<installation, phase, spec, todo, namespace, symbols, symbolTable, provider,
                       newMd, loadedModules, stopped>>
    BY DEF justLoaded
  <1>2. PICK top : top = Top
    OBVIOUS
  <1>3. PICK files, D, R : files = installation /\ D = DOMAIN modules /\ R = Registered
    OBVIOUS
  <1>4. LoadOK(top, files, D, R) /\ LoadsOK(Pop, files, D, R) /\ D # {}
    BY <1>1, <1>2, <1>3, TopIs
  <1>5. top.module \in D
    BY <1>1, <1>2, <1>4 DEF LoadOK, Unregistered
  <1>6. /\ phase = "done" /\ Universe = symbolTable /\ AllFull(objects, symbolTable)
        /\ Unique(symbolTable)
    BY <1>1, Loading
  <1>7. /\ D \subseteq Nat /\ IsFiniteSet(D) /\ R \subseteq D /\ ModulesOK(modules, Universe)
    BY <1>3, <1>4 DEF Inv, LoaderInv, Registered
  <1>8. PICK U, objs, mods, extensions : /\ U = symbolTable /\ objs = objects /\ mods = modules
                                         /\ extensions = mods[top.module].extensions
    OBVIOUS
  <1>9. PICK bound : bound = Folded(BindExtension, [objects |-> objs, modules |-> mods], extensions)
    OBVIOUS
  <1>10. objects' = bound.objects /\ modules' = bound.modules
    BY <1>2, <1>8, <1>9 DEF justLoaded
  <1>11. AllFull(objs, U) /\ ModulesOK(mods, U) /\ MethodsOK(extensions, U)
    BY <1>3, <1>5, <1>6, <1>7, <1>8 DEF ModulesOK, ModuleOK
  <1>12. AllFull(bound.objects, U) /\ ModulesOK(bound.modules, U) /\ DOMAIN bound.modules = DOMAIN mods
    BY <1>9, <1>11, BoundAll
  <1>13. AllFull(objects', symbolTable')
    BY <1>1, <1>8, <1>10, <1>12
  <1>14. BootInv' /\ Universe' = symbolTable'
    BY <1>1, <1>6, <1>13, BootKept
  <1>15. ModulesOK(modules', Universe') /\ DOMAIN modules' = D
    BY <1>1, <1>3, <1>8, <1>10, <1>12, <1>14
  <1>16. Registered' = R /\ DOMAIN kernelModules \subseteq DOMAIN kernelModules'
    BY <1>1, <1>3 DEF Registered, Over
  <1>17. LoadsOK(loads', installation', DOMAIN modules', Registered')
    BY <1>1, <1>3, <1>4, <1>15, <1>16
  <1>18. LoaderInv'
    BY <1>1, <1>3, <1>4, <1>6, <1>7, <1>15, <1>16, <1>17, LoaderKept
  <1> QED
    BY <1>14, <1>18 DEF Inv

-----------------------------------------------------------------------------
(* The invariant holds at first, and every step keeps it.                  *)
LEMMA InitInv ==
  ASSUME LoaderInit PROVE Inv
  <1> USE DEF LoaderInit, BootInit
  <1>1. DOMAIN objects = {} /\ DOMAIN symbols = {} /\ symbolTable = {} /\ Range(symbols) = {}
    BY DEF Range
  <1>2. Universe = {}
    BY <1>1 DEF Universe
  <1>3. SpecInv /\ SymbolInv /\ ObjectInv /\ SpeciesInv /\ NewMdInv
    BY <1>1, <1>2 DEF SpecInv, SymbolInv, ObjectInv, SpeciesInv, NewMdInv, Unique
  <1>4. DOMAIN modules = {} /\ Range(loadedModules) = {} /\ loads = <<>>
    BY DEF Range
  <1>5. IsFiniteSet(DOMAIN modules)
    BY <1>4, FS_EmptySet
  <1>6. LoadsOK(loads, installation, DOMAIN modules, Registered)
    BY <1>4, NoLoads
  <1>7. LoaderInv
    BY <1>4, <1>5, <1>6 DEF LoaderInv, ModulesOK
  <1> QED
    BY <1>3, <1>7 DEF Inv, BootInv

(* One lemma for each action says so.                                      *)
LEMMA StepKeeps ==
  ASSUME Inv, [Next]_vars
  PROVE  Inv'
  <1>1. CASE BootNext /\ UNCHANGED loaderVars
    BY <1>1, BootstrapKeeps
  <1>2. CASE loadKernel
    BY <1>2, LoadKernelKeeps
  <1>3. CASE \E path \in DOMAIN installation.modules : load(path)
    BY <1>3, LoadKeeps
  <1>4. CASE /\ loads # <<>> /\ Top.path \in DOMAIN installation.modules
             /\ \E files \in Orders(DOMAIN Source.classes) : createModule(files)
    BY <1>4, CreateModuleKeeps
  <1>5. CASE \/ moduleNotFound \/ importRequired \/ sortClasses \/ createClass
             \/ compileExtensions \/ register \/ justLoaded
    BY <1>5, ModuleNotFoundKeeps, ImportRequiredKeeps, SortClassesKeeps, CreateClassKeeps, CompileExtensionsKeeps,
       RegisterKeeps, JustLoadedKeeps
  <1>6. CASE UNCHANGED vars
    BY <1>6 DEF vars, Inv, BootInv, LoaderInv, SpecInv, SymbolInv, ObjectInv, SpeciesInv,
                NewMdInv, Universe, Registered
  <1> QED
    BY <1>1, <1>2, <1>3, <1>4, <1>5, <1>6 DEF Next, LoadNext

(* Methods, dictionaries and the symbol table never refer to two symbols   *)
(* of the same name: not while the Bootstrapper's symbols are handed over  *)
(* one by one (fillSymbolTable, switchToDynamicSymbolProvider_), nor while *)
(* behaviors are converted, nor when modules are loaded and add symbols    *)
(* and extensions, nor when a load fails half way.  For all installations: *)
(* any number of classes, methods, modules and extensions.                 *)
THEOREM LookupsCompareIdentities == Spec => []SymbolsUnique
  <1>1. LoaderInit => Inv
    BY InitInv
  <1>2. Inv /\ [Next]_vars => Inv'
    BY StepKeeps
  <1>3. Inv => SymbolsUnique
    BY InvImpliesUnique
  <1> QED
    BY <1>1, <1>2, <1>3, PTL DEF Spec

-----------------------------------------------------------------------------
(* The pairs of a dictionary, as a set.                                    *)
KeyOf(pair) == pair[1].name
PairsOf(pairs) == {pairs[i] : i \in 1 .. Len(pairs)}
OneEach(pairs) == \A i, j \in 1 .. Len(pairs) : KeyOf(pairs[i]) = KeyOf(pairs[j]) => i = j
WithoutName(P, name) == {x \in P : KeyOf(x) # name}

(* The place of a selector among the pairs.                                *)
LEMMA PositionIs ==
  ASSUME NEW U, Unique(U), NEW pairs, PairsOK(pairs, U), NEW s \in U
  PROVE  /\ PositionOf(pairs, s) \in Nat
         /\ PositionOf(pairs, s) = 0 <=> \A x \in PairsOf(pairs) : KeyOf(x) # s.name
         /\ PositionOf(pairs, s) # 0 => /\ PositionOf(pairs, s) \in 1 .. Len(pairs)
                                        /\ KeyOf(pairs[PositionOf(pairs, s)]) = s.name
  <1>1. PICK at : at = {i \in DOMAIN pairs : pairs[i][1] = s}
    OBVIOUS
  <1>2. DOMAIN pairs = 1 .. Len(pairs) /\ Len(pairs) \in Nat
    BY DEF PairsOK, IsSeq
  <1>3. \A i \in 1 .. Len(pairs) : pairs[i][1] \in U
    BY DEF PairsOK
  <1>4. \A i \in 1 .. Len(pairs) : i \in at <=> KeyOf(pairs[i]) = s.name
    BY <1>1, <1>2, <1>3 DEF Unique, KeyOf
  <1>5. at \subseteq 1 .. Len(pairs)
    BY <1>1, <1>2
  <1>6. PositionOf(pairs, s) = IF at = {} THEN 0 ELSE Min(at)
    BY <1>1 DEF PositionOf
  <1>7. at # {} => Min(at) \in at
    <2>1. at \subseteq Nat
      BY <1>2, <1>5
    <2> QED
      BY <2>1, MinIn
  <1>8. at = {} <=> \A x \in PairsOf(pairs) : KeyOf(x) # s.name
    BY <1>4, <1>5 DEF PairsOf
  <1>9. at # {} => Min(at) \in 1 .. Len(pairs) /\ Min(at) # 0
    <2>1. at # {} => Min(at) \in 1 .. Len(pairs)
      BY <1>5, <1>7
    <2>2. 0 \notin 1 .. Len(pairs)
      BY <1>2
    <2> QED
      BY <2>1, <2>2
  <1> QED
    BY <1>4, <1>5, <1>6, <1>7, <1>8, <1>9

(* at:put: of a selector: its pair takes the place of the one that is      *)
(* there, all others stay.                                                 *)
LEMMA PutIs ==
  ASSUME NEW U, Unique(U), NEW pairs, PairsOK(pairs, U), OneEach(pairs), NEW s \in U, NEW m,
         NEW all, all = AtPut(pairs, s, m)
  PROVE  /\ OneEach(all) /\ IsSeq(all)
         /\ PairsOf(all) = WithoutName(PairsOf(pairs), s.name) \cup {<<s, m>>}
         /\ Len(all) = IF PositionOf(pairs, s) = 0 THEN Len(pairs) + 1 ELSE Len(pairs)
  <1>1. PICK k, e, n : k = PositionOf(pairs, s) /\ e = <<s, m>> /\ n = Len(pairs)
    OBVIOUS
  <1>2. IsSeq(pairs) /\ n \in Nat /\ k \in Nat /\ KeyOf(e) = s.name
    BY <1>1, PositionIs DEF PairsOK, IsSeq, KeyOf
  <1>3. k = 0 <=> \A x \in PairsOf(pairs) : KeyOf(x) # s.name
    BY <1>1, PositionIs
  <1>4. CASE k = 0
    <2>1. all = Append(pairs, e)
      BY <1>1, <1>4 DEF AtPut
    <2>2. /\ IsSeq(all) /\ Len(all) = n + 1
          /\ \A i \in 1 .. n + 1 : all[i] = IF i = n + 1 THEN e ELSE pairs[i]
      BY <1>1, <1>2, <2>1, Appended
    <2>3. \A i \in 1 .. n : all[i] = pairs[i] /\ KeyOf(pairs[i]) # s.name
      BY <1>1, <1>2, <1>3, <1>4, <2>2 DEF PairsOf
    <2>4. all[n + 1] = e
      BY <1>2, <2>2
    <2>5. OneEach(all)
      <3>1. SUFFICES ASSUME NEW i \in 1 .. n + 1, NEW j \in 1 .. n + 1, KeyOf(all[i]) = KeyOf(all[j])
                     PROVE  i = j
        BY <2>2 DEF OneEach
      <3>2. i = n + 1 \/ i \in 1 .. n
        BY <1>2
      <3>3. j = n + 1 \/ j \in 1 .. n
        BY <1>2
      <3> QED
        BY <1>1, <1>2, <2>3, <2>4, <3>1, <3>2, <3>3 DEF OneEach
    <2>6. PairsOf(all) = WithoutName(PairsOf(pairs), s.name) \cup {e}
      <3>1. ASSUME NEW x \in PairsOf(all) PROVE x \in WithoutName(PairsOf(pairs), s.name) \cup {e}
        <4>1. PICK i \in 1 .. n + 1 : x = all[i]
          BY <2>2 DEF PairsOf
        <4>2. i = n + 1 \/ i \in 1 .. n
          BY <1>2
        <4> QED
          BY <1>1, <2>3, <2>4, <4>1, <4>2 DEF PairsOf, WithoutName
      <3>2. ASSUME NEW x \in WithoutName(PairsOf(pairs), s.name) PROVE x \in PairsOf(all)
        <4>1. PICK i \in 1 .. n : x = pairs[i]
          BY <1>1 DEF PairsOf, WithoutName
        <4>2. i \in 1 .. n + 1 /\ all[i] = x
          BY <1>2, <2>3, <4>1
        <4> QED
          BY <2>2, <4>2 DEF PairsOf
      <3>3. e \in PairsOf(all)
        <4>1. n + 1 \in 1 .. n + 1
          BY <1>2
        <4> QED
          BY <2>2, <2>4, <4>1 DEF PairsOf
      <3> QED
        BY <3>1, <3>2, <3>3
    <2> QED
      BY <1>1, <1>4, <2>2, <2>5, <2>6
  <1>5. CASE k # 0
    <2>1. all = Replaced(pairs, k, e)
      BY <1>1, <1>5 DEF AtPut, Replaced
    <2>2. /\ IsSeq(all) /\ Len(all) = n
          /\ \A i \in 1 .. n : all[i] = IF i = k THEN e ELSE pairs[i]
      BY <1>1, <1>2, <2>1, Updated
    <2>3. k \in 1 .. n /\ KeyOf(pairs[k]) = s.name
      BY <1>1, <1>5, PositionIs
    <2>4. \A i \in 1 .. n : KeyOf(all[i]) = KeyOf(pairs[i])
      BY <1>2, <2>2, <2>3
    <2>5. OneEach(all)
      BY <1>1, <2>2, <2>4 DEF OneEach
    <2>6. PairsOf(all) = WithoutName(PairsOf(pairs), s.name) \cup {e}
      <3>1. ASSUME NEW x \in PairsOf(all) PROVE x \in WithoutName(PairsOf(pairs), s.name) \cup {e}
        <4>1. PICK i \in 1 .. n : x = all[i]
          BY <2>2 DEF PairsOf
        <4>2. i # k => KeyOf(pairs[i]) # s.name
          BY <1>1, <2>3 DEF OneEach
        <4> QED
          BY <1>1, <2>2, <4>1, <4>2 DEF PairsOf, WithoutName
      <3>2. ASSUME NEW x \in WithoutName(PairsOf(pairs), s.name) PROVE x \in PairsOf(all)
        <4>1. PICK i \in 1 .. n : x = pairs[i] /\ KeyOf(pairs[i]) # s.name
          BY <1>1 DEF PairsOf, WithoutName
        <4>2. i # k /\ all[i] = x
          BY <2>2, <2>3, <4>1
        <4> QED
          BY <2>2, <4>2 DEF PairsOf
      <3>3. e \in PairsOf(all)
        BY <2>2, <2>3 DEF PairsOf
      <3> QED
        BY <3>1, <3>2, <3>3
    <2> QED
      BY <1>1, <1>5, <2>2, <2>5, <2>6
  <1> QED
    BY <1>4, <1>5

(* A method found is that of a pair with the selector.                     *)
MethodAt(pairs, s) == IF PositionOf(pairs, s) = 0 THEN Nil ELSE pairs[PositionOf(pairs, s)][2]
LEMMA MethodAtIs ==
  ASSUME NEW U, Unique(U), NEW pairs, PairsOK(pairs, U), NEW s \in U,
         \A x \in PairsOf(pairs) : x[2] \in Method
  PROVE  /\ MethodAt(pairs, s) = Nil <=> \A x \in PairsOf(pairs) : KeyOf(x) # s.name
         /\ MethodAt(pairs, s) # Nil =>
               \E x \in PairsOf(pairs) : KeyOf(x) = s.name /\ MethodAt(pairs, s) = x[2]
  <1>1. PICK k : k = PositionOf(pairs, s)
    OBVIOUS
  <1>2. /\ k = 0 <=> \A x \in PairsOf(pairs) : KeyOf(x) # s.name
        /\ k # 0 => k \in 1 .. Len(pairs) /\ KeyOf(pairs[k]) = s.name
    BY <1>1, PositionIs
  <1>3. k # 0 => pairs[k] \in PairsOf(pairs)
    BY <1>2 DEF PairsOf
  <1>4. k # 0 => pairs[k][2] # Nil
    BY <1>3, NilAssumption
  <1>5. MethodAt(pairs, s) = IF k = 0 THEN Nil ELSE pairs[k][2]
    BY <1>1 DEF MethodAt
  <1> QED
    BY <1>2, <1>3, <1>4, <1>5

-----------------------------------------------------------------------------
(* The methods of a species in the sources: selectors and, of the last     *)
(* method for each that compiles, the source.                              *)
IsLast(methods, k, i) ==
    /\ methods[i].compiles
    /\ \A j \in 1 .. k : j > i /\ methods[j].selector = methods[i].selector => ~methods[j].compiles
LastOf(methods, k) ==
    {<<methods[i].selector, methods[i].source>> : i \in {x \in 1 .. k : IsLast(methods, k, x)}}
LastOnes(methods) == LastOf(methods, Len(methods))
Redefined(defined, selector, source) ==
    {d \in defined : d[1] # selector} \cup {<<selector, source>>}

(* One method more.                                                        *)
LEMMA LastOfNext ==
  ASSUME NEW methods, NEW k \in Nat, NEW m, m = methods[k + 1]
  PROVE  LastOf(methods, k + 1) =
            IF m.compiles THEN Redefined(LastOf(methods, k), m.selector, m.source)
            ELSE LastOf(methods, k)
  <1>1. \A i \in 1 .. k + 1 : i = k + 1 \/ i \in 1 .. k
    OBVIOUS
  <1>2. k + 1 \in 1 .. k + 1 /\ 1 .. k \subseteq 1 .. k + 1 /\ k + 1 \notin 1 .. k
    OBVIOUS
  <1>3. \A i \in 1 .. k : k + 1 > i
    OBVIOUS
  <1>4. \A i \in 1 .. k : IsLast(methods, k + 1, i)
            <=> IsLast(methods, k, i) /\ (m.compiles => m.selector # methods[i].selector)
    <2>1. SUFFICES ASSUME NEW i \in 1 .. k
                   PROVE  IsLast(methods, k + 1, i)
                            <=> IsLast(methods, k, i) /\ (m.compiles => m.selector # methods[i].selector)
      OBVIOUS
    <2> QED
      BY <1>1, <1>2, <1>3 DEF IsLast
  <1>5. IsLast(methods, k + 1, k + 1) <=> m.compiles
    <2>1. \A j \in 1 .. k + 1 : ~(j > k + 1)
      OBVIOUS
    <2> QED
      BY <2>1 DEF IsLast
  <1>6. ASSUME NEW d
        PROVE  d \in LastOf(methods, k + 1) <=>
                 \/ d \in LastOf(methods, k) /\ (m.compiles => d[1] # m.selector)
                 \/ m.compiles /\ d = <<m.selector, m.source>>
    <2>1. ASSUME d \in LastOf(methods, k + 1)
          PROVE  \/ d \in LastOf(methods, k) /\ (m.compiles => d[1] # m.selector)
                 \/ m.compiles /\ d = <<m.selector, m.source>>
      <3>1. PICK i \in 1 .. k + 1 : IsLast(methods, k + 1, i)
                                    /\ d = <<methods[i].selector, methods[i].source>>
        BY <2>1 DEF LastOf
      <3>2. CASE i = k + 1
        BY <1>5, <3>1, <3>2
      <3>3. CASE i \in 1 .. k
        <4>1. IsLast(methods, k, i) /\ (m.compiles => m.selector # methods[i].selector)
          BY <1>4, <3>1, <3>3
        <4>2. d[1] = methods[i].selector
          BY <3>1
        <4> QED
          BY <3>1, <3>3, <4>1, <4>2 DEF LastOf
      <3> QED
        BY <1>1, <3>2, <3>3
    <2>2. ASSUME d \in LastOf(methods, k), m.compiles => d[1] # m.selector
          PROVE  d \in LastOf(methods, k + 1)
      <3>1. PICK i \in 1 .. k : IsLast(methods, k, i)
                                /\ d = <<methods[i].selector, methods[i].source>>
        BY <2>2 DEF LastOf
      <3>2. d[1] = methods[i].selector
        BY <3>1
      <3>3. IsLast(methods, k + 1, i) /\ i \in 1 .. k + 1
        BY <1>2, <1>4, <2>2, <3>1, <3>2
      <3> QED
        BY <3>1, <3>3 DEF LastOf
    <2>3. ASSUME m.compiles, d = <<m.selector, m.source>> PROVE d \in LastOf(methods, k + 1)
      BY <1>2, <1>5, <2>3 DEF LastOf
    <2> QED
      BY <2>1, <2>2, <2>3
  <1> QED
    BY <1>6 DEF Redefined

(* Before the first method there is none.                                  *)
LEMMA LastOfNone == ASSUME NEW methods PROVE LastOf(methods, 0) = {}
  BY DEF LastOf
-----------------------------------------------------------------------------
(* The pairs of a dictionary are the methods that the sources define, and  *)
(* those of modules that extend the species.                               *)
Answers(x, sp, defined, extended) ==
    /\ x = <<x[1], x[2]>> /\ x[2] \in Method /\ x[2].class = sp /\ x[2].selector = x[1]
    /\ IF \E e \in extended : e[1] = KeyOf(x)
       THEN <<KeyOf(x), x[2].module>> \in extended
       ELSE <<KeyOf(x), x[2].source>> \in defined /\ x[2].module = sp.module
Says(pairs, sp, defined, extended) ==
    /\ OneEach(pairs)
    /\ \A x \in PairsOf(pairs) : Answers(x, sp, defined, extended)
    /\ \A d \in defined : \E x \in PairsOf(pairs) : KeyOf(x) = d[1]
    /\ \A e \in extended : \E x \in PairsOf(pairs) : KeyOf(x) = e[1]

(* Nothing is in a dictionary for nothing.                                 *)
LEMMA NothingSaid == ASSUME NEW sp, NEW pairs, pairs = <<>>
                     PROVE Says(pairs, sp, {}, {}) /\ PairsOf(pairs) = {}
  <1>1. Len(pairs) = 0
    BY Emptied
  <1>2. 1 .. Len(pairs) = {}
    BY <1>1
  <1> QED
    BY <1>2 DEF Says, PairsOf, OneEach

(* The method of a later definition takes the place of an earlier one.     *)
LEMMA PutDefined ==
  ASSUME NEW U, Unique(U), NEW pairs, PairsOK(pairs, U), NEW sp, NEW defined, NEW more,
         Says(pairs, sp, defined, {}),
         NEW s \in U, NEW m \in Method, m.class = sp, m.module = sp.module, m.selector = s,
         more = Redefined(defined, s.name, m.source)
  PROVE  Says(AtPut(pairs, s, m), sp, more, {})
  <1>1. PICK all, e : all = AtPut(pairs, s, m) /\ e = <<s, m>>
    OBVIOUS
  <1>2. OneEach(all) /\ PairsOf(all) = WithoutName(PairsOf(pairs), s.name) \cup {e}
    BY <1>1, PutIs DEF Says
  <1>3. e = <<e[1], e[2]>> /\ e[1] = s /\ e[2] = m /\ KeyOf(e) = s.name /\ e \in PairsOf(all)
    BY <1>1, <1>2 DEF KeyOf
  <1>4. PICK last : last = <<s.name, m.source>>
    OBVIOUS
  <1>m. \A d : d \in more <=> (d = last \/ (d \in defined /\ d[1] # s.name))
    BY <1>4 DEF Redefined
  <1>5. last[1] = s.name /\ last \in more
    BY <1>4, <1>m
  <1>6. ASSUME NEW x \in PairsOf(all) PROVE Answers(x, sp, more, {})
    <2>1. CASE x = e
      BY <1>3, <1>4, <1>5, <2>1 DEF Answers
    <2>2. CASE x \in WithoutName(PairsOf(pairs), s.name)
      <3>1. Answers(x, sp, defined, {}) /\ KeyOf(x) # s.name
        BY <2>2 DEF WithoutName, Says
      <3>2. PICK d : d = <<KeyOf(x), x[2].source>>
        OBVIOUS
      <3>3. d \in defined /\ d[1] = KeyOf(x)
        BY <3>1, <3>2 DEF Answers
      <3>4. d \in more
        BY <1>m, <3>1, <3>3
      <3> QED
        BY <3>1, <3>2, <3>4 DEF Answers
    <2> QED
      BY <1>2, <2>1, <2>2
  <1>7. ASSUME NEW d \in more PROVE \E x \in PairsOf(all) : KeyOf(x) = d[1]
    <2>1. CASE d = last
      BY <1>3, <1>5, <2>1
    <2>2. CASE d \in defined /\ d[1] # s.name
      <3>1. PICK x \in PairsOf(pairs) : KeyOf(x) = d[1]
        BY <2>2 DEF Says
      <3>2. x \in PairsOf(all)
        BY <1>2, <2>2, <3>1 DEF WithoutName
      <3> QED
        BY <3>1, <3>2
    <2> QED
      BY <1>m, <2>1, <2>2
  <1> QED
    BY <1>1, <1>2, <1>6, <1>7 DEF Says

(* So does the method of an extension.                                     *)
LEMMA PutExtended ==
  ASSUME NEW U, Unique(U), NEW pairs, PairsOK(pairs, U), NEW sp, NEW defined, NEW extended, NEW more,
         Says(pairs, sp, defined, extended),
         NEW s \in U, NEW m \in Method, m.class = sp, m.selector = s,
         more = extended \cup {<<s.name, m.module>>}
  PROVE  Says(AtPut(pairs, s, m), sp, defined, more)
  <1>1. PICK all, e : all = AtPut(pairs, s, m) /\ e = <<s, m>>
    OBVIOUS
  <1>2. OneEach(all) /\ PairsOf(all) = WithoutName(PairsOf(pairs), s.name) \cup {e}
    BY <1>1, PutIs DEF Says
  <1>3. e = <<e[1], e[2]>> /\ e[1] = s /\ e[2] = m /\ KeyOf(e) = s.name /\ e \in PairsOf(all)
    BY <1>1, <1>2 DEF KeyOf
  <1>4. PICK last : last = <<s.name, m.module>>
    OBVIOUS
  <1>5. last[1] = s.name /\ last \in more
    BY <1>4
  <1>6. ASSUME NEW x \in PairsOf(all) PROVE Answers(x, sp, defined, more)
    <2>1. CASE x = e
      BY <1>3, <1>4, <1>5, <2>1 DEF Answers
    <2>2. CASE x \in WithoutName(PairsOf(pairs), s.name)
      <3>1. Answers(x, sp, defined, extended) /\ KeyOf(x) # s.name
        BY <2>2 DEF WithoutName, Says
      <3>2. (\E y \in extended : y[1] = KeyOf(x)) <=> (\E y \in more : y[1] = KeyOf(x))
        BY <1>4, <1>5, <3>1
      <3>3. extended \subseteq more
        OBVIOUS
      <3> QED
        BY <3>1, <3>2, <3>3 DEF Answers
    <2> QED
      BY <1>2, <2>1, <2>2
  <1>7. ASSUME NEW n, \E x \in PairsOf(pairs) : KeyOf(x) = n
        PROVE  \E x \in PairsOf(all) : KeyOf(x) = n
    <2>1. CASE n = s.name
      BY <1>3, <2>1
    <2>2. CASE n # s.name
      BY <1>2, <1>7, <2>2 DEF WithoutName
    <2> QED
      BY <2>1, <2>2
  <1>8. ASSUME NEW d \in defined PROVE \E x \in PairsOf(all) : KeyOf(x) = d[1]
    BY <1>7 DEF Says
  <1>9. ASSUME NEW d \in more PROVE \E x \in PairsOf(all) : KeyOf(x) = d[1]
    <2>1. CASE d = last
      BY <1>3, <1>5, <2>1
    <2>2. CASE d \in extended
      BY <1>7, <2>2 DEF Says
    <2> QED
      BY <1>4, <2>1, <2>2
  <1> QED
    BY <1>1, <1>2, <1>6, <1>8, <1>9 DEF Says

-----------------------------------------------------------------------------
(* What is compiled is a method.                                           *)
Knows(known, names, U) ==
    /\ U \subseteq Symbol
    /\ names \subseteq DOMAIN known
    /\ \A n \in DOMAIN known : known[n] \in U /\ known[n].name = n

(* createNewMethod_ makes a method of the species, of its symbol and of    *)
(* the source.                                                             *)
LEMMA CompiledIs ==
  ASSUME NEW U, NEW known, NEW m \in MethodSpec, Knows(known, NamesOfMethod(m), U),
         NEW sp \in Species, NEW module \in Nat,
         NEW method, method = CompiledMethod(known, sp, m, module)
  PROVE  /\ method \in Method /\ method.class = sp /\ method.module = module
         /\ method.source = m.source /\ method.selector = known[m.selector]
         /\ method.selector \in U /\ method.selector.name = m.selector
  <1>1. m.selector \in DOMAIN known
    BY DEF NamesOfMethod, Knows
  <1>2. known[m.selector] \in U /\ known[m.selector].name = m.selector /\ U \subseteq Symbol
    BY <1>1 DEF Knows
  <1>3. m.source \in STRING /\ m.literals \in Seq(STRING)
    BY DEF MethodSpec
  <1>4. PICK literals : literals = LiteralsOf(known, m)
    OBVIOUS
  <1>5. literals \in Seq(Symbol \cup STRING)
    <2>1. DOMAIN m.literals = 1 .. Len(m.literals) /\ Len(m.literals) \in Nat
      BY <1>3, LenProperties
    <2>2. ASSUME NEW i \in 1 .. Len(m.literals)
          PROVE  transferLiteral(known, m.literals[i]) \in Symbol \cup STRING
      <3>1. m.literals[i] \in STRING
        BY <1>3, <2>2, SeqIs
      <3> QED
        BY <1>2, <3>1 DEF transferLiteral, Knows
    <2>3. literals = [i \in 1 .. Len(m.literals) |-> transferLiteral(known, m.literals[i])]
      BY <1>4, <2>1 DEF LiteralsOf
    <2>4. literals \in [1 .. Len(m.literals) -> Symbol \cup STRING]
      BY <2>2, <2>3
    <2> QED
      BY <2>1, <2>4, SeqDef
  <1>6. method = [class |-> sp, selector |-> known[m.selector], source |-> m.source,
                  module |-> module, literals |-> literals]
    BY <1>4 DEF CompiledMethod, LiteralsOf
  <1>7. method \in Method
    BY <1>2, <1>3, <1>5, <1>6 DEF Method
  <1> QED
    BY <1>2, <1>6, <1>7

-----------------------------------------------------------------------------
(* A method array has room for a selector that it has not got.             *)
SelectorsIn(methods) == {m.selector : m \in {x \in Range(methods) : x.compiles}}
Fits(methods) == 2 * Cardinality(SelectorsIn(methods)) <= MethodArraySlots

(* There are finitely many selectors.                                      *)
LEMMA SelectorsFinite ==
  ASSUME NEW methods, IsSeq(methods)
  PROVE  IsFiniteSet(SelectorsIn(methods))
  <1>1. PICK n, f : n = Len(methods) /\ f = [i \in 1 .. n |-> methods[i].selector]
    OBVIOUS
  <1>2. n \in Nat /\ DOMAIN methods = 1 .. n
    BY <1>1 DEF IsSeq
  <1>3. IsFiniteSet(1 .. n) /\ DOMAIN f = 1 .. n
    BY <1>1, <1>2, FS_Interval
  <1>4. IsFiniteSet({f[i] : i \in DOMAIN f})
    <2>1. PICK T : T = {f[i] : i \in DOMAIN f}
      OBVIOUS
    <2>2. f \in Surjection(DOMAIN f, T)
      BY <1>1, <2>1 DEF Surjection
    <2> QED
      BY <1>3, <2>1, <2>2, FS_Surjection
  <1>5. SelectorsIn(methods) \in SUBSET {f[i] : i \in DOMAIN f}
    BY <1>1, <1>2, <1>3 DEF SelectorsIn, Range
  <1> QED
    BY <1>4, <1>5, FS_Subset

(* addMethodToArray_ finds room for the selectors of methods that fit.     *)
LEMMA ArrayHasRoom ==
  ASSUME NEW U, Unique(U), NEW pairs, PairsOK(pairs, U), OneEach(pairs), NEW s \in U,
         NEW methods, IsSeq(methods), Fits(methods), s.name \in SelectorsIn(methods),
         \A x \in PairsOf(pairs) : KeyOf(x) \in SelectorsIn(methods)
  PROVE  ~ArrayIsFull(pairs, s)
  <1>1. SUFFICES ASSUME PositionOf(pairs, s) = 0, 2 * Len(pairs) + 2 > MethodArraySlots PROVE FALSE
    BY DEF ArrayIsFull
  <1>2. PICK n, all, rest : n = Len(pairs) /\ all = SelectorsIn(methods) /\ rest = all \ {s.name}
    OBVIOUS
  <1>3. n \in Nat /\ MethodArraySlots \in Nat
    BY <1>2, SlotsAssumption DEF PairsOK, IsSeq
  <1>4. /\ IsFiniteSet(all) /\ Cardinality(all) \in Nat
        /\ IsFiniteSet(rest) /\ Cardinality(rest) = Cardinality(all) - 1
    BY <1>2, SelectorsFinite, FS_RemoveElement, FS_CardinalityType
  <1>5. \A x \in PairsOf(pairs) : KeyOf(x) # s.name
    BY <1>1, PositionIs
  <1>6. PICK f : f = [i \in 1 .. n |-> KeyOf(pairs[i])]
    OBVIOUS
  <1>7. \A i \in 1 .. n : KeyOf(pairs[i]) \in rest
    BY <1>2, <1>5 DEF PairsOf
  <1>8. f \in Injection(1 .. n, rest)
    <2>1. f \in [1 .. n -> rest]
      BY <1>6, <1>7
    <2>2. \A i, j \in 1 .. n : f[i] = f[j] => i = j
      BY <1>2, <1>6 DEF OneEach
    <2> QED
      BY <1>6, <2>1, <2>2 DEF Injection, IsInjective
  <1>9. Cardinality(1 .. n) = n /\ Cardinality(1 .. n) <= Cardinality(rest)
    BY <1>3, <1>4, <1>8, FS_Injection, FS_Interval
  <1>10. 2 * Cardinality(all) <= MethodArraySlots
    BY <1>2 DEF Fits
  <1> QED
    BY <1>1, <1>2, <1>3, <1>4, <1>9, <1>10
-----------------------------------------------------------------------------
(* The loops over methods: after k of them, the pairs are those that the   *)
(* first k define.                                                         *)
SaysFirst(c, pairs) ==
    /\ PairsOK(pairs, c.U) /\ Says(pairs, c.sp, LastOf(c.methods, c.k), {})
    /\ \A x \in PairsOf(pairs) : KeyOf(x) \in SelectorsIn(c.methods)
FirstOf(U, sp, methods, k) == [U |-> U, sp |-> sp, methods |-> methods, k |-> k]
InstallMore == INSTANCE FoldInduction WITH step <- InstallStep, Holds <- SaysFirst
PutMore == INSTANCE FoldInduction WITH step <- PutStep, Holds <- SaysFirst

(* Before the first.                                                       *)
LEMMA NoneFirst ==
  ASSUME NEW U, NEW sp, NEW methods, NEW pairs, pairs = <<>>
  PROVE  SaysFirst(FirstOf(U, sp, methods, 0), pairs)
  <1>1. PICK c : c = FirstOf(U, sp, methods, 0)
    OBVIOUS
  <1>2. c.U = U /\ c.sp = sp /\ c.methods = methods /\ c.k = 0
    BY <1>1 DEF FirstOf
  <1>3. PairsOK(pairs, U)
    BY Emptied DEF PairsOK
  <1>4. Says(pairs, sp, {}, {}) /\ PairsOf(pairs) = {}
    BY NothingSaid
  <1> QED
    BY <1>1, <1>2, <1>3, <1>4, LastOfNone DEF SaysFirst

(* One method that compiles is put into the pairs.                         *)
LEMMA PutOneMore ==
  ASSUME NEW U, Unique(U), NEW sp \in Species, NEW module \in Nat, module = sp.module,
         NEW methods \in Seq(MethodSpec),
         NEW known, NEW i \in 1 .. Len(methods), Knows(known, NamesOfMethod(methods[i]), U),
         methods[i].compiles,
         NEW acc, SaysFirst(FirstOf(U, sp, methods, i - 1), acc),
         NEW s, s = known[methods[i].selector]
  PROVE  /\ SaysFirst(FirstOf(U, sp, methods, i),
                      AtPut(acc, s, CompiledMethod(known, sp, methods[i], module)))
         /\ Fits(methods) => ~ArrayIsFull(acc, s)
  <1>1. PICK c, d, m, k : c = FirstOf(U, sp, methods, i - 1) /\ d = FirstOf(U, sp, methods, i)
                          /\ m = methods[i] /\ k = i - 1
    OBVIOUS
  <1>2. /\ c.U = U /\ c.sp = sp /\ c.methods = methods /\ c.k = k
        /\ d.U = U /\ d.sp = sp /\ d.methods = methods /\ d.k = i
    BY <1>1 DEF FirstOf
  <1>3. /\ m \in MethodSpec /\ Len(methods) \in Nat /\ k \in Nat /\ i = k + 1
        /\ DOMAIN methods = 1 .. Len(methods) /\ IsSeq(methods)
    BY <1>1, SeqIs, LenProperties
  <1>4. PICK method : method = CompiledMethod(known, sp, m, module)
    OBVIOUS
  <1>k. Knows(known, NamesOfMethod(m), U) /\ s = known[m.selector]
    BY <1>1
  <1>5. /\ method \in Method /\ method.class = sp /\ method.module = sp.module /\ method.source = m.source
        /\ method.selector = s /\ s \in U /\ s.name = m.selector
    BY <1>3, <1>k, <1>4, CompiledIs
  <1>6. MethodOK(method, U)
    <2>1. NamesOfMethod(m) \subseteq DOMAIN known /\ \A n \in DOMAIN known : known[n] \in U
      BY <1>1 DEF Knows
    <2> QED
      BY <1>4, <2>1, CompiledOK
  <1>7. /\ PairsOK(acc, U) /\ Says(acc, sp, LastOf(methods, k), {})
        /\ \A x \in PairsOf(acc) : KeyOf(x) \in SelectorsIn(methods)
    BY <1>1, <1>2 DEF SaysFirst
  <1>8. s.name \in SelectorsIn(methods)
    <2>1. m \in Range(methods)
      BY <1>1, <1>3 DEF Range
    <2> QED
      BY <1>1, <1>5, <2>1 DEF SelectorsIn
  <1>9. PICK all : all = AtPut(acc, s, method)
    OBVIOUS
  <1>10. PairsOK(all, U)
    BY <1>5, <1>6, <1>7, <1>9, PutPairs
  <1>11. LastOf(methods, i) = Redefined(LastOf(methods, k), s.name, method.source)
    <2>1. m = methods[k + 1] /\ m.compiles /\ k \in Nat
      BY <1>1, <1>3
    <2>2. LastOf(methods, k + 1) = Redefined(LastOf(methods, k), m.selector, m.source)
      BY <2>1, LastOfNext
    <2> QED
      BY <1>3, <1>5, <2>2
  <1>12. Says(all, sp, LastOf(methods, i), {})
    BY <1>5, <1>7, <1>9, <1>11, PutDefined
  <1>13. ASSUME NEW x \in PairsOf(all) PROVE KeyOf(x) \in SelectorsIn(methods)
    <2>1. PairsOf(all) = WithoutName(PairsOf(acc), s.name) \cup {<<s, method>>}
      BY <1>5, <1>7, <1>9, PutIs DEF Says
    <2>2. <<s, method>>[1] = s
      OBVIOUS
    <2> QED
      BY <1>7, <1>8, <2>1, <2>2 DEF WithoutName, KeyOf
  <1>14. Fits(methods) => ~ArrayIsFull(acc, s)
    BY <1>3, <1>5, <1>7, <1>8, ArrayHasRoom DEF Says
  <1> QED
    BY <1>1, <1>2, <1>4, <1>9, <1>10, <1>12, <1>13, <1>14 DEF SaysFirst

(* compileAndInstallMethod_, for the methods of a species of the kernel:   *)
(* when the array has room, it has what they define.                       *)
LEMMA InstallAllSays ==
  ASSUME NEW U, Unique(U), NEW sp \in Species, sp.module = 0,
         NEW methods \in Seq(MethodSpec), Fits(methods),
         NEW known,
         \A i \in 1 .. Len(methods) :
            methods[i].compiles => Knows(known, NamesOfMethod(methods[i]), U),
         NEW pairs, pairs = <<>>
  PROVE  Says(InstallAll(known, pairs, sp, methods), sp, LastOnes(methods), {})
  <1>c. PICK c : c = [known |-> known, sp |-> sp, U |-> U]
    OBVIOUS
  <1>d. c.known = known /\ c.sp = sp
    BY <1>c
  <1>1. InstallAll(known, pairs, sp, methods) = InstallMore!Loop(c, pairs, methods)
    BY <1>d DEF InstallAll, InstallStep, InstallMore!Loop, Folded, InstallMore!Folded
  <1>2. Len(methods) \in Nat
    BY SeqIs DEF IsSeq
  <1>3. PICK at : at = [k \in 0 .. Len(methods) |-> FirstOf(U, sp, methods, k)]
    OBVIOUS
  <1>4. \A i \in 1 .. Len(methods) : /\ at[i - 1] = FirstOf(U, sp, methods, i - 1)
                                     /\ at[i] = FirstOf(U, sp, methods, i)
    BY <1>2, <1>3
  <1>5. ASSUME NEW acc, NEW i \in 1 .. Len(methods), SaysFirst(at[i - 1], acc)
        PROVE  SaysFirst(at[i], InstallStep(c, acc, methods[i]))
    <2>1. SaysFirst(FirstOf(U, sp, methods, i - 1), acc)
      BY <1>4, <1>5
    <2>2. CASE methods[i].compiles
      <3>1. PICK s, module : s = known[methods[i].selector] /\ module = 0
        OBVIOUS
      <3>2. /\ SaysFirst(FirstOf(U, sp, methods, i),
                         AtPut(acc, s, CompiledMethod(known, sp, methods[i], module)))
            /\ ~ArrayIsFull(acc, s)
        <4>1. module \in Nat /\ module = sp.module
          BY <3>1
        <4> QED
          BY <4>1, <2>1, <2>2, <3>1, PutOneMore
      <3> QED
        BY <1>d, <1>4, <2>2, <3>1, <3>2 DEF InstallStep
    <2>3. CASE ~methods[i].compiles
      <3>1. InstallStep(c, acc, methods[i]) = acc
        BY <2>3 DEF InstallStep
      <3>2. i - 1 \in Nat /\ (i - 1) + 1 = i
        BY <1>2
      <3>3. LastOf(methods, i) = LastOf(methods, i - 1)
        BY <2>3, <3>2, LastOfNext
      <3>4. SaysFirst(FirstOf(U, sp, methods, i), acc)
        BY <2>1, <3>3 DEF SaysFirst, FirstOf
      <3> QED
        BY <1>4, <3>1, <3>4
    <2> QED
      BY <2>2, <2>3
  <1>6. SaysFirst(at[0], pairs) /\ at[Len(methods)] = FirstOf(U, sp, methods, Len(methods))
    BY <1>2, <1>3, NoneFirst
  <1>7. SaysFirst(FirstOf(U, sp, methods, Len(methods)), InstallMore!Loop(c, pairs, methods))
    BY <1>2, <1>5, <1>6, InstallMore!LoopProceeds
  <1> QED
    BY <1>1, <1>7 DEF SaysFirst, FirstOf, LastOnes

(* createNewMethod_, for the methods of a species of a module.             *)
LEMMA InstalledSays ==
  ASSUME NEW table, Unique(table), table \subseteq Symbol, NEW sp \in Species,
         NEW methods \in Seq(MethodSpec), \A i \in 1 .. Len(methods) : methods[i].compiles,
         \A n \in NamesIn(methods) : DynamicSymbol(table, n) \in table /\ DynamicSymbol(table, n).name = n
  PROVE  Says(Installed(table, sp, methods).pairs, sp, LastOnes(methods), {})
  <1>k. PICK known : known = KnownIn(table, NamesIn(methods))
    OBVIOUS
  <1>0. Knows(known, NamesIn(methods), table)
    BY <1>k DEF KnownIn, Knows
  <1>c. PICK c : c = [known |-> known, sp |-> sp, U |-> table]
    OBVIOUS
  <1>d. c.known = known /\ c.sp = sp
    BY <1>c
  <1>p. PICK pairs : pairs = <<>>
    OBVIOUS
  <1>1. Installed(table, sp, methods).pairs = PutMore!Loop(c, pairs, methods)
    <2>1. Installed(table, sp, methods)
            = [kind |-> "MethodDictionary", pairs |-> PutMore!Loop(c, pairs, methods)]
      BY <1>d, <1>k, <1>p DEF Installed, PutStep, PutMore!Loop, Folded, PutMore!Folded, KnownIn
    <2> QED
      BY <2>1
  <1>2. Len(methods) \in Nat /\ IsSeq(methods) /\ sp.module \in Nat
    BY SeqIs DEF IsSeq, Species
  <1>3. PICK at : at = [k \in 0 .. Len(methods) |-> FirstOf(table, sp, methods, k)]
    OBVIOUS
  <1>4. \A i \in 1 .. Len(methods) : /\ at[i - 1] = FirstOf(table, sp, methods, i - 1)
                                     /\ at[i] = FirstOf(table, sp, methods, i)
    BY <1>2, <1>3
  <1>5. ASSUME NEW acc, NEW i \in 1 .. Len(methods), SaysFirst(at[i - 1], acc)
        PROVE  SaysFirst(at[i], PutStep(c, acc, methods[i]))
    <2>1. SaysFirst(FirstOf(table, sp, methods, i - 1), acc)
      BY <1>4, <1>5
    <2>2. Knows(known, NamesOfMethod(methods[i]), table)
      BY <1>0, <1>2, NamesOfOne DEF Knows
    <2>3. PICK s, module : s = known[methods[i].selector] /\ module = sp.module
      OBVIOUS
    <2>4. SaysFirst(FirstOf(table, sp, methods, i),
                    AtPut(acc, s, CompiledMethod(known, sp, methods[i], module)))
      BY <1>2, <2>1, <2>2, <2>3, PutOneMore
    <2> QED
      BY <1>d, <1>4, <2>3, <2>4 DEF PutStep
  <1>6. SaysFirst(at[0], pairs) /\ at[Len(methods)] = FirstOf(table, sp, methods, Len(methods))
    BY <1>2, <1>3, <1>p, NoneFirst
  <1>7. SaysFirst(FirstOf(table, sp, methods, Len(methods)), PutMore!Loop(c, pairs, methods))
    BY <1>2, <1>5, <1>6, PutMore!LoopProceeds
  <1> QED
    BY <1>1, <1>7 DEF SaysFirst, FirstOf, LastOnes

-----------------------------------------------------------------------------
(* What a behavior links to is there, and so is the metaclass of a class.  *)
SlotsLinked(slots, objs) ==
    /\ {"next", "superclass", "md"} \subseteq DOMAIN slots
    /\ slots.next \in DOMAIN objs \cup {Nil} /\ slots.superclass \in DOMAIN objs \cup {Nil}
Linked(objs) == \A sp \in DOMAIN objs : SlotsLinked(objs[sp], objs)
Paired(objs) ==
    \A sp \in DOMAIN objs :
       sp.side = "class" => Metaclass(sp) \in DOMAIN objs /\ Metaclass(sp).module = sp.module

Kinds == {"Array", "MethodDictionary"}
KindIn(slots, kinds) == "kind" \in DOMAIN slots.md /\ slots.md.kind \in kinds

(* Which behaviors there are, and of what kind their dictionaries are.     *)
KernelInv ==
    /\ phase \in Phases /\ provider \in {"bootstrap", "dynamic"}
    /\ phase \notin {"specs", "failed"} => "Class" \in DOMAIN spec /\ IsFiniteSet(DOMAIN spec)
    /\ phase = "initial" => DOMAIN objects = {}
    /\ phase = "instantiate" => /\ SpeciesIn(DOMAIN spec \ todo) \subseteq DOMAIN objects
                                /\ \A sp \in DOMAIN objects : objects[sp] = Empty
    /\ phase \in {"initialize", "namespace", "methods", "runtime", "fill", "switch", "convert"}
          => DOMAIN objects = SpeciesIn(DOMAIN spec)
    /\ phase = "initialize" =>
          \A sp \in DOMAIN objects : sp.name \in todo \/ KindIn(objects[sp], Kinds)
    /\ phase \in {"namespace", "methods", "runtime", "fill", "switch", "convert"} =>
          \A sp \in DOMAIN objects : KindIn(objects[sp], Kinds)
    /\ phase = "convert" =>
          \A sp \in DOMAIN objects \ todo : KindIn(objects[sp], {"MethodDictionary"})
    /\ phase = "done" =>
          Paired(objects) /\ \A sp \in DOMAIN objects : KindIn(objects[sp], {"MethodDictionary"})
    /\ \A sp \in DOMAIN objects : objects[sp].md = Nil \/ KindIn(objects[sp], Kinds)
    /\ Linked(objects)

(* A name of the kernel means a class of the kernel, or something else.    *)
KernelNames(table, objs) ==
    /\ DOMAIN table \subseteq Nat
    /\ \A i \in DOMAIN table :
          table[i] = Nil \/ (IsClass(table[i].value) =>
                                table[i].value \in DOMAIN objs /\ table[i].value.module = Kernel)

(* The names of modules mean classes that are there; a class is of a       *)
(* module that is there.                                                   *)
NamesLinked(module, objs) ==
    /\ {"path", "namespace"} \subseteq DOMAIN module
    /\ \A n \in DOMAIN module.namespace :
          IsClass(module.namespace[n]) => module.namespace[n] \in DOMAIN objs
ModulesLinked(mods, objs) ==
    /\ \A m \in DOMAIN mods : NamesLinked(mods[m], objs)
    /\ \A sp \in DOMAIN objs : sp.module \in DOMAIN mods \cup {Kernel}

(* Nothing outside of module m refers to a class of m.                     *)
Elsewhere(link, m) == link = Nil \/ link.module # m
Isolated(m, objs, mods) ==
    /\ \A sp \in DOMAIN objs :
          sp.module # m => Elsewhere(objs[sp].next, m) /\ Elsewhere(objs[sp].superclass, m)
    /\ \A k \in DOMAIN mods \ {m} : \A n \in DOMAIN mods[k].namespace :
          IsClass(mods[k].namespace[n]) => mods[k].namespace[n].module # m

(* Loads other than the one on top import; one that is not registered is   *)
(* about a module that nothing refers to.                                  *)
LoadApart(l, objs, mods, bound, registered) ==
    /\ l.path # <<"Kernel">>
    /\ l.step = "justLoaded" => l.module \in registered
    /\ l.step \in Unregistered => l.module \notin bound /\ Isolated(l.module, objs, mods)
LoadsApart(ls, objs, mods, bound, registered) ==
    /\ \A i \in 1 .. Len(ls) : LoadApart(ls[i], objs, mods, bound, registered)
    /\ \A i \in 1 .. Len(ls) - 1 : ls[i].step = "import"

ModuleInv ==
    /\ ModulesLinked(modules, objects)
    /\ Range(kernelModules) \subseteq DOMAIN modules
    /\ <<"Kernel">> \in DOMAIN kernelModules => kernelModules[<<"Kernel">>] = Kernel
    /\ LoadsApart(loads, objects, modules, Range(kernelModules), Registered)

LinksInv == KernelInv /\ KernelNames(namespace, objects) /\ ModuleInv

-----------------------------------------------------------------------------
(* The species of the kernel.                                              *)
LEMMA KernelSpecies ==
  ASSUME NEW names, NEW sp \in SpeciesIn(names)
  PROVE  /\ sp.module = Kernel
         /\ sp.side = "class" => /\ Metaclass(sp) \in SpeciesIn(names)
                                 /\ Metaclass(sp).module = sp.module
  <1>1. PICK n \in names : sp = Class(n) \/ sp = Metaclass(Class(n))
    BY DEF SpeciesIn
  <1>2. PICK c : c = Class(n)
    OBVIOUS
  <1>3. PICK m : m = Metaclass(c)
    OBVIOUS
  <1>4. c = [side |-> "class", module |-> 0, name |-> n]
    BY <1>2 DEF Class
  <1>5. m = [side |-> "metaclass", module |-> 0, name |-> n]
    BY <1>3, <1>4 DEF Metaclass
  <1>6. c \in SpeciesIn(names) /\ m \in SpeciesIn(names)
    BY <1>1, <1>2, <1>3 DEF SpeciesIn
  <1>7. c.module = 0 /\ m.module = 0 /\ m.side # "class" /\ (sp = c \/ sp = m)
    BY <1>1, <1>2, <1>3, <1>4, <1>5
  <1> QED
    BY <1>3, <1>6, <1>7 DEF Kernel

(* The values of a function on a finite set are finitely many.             *)
LEMMA FiniteImage ==
  ASSUME NEW f, IsFiniteSet(DOMAIN f)
  PROVE  IsFiniteSet({f[x] : x \in DOMAIN f})
  <1>1. PICK T : T = {f[x] : x \in DOMAIN f}
    OBVIOUS
  <1>2. PICK g : g = [x \in DOMAIN f |-> f[x]]
    OBVIOUS
  <1>3. g \in Surjection(DOMAIN f, T)
    BY <1>1, <1>2 DEF Surjection
  <1> QED
    BY <1>1, <1>3, FS_Surjection

(* There are finitely many of them.                                        *)
LEMMA FiniteSpecies ==
  ASSUME NEW names, IsFiniteSet(names)
  PROVE  IsFiniteSet(SpeciesIn(names))
  <1>1. PICK c : c = [n \in names |-> Class(n)]
    OBVIOUS
  <1>2. PICK m : m = [n \in names |-> Metaclass(Class(n))]
    OBVIOUS
  <1>3. DOMAIN c = names /\ DOMAIN m = names
    BY <1>1, <1>2
  <1>4. IsFiniteSet({c[n] : n \in names}) /\ IsFiniteSet({m[n] : n \in names})
    BY <1>3, FiniteImage
  <1>5. SpeciesIn(names) = {c[n] : n \in names} \cup {m[n] : n \in names}
    BY <1>1, <1>2 DEF SpeciesIn
  <1> QED
    BY <1>4, <1>5, FS_Union

(* While the kernel is built, there are no modules.                        *)
LEMMA NoModules ==
  ASSUME Inv, LinksInv, phase # "done", UNCHANGED loaderVars,
         \A sp \in DOMAIN objects' : sp \in DOMAIN objects \/ sp.module = Kernel
  PROVE  ModuleInv'
  <1>1. DOMAIN modules = {} /\ loads = <<>> /\ Range(kernelModules) \subseteq DOMAIN modules
    BY DEF Inv, LoaderInv, LinksInv, ModuleInv
  <1>2. DOMAIN kernelModules = {}
    BY <1>1 DEF Range
  <1>3. DOMAIN modules' = {} /\ loads' = <<>> /\ DOMAIN kernelModules' = {}
    BY <1>1, <1>2 DEF loaderVars
  <1>4. \A sp \in DOMAIN objects' : sp.module = Kernel
    BY <1>1 DEF LinksInv, ModuleInv, ModulesLinked
  <1>5. ModulesLinked(modules, objects)'
    BY <1>3, <1>4 DEF ModulesLinked
  <1>6. Range(kernelModules)' = {}
    BY <1>3 DEF Range
  <1>7. Len(loads') = 0
    BY <1>3, Emptied
  <1>8. LoadsApart(loads, objects, modules, Range(kernelModules), Registered)'
    BY <1>7 DEF LoadsApart
  <1> QED
    BY <1>3, <1>5, <1>6, <1>8 DEF ModuleInv

(* loadKernelSpecs.                                                        *)
LEMMA LoadKernelSpecsLinks ==
  ASSUME Inv, LinksInv, loadKernelSpecs
  PROVE  KernelInv' /\ KernelNames(namespace', objects') /\ objects' = objects
  <1>1. /\ phase = "specs"
        /\ \/ phase' = "failed"
           \/ phase' = "initial" /\ spec' = WithExtensions(installation.kernel, installation.vm)
        /\ UNCHANGED <<installation, todo, objects, namespace, symbols, symbolTable, provider, newMd>>
    BY DEF loadKernelSpecs
  <1>2. DOMAIN objects = {} /\ installation \in Installations
    BY <1>1 DEF Inv, BootInv, SpeciesInv
  <1>3. /\ "Class" \in DOMAIN installation.kernel /\ IsFiniteSet(DOMAIN installation.kernel)
    BY <1>2, InstallationsAssumption DEF InstallationOK
  <1>4. phase' = "initial" => "Class" \in DOMAIN spec' /\ IsFiniteSet(DOMAIN spec')
    BY <1>1, <1>3, Zenon DEF WithExtensions
  <1>5. Linked(objects')
    BY <1>1, <1>2 DEF Linked
  <1>6. KernelInv'
    BY <1>1, <1>2, <1>4, <1>5 DEF LinksInv, KernelInv, Phases
  <1> QED
    BY <1>1, <1>6 DEF LinksInv

(* createInitialObjects.                                                   *)
LEMMA CreateInitialObjectsLinks ==
  ASSUME Inv, LinksInv, createInitialObjects
  PROVE  KernelInv' /\ KernelNames(namespace', objects') /\ objects' = objects
  <1>1. /\ phase = "initial" /\ phase' = "instantiate" /\ todo' = DOMAIN spec
        /\ UNCHANGED <<installation, spec, objects, namespace, symbols, symbolTable, provider, newMd>>
    BY DEF createInitialObjects
  <1>2. DOMAIN objects = {} /\ "Class" \in DOMAIN spec /\ IsFiniteSet(DOMAIN spec)
    BY <1>1 DEF LinksInv, KernelInv
  <1>3. SpeciesIn(DOMAIN spec' \ todo') = {}
    BY <1>1 DEF SpeciesIn
  <1>4. Linked(objects')
    BY <1>1, <1>2 DEF Linked
  <1>5. KernelInv'
    BY <1>1, <1>2, <1>3, <1>4 DEF LinksInv, KernelInv, Phases
  <1> QED
    BY <1>1, <1>5 DEF LinksInv

(* instantiateMetaobjectsOf: one class more, and its metaclass, all nil.   *)
LEMMA InstantiateLinks ==
  ASSUME Inv, LinksInv, instantiateMetaobjectsOf
  PROVE  /\ KernelInv' /\ KernelNames(namespace', objects')
         /\ \A sp \in DOMAIN objects' : sp \in DOMAIN objects \/ sp.module = Kernel
  <1>1. /\ phase = "instantiate" /\ Continue("initialize", DOMAIN spec)
        /\ UNCHANGED <<installation, spec, namespace, symbols, symbolTable, provider, newMd>>
    BY DEF instantiateMetaobjectsOf
  <1>2. /\ todo # {} /\ todo \subseteq DOMAIN spec
        /\ DOMAIN objects \subseteq SpeciesIn(DOMAIN spec)
    BY <1>1 DEF Inv, BootInv, SpecInv, SpeciesInv
  <1>3. /\ First \in todo
        /\ \/ todo = {First} /\ todo' = DOMAIN spec /\ phase' = "initialize"
           \/ todo' = todo \ {First} /\ phase' = phase /\ todo' # {} /\ todo' \subseteq todo
    BY <1>1, <1>2, ContinueOn
  <1>4. /\ "Class" \in DOMAIN spec /\ IsFiniteSet(DOMAIN spec)
        /\ SpeciesIn(DOMAIN spec \ todo) \subseteq DOMAIN objects
        /\ \A sp \in DOMAIN objects : objects[sp] = Empty
        /\ provider \in {"bootstrap", "dynamic"}
    BY <1>1 DEF LinksInv, KernelInv
  <1>5. PICK both : both = {Class(First), Metaclass(Class(First))}
    OBVIOUS
  <1>6. /\ DOMAIN objects' = DOMAIN objects \cup both
        /\ \A sp \in DOMAIN objects' : objects'[sp] = Empty
    <2>1. objects' = Over(objects, [sp \in both |-> Empty])
      BY <1>5 DEF instantiateMetaobjectsOf
    <2>2. PICK f, h : f = objects /\ h = objects'
      OBVIOUS
    <2>3. /\ DOMAIN h = DOMAIN f \cup both
          /\ \A sp \in DOMAIN h : h[sp] = IF sp \in DOMAIN f THEN f[sp] ELSE Empty
      BY <2>1, <2>2 DEF Over
    <2> QED
      BY <1>4, <2>2, <2>3
  <1>7. both \subseteq SpeciesIn(DOMAIN spec)
    BY <1>2, <1>3, <1>5 DEF SpeciesIn
  <1>8. SpeciesIn(DOMAIN spec \ (todo \ {First})) \subseteq DOMAIN objects'
    BY <1>4, <1>5, <1>6 DEF SpeciesIn
  <1>9. todo = {First} => DOMAIN objects' = SpeciesIn(DOMAIN spec)
    BY <1>2, <1>6, <1>7, <1>8 DEF SpeciesIn
  <1>10. \A sp \in DOMAIN objects' : SlotsLinked(objects'[sp], objects') /\ objects'[sp].md = Nil
    BY <1>6 DEF Empty, SlotsLinked
  <1>11. Linked(objects')
    BY <1>10 DEF Linked
  <1>12. todo = {First} => \A sp \in DOMAIN objects' : sp.name \in DOMAIN spec
    BY <1>9, SpeciesOf
  <1>13. KernelInv'
    BY <1>1, <1>3, <1>4, <1>6, <1>8, <1>9, <1>10, <1>11, <1>12 DEF KernelInv, Phases
  <1>14. KernelNames(namespace', objects')
    BY <1>1, <1>6 DEF LinksInv, KernelNames
  <1>15. \A sp \in both : sp.module = Kernel
    BY <1>7, KernelSpecies
  <1> QED
    BY <1>6, <1>13, <1>14, <1>15
(* initializeMetaobjectsOf: a class links to the classes of the specs.     *)
LEMMA InitializeLinks ==
  ASSUME Inv, LinksInv, initializeMetaobjectsOf
  PROVE  /\ KernelInv' /\ KernelNames(namespace', objects')
         /\ DOMAIN objects' = DOMAIN objects
  <1>1. /\ phase = "initialize" /\ Continue("namespace", {})
        /\ UNCHANGED <<installation, spec, namespace, symbolTable, provider, newMd>>
    BY DEF initializeMetaobjectsOf
  <1>2. todo # {} /\ todo \subseteq DOMAIN spec
    BY <1>1 DEF Inv, BootInv, SpecInv
  <1>3. /\ First \in todo
        /\ \/ todo = {First} /\ todo' = {} /\ phase' = "namespace"
           \/ todo' = todo \ {First} /\ phase' = phase /\ todo' # {} /\ todo' \subseteq todo
    BY <1>1, <1>2, ContinueOn
  <1>4. /\ "Class" \in DOMAIN spec /\ IsFiniteSet(DOMAIN spec)
        /\ DOMAIN objects = SpeciesIn(DOMAIN spec)
        /\ \A sp \in DOMAIN objects : sp.name \in todo \/ KindIn(objects[sp], Kinds)
        /\ \A sp \in DOMAIN objects : objects[sp].md = Nil \/ KindIn(objects[sp], Kinds)
        /\ Linked(objects) /\ provider \in {"bootstrap", "dynamic"}
    BY <1>1 DEF LinksInv, KernelInv
  <1>5. PICK class, metaclass : class = Class(First) /\ metaclass = Metaclass(class)
    OBVIOUS
  <1>6. PICK slots, metaslots : slots = SlotsOfClass /\ metaslots = SlotsOfMetaclass
    OBVIOUS
  <1>7. /\ DOMAIN objects' = DOMAIN objects
        /\ \A sp \in DOMAIN objects :
              objects'[sp] = IF sp = metaclass THEN metaslots
                             ELSE IF sp = class THEN slots ELSE objects[sp]
    <2>1. objects' = [objects EXCEPT ![class] = slots, ![metaclass] = metaslots]
      BY <1>5, <1>6 DEF initializeMetaobjectsOf, SlotsOfClass, SlotsOfMetaclass, KnownByInitialize
    <2> QED
      BY <2>1
  <1>8. PICK links : links = Links(First)
    OBVIOUS
  <1>9. links.class \in DOMAIN objects \cup {Nil} /\ links.metaclass \in DOMAIN objects \cup {Nil}
    <2>1. \A n \in DOMAIN spec : Class(n) \in DOMAIN objects /\ Metaclass(Class(n)) \in DOMAIN objects
      BY <1>4 DEF SpeciesIn
    <2>2. PICK super : super = spec[First].supername
      OBVIOUS
    <2>3. CASE super = Nil
      BY <1>4, <1>8, <2>1, <2>2, <2>3 DEF Links
    <2>4. CASE super # Nil /\ super \in DOMAIN spec
      BY <1>8, <2>1, <2>2, <2>4 DEF Links
    <2>5. CASE super # Nil /\ super \notin DOMAIN spec
      BY <1>8, <2>2, <2>5 DEF Links
    <2> QED
      BY <2>3, <2>4, <2>5
  <1>10. /\ SlotsLinked(slots, objects) /\ SlotsLinked(metaslots, objects)
         /\ KindIn(slots, Kinds) /\ KindIn(metaslots, Kinds)
    <2>1. newMethodArray.kind = "Array" /\ "kind" \in DOMAIN newMethodArray
      BY DEF newMethodArray
    <2>2. /\ {"next", "superclass", "md"} \subseteq DOMAIN slots
          /\ slots.next = links.class /\ slots.superclass = links.class /\ slots.md = newMethodArray
      BY <1>6, <1>8 DEF SlotsOfClass
    <2>3. /\ {"next", "superclass", "md"} \subseteq DOMAIN metaslots
          /\ metaslots.next = links.metaclass /\ metaslots.superclass = links.metaclass
          /\ metaslots.md = newMethodArray
      BY <1>6, <1>8 DEF SlotsOfMetaclass
    <2> QED
      BY <1>9, <2>1, <2>2, <2>3 DEF SlotsLinked, KindIn, Kinds
  <1>11. Linked(objects')
    <2>1. \A sp \in DOMAIN objects : SlotsLinked(objects'[sp], objects)
      BY <1>4, <1>7, <1>10 DEF Linked
    <2> QED
      BY <1>7, <2>1 DEF Linked, SlotsLinked
  <1>12. \A sp \in DOMAIN objects : sp.name = First => sp = class \/ sp = metaclass
    BY <1>4, <1>5, SpeciesOf
  <1>13. \A sp \in DOMAIN objects' : sp.name \in todo \ {First} \/ KindIn(objects'[sp], Kinds)
    BY <1>4, <1>7, <1>10, <1>12
  <1>14. \A sp \in DOMAIN objects' : objects'[sp].md = Nil \/ KindIn(objects'[sp], Kinds)
    BY <1>4, <1>7, <1>10
  <1>15. KernelInv'
    BY <1>1, <1>3, <1>4, <1>7, <1>11, <1>13, <1>14 DEF KernelInv, Phases
  <1>16. KernelNames(namespace', objects')
    BY <1>1, <1>7 DEF LinksInv, KernelNames
  <1> QED
    BY <1>7, <1>15, <1>16

(* The steps of the bootstrap between loadKernelMethods and the conversion *)
(* leave the behaviors as they are.                                        *)
LEMMA LaterPhasesLinks ==
  ASSUME Inv, LinksInv,
         createRuntimeWithBootstrappedKernel \/ fillSymbolTable \/ switchToDynamicSymbolProvider
         \/ NewMethodDict \/ ConvertPair
  PROVE  KernelInv' /\ KernelNames(namespace', objects') /\ objects' = objects
  <1>1. /\ phase \in {"runtime", "fill", "switch", "convert"}
        /\ UNCHANGED <<spec, objects, namespace>>
        /\ \/ phase' = "failed"
           \/ phase' \in {"fill", "switch"} /\ phase # "convert"
           \/ phase' = "convert" /\ todo' = DOMAIN objects
           \/ phase' = "convert" /\ phase = "convert" /\ todo' = todo
        /\ provider' \in {provider, "dynamic"}
    BY DEF createRuntimeWithBootstrappedKernel, fillSymbolTable, switchToDynamicSymbolProvider,
           NewMethodDict, ConvertPair, Continue
  <1>2. KernelInv'
    BY <1>1 DEF LinksInv, KernelInv, Phases, KindIn
  <1> QED
    BY <1>1, <1>2 DEF LinksInv

-----------------------------------------------------------------------------
(* The table of the namespace.                                             *)
OrderStep(S, done, i) ==
    IF S \subseteq Range(done) THEN done ELSE Append(done, CHOOSE x \in S : x \notin Range(done))
ElementsOf(S, done) == done \in Seq(S)
Order == INSTANCE FoldInduction WITH step <- OrderStep, Holds <- ElementsOf

(* The entries of a dictionary in some order are its entries.              *)
LEMMA InOrderOK ==
  ASSUME NEW S, IsFiniteSet(S)
  PROVE  InOrder(S) \in Seq(S)
  <1>1. PICK numbers : numbers = [i \in 1 .. Cardinality(S) |-> i]
    OBVIOUS
  <1>2. Cardinality(S) \in Nat
    BY FS_CardinalityType
  <1>3. numbers \in Seq(Nat)
    BY <1>1, <1>2
  <1>4. Len(numbers) \in Nat
    BY <1>3
  <1>5. InOrder(S) = Order!Loop(S, <<>>, numbers)
    BY <1>1 DEF InOrder, OrderStep, Order!Loop, Folded, Order!Folded
  <1>6. ElementsOf(S, <<>>)
    BY DEF ElementsOf
  <1>7. ASSUME NEW done, ElementsOf(S, done), NEW i
        PROVE  ElementsOf(S, OrderStep(S, done, i))
    <2>1. done \in Seq(S)
      BY <1>7 DEF ElementsOf
    <2>2. CASE S \subseteq Range(done)
      BY <1>7, <2>2 DEF OrderStep
    <2>3. CASE ~(S \subseteq Range(done))
      <3>1. PICK x : x = CHOOSE y \in S : y \notin Range(done)
        OBVIOUS
      <3>2. x \in S
        BY <2>3, <3>1
      <3>3. Append(done, x) \in Seq(S)
        BY <2>1, <3>2
      <3> QED
        BY <2>3, <3>1, <3>3 DEF OrderStep, ElementsOf
    <2> QED
      BY <2>2, <2>3
  <1>8. ElementsOf(S, Order!Loop(S, <<>>, numbers))
    BY <1>4, <1>6, <1>7, Order!LoopMaintains
  <1> QED
    BY <1>5, <1>8 DEF ElementsOf

InsertStep(S, table, assoc) == insertInOpenHashTable(table, assoc)
EntriesOf(S, table) ==
    DOMAIN table \subseteq Nat /\ \A i \in DOMAIN table : table[i] = Nil \/ table[i] \in S
Insert == INSTANCE FoldInduction WITH step <- InsertStep, Holds <- EntriesOf

(* An entry is inserted, or lost.                                          *)
LEMMA InsertOK ==
  ASSUME NEW S, NEW table, EntriesOf(S, table), NEW assoc \in S
  PROVE  EntriesOf(S, insertInOpenHashTable(table, assoc))
  <1>1. \/ insertInOpenHashTable(table, assoc) = table
        \/ \E k : insertInOpenHashTable(table, assoc) = Replacing(table, k, assoc)
    BY DEF insertInOpenHashTable, Replacing
  <1>2. ASSUME NEW k PROVE EntriesOf(S, Replacing(table, k, assoc))
    BY ReplacingOne DEF EntriesOf
  <1> QED
    BY <1>1, <1>2

(* The size of a table.                                                    *)
LEMMA TableSizeOK ==
  ASSUME NEW count \in Nat
  PROVE  TableSize(count) \in Nat
  <1>1. PICK wanted, target : wanted = (count * 3) \div 2 /\ target = Max({7, wanted})
    OBVIOUS
  <1>2. wanted \in Nat
    BY <1>1
  <1>3. target \in {7, wanted}
    <2>1. \E x \in {7, wanted} : \A y \in {7, wanted} : x >= y
      BY <1>2
    <2>2. (CHOOSE x \in {7, wanted} : \A y \in {7, wanted} : x >= y) \in {7, wanted}
      BY <2>1
    <2> QED
      BY <1>1, <2>2 DEF Max
  <1>4. PICK enough : enough = {p \in Primes : p >= target}
    OBVIOUS
  <1>5. enough \subseteq Nat
    BY <1>4 DEF Primes
  <1>6. enough # {} => Min(enough) \in enough
    BY <1>5, MinIn
  <1>7. TableSize(count) = IF enough = {} THEN target ELSE Min(enough)
    BY <1>1, <1>4 DEF TableSize
  <1>8. target \in Nat
    BY <1>2, <1>3
  <1> QED
    BY <1>5, <1>6, <1>7, <1>8

(* A new dictionary has no other entries than those it is made for.        *)
LEMMA NewDictionaryOK ==
  ASSUME NEW S, IsFiniteSet(S)
  PROVE  EntriesOf(S, newDictionary(S))
  <1>1. PICK table : table = [i \in 0 .. TableSize(Cardinality(S)) - 1 |-> Nil]
    OBVIOUS
  <1>2. EntriesOf(S, table)
    <2>1. TableSize(Cardinality(S)) \in Nat
      BY FS_CardinalityType, TableSizeOK
    <2> QED
      BY <1>1, <2>1 DEF EntriesOf
  <1>3. PICK entries : entries = InOrder(S)
    OBVIOUS
  <1>4. entries \in Seq(S)
    BY <1>3, InOrderOK
  <1>5. Len(entries) \in Nat /\ \A i \in 1 .. Len(entries) : entries[i] \in S
    BY <1>4
  <1>6. newDictionary(S) = Insert!Loop(S, table, entries)
    BY <1>1, <1>3 DEF newDictionary, InsertStep, Insert!Loop, Folded, Insert!Folded
  <1>7. ASSUME NEW u, NEW i \in 1 .. Len(entries), EntriesOf(S, u)
        PROVE  EntriesOf(S, InsertStep(S, u, entries[i]))
    BY <1>5, <1>7, InsertOK DEF InsertStep
  <1>8. EntriesOf(S, Insert!Loop(S, table, entries))
    BY <1>2, <1>5, <1>7, Insert!LoopMaintains
  <1> QED
    BY <1>6, <1>8

ClassEntries(known, names) == {[key |-> known[n], value |-> Class(n)] : n \in names}

(* createKernelNamespace.                                                  *)
LEMMA CreateKernelNamespaceLinks ==
  ASSUME Inv, LinksInv, createKernelNamespace
  PROVE  KernelInv' /\ KernelNames(namespace', objects') /\ objects' = objects
  <1>1. /\ phase = "namespace" /\ phase' = "methods"
        /\ UNCHANGED <<installation, spec, objects, symbolTable, provider, newMd>>
    BY DEF createKernelNamespace
  <1>2. KernelInv'
    BY <1>1 DEF LinksInv, KernelInv, Phases
  <1>3. PICK known : known = Interned(symbols, DOMAIN spec \cup {"WordSize", "Kernel"})
    OBVIOUS
  <1>4. PICK wordSize, kernel : /\ wordSize = [key |-> known["WordSize"], value |-> Other("WordSize")]
                                /\ kernel = [key |-> known["Kernel"], value |-> Other("Kernel")]
    OBVIOUS
  <1>5. PICK entries : entries = ClassEntries(known, DOMAIN spec) \cup {wordSize}
    OBVIOUS
  <1>6. namespace' = insertInOpenHashTable(newDictionary(entries), kernel)
    BY <1>3, <1>4, <1>5 DEF createKernelNamespace, ClassEntries
  <1>7. IsFiniteSet(DOMAIN spec) /\ DOMAIN objects = SpeciesIn(DOMAIN spec)
    BY <1>1 DEF LinksInv, KernelInv
  <1>8. IsFiniteSet(entries)
    <2>1. PICK f : f = [n \in DOMAIN spec |-> [key |-> known[n], value |-> Class(n)]]
      OBVIOUS
    <2>2. ClassEntries(known, DOMAIN spec) = {f[n] : n \in DOMAIN f} /\ IsFiniteSet(DOMAIN f)
      BY <1>7, <2>1 DEF ClassEntries
    <2> QED
      BY <1>5, <2>2, FiniteImage, FS_AddElement
  <1>9. PICK all : all = entries \cup {kernel}
    OBVIOUS
  <1>10. EntriesOf(all, namespace')
    <2>1. EntriesOf(all, newDictionary(entries))
      BY <1>8, <1>9, NewDictionaryOK DEF EntriesOf
    <2> QED
      BY <1>6, <1>9, <2>1, InsertOK
  <1>11. ASSUME NEW e \in all, IsClass(e.value)
         PROVE  e.value \in DOMAIN objects /\ e.value.module = Kernel
    <2>1. wordSize.value.side # "class" /\ kernel.value.side # "class"
      BY <1>4 DEF Other
    <2>2. e \in ClassEntries(known, DOMAIN spec)
      BY <1>5, <1>9, <1>11, <2>1 DEF IsClass
    <2>3. PICK n \in DOMAIN spec : e = [key |-> known[n], value |-> Class(n)]
      BY <2>2 DEF ClassEntries
    <2>4. e.value = Class(n)
      BY <2>3
    <2> QED
      BY <1>7, <2>4 DEF SpeciesIn, Class, Kernel
  <1>12. KernelNames(namespace', objects')
    BY <1>1, <1>10, <1>11 DEF KernelNames, EntriesOf
  <1> QED
    BY <1>1, <1>2, <1>12

-----------------------------------------------------------------------------
(* Methods are put into dictionaries that are there.                       *)
Filled(objs, kinds) == \A sp \in DOMAIN objs : SlotsLinked(objs[sp], objs) /\ KindIn(objs[sp], kinds)

(* Other pairs change neither what a behavior links to nor the kind of its *)
(* dictionary.                                                             *)
LEMMA WithPairsLinks ==
  ASSUME NEW slots, NEW objs, NEW kinds, SlotsLinked(slots, objs), KindIn(slots, kinds), NEW pairs
  PROVE  /\ SlotsLinked(WithPairs(slots, pairs), objs) /\ KindIn(WithPairs(slots, pairs), kinds)
         /\ WithPairs(slots, pairs).next = slots.next
         /\ WithPairs(slots, pairs).superclass = slots.superclass
  <1>1. PICK md : md = Replacing(slots.md, "pairs", pairs)
    OBVIOUS
  <1>2. "kind" \in DOMAIN md /\ md.kind = slots.md.kind
    BY <1>1, ReplacingOne DEF KindIn
  <1>3. PICK new : new = Replacing(slots, "md", md)
    OBVIOUS
  <1>4. WithPairs(slots, pairs) = new
    BY <1>1, <1>3 DEF WithPairs, Replacing
  <1>5. /\ DOMAIN new = DOMAIN slots /\ new.md = md
        /\ new.next = slots.next /\ new.superclass = slots.superclass
    BY <1>3, ReplacingOne DEF SlotsLinked
  <1> QED
    BY <1>2, <1>4, <1>5 DEF SlotsLinked, KindIn

(* One behavior gets other pairs.                                          *)
LEMMA OthersPairs ==
  ASSUME NEW objs, NEW kinds, Filled(objs, kinds), NEW sp, NEW pairs,
         NEW new, new = Replacing(objs, sp, WithPairs(objs[sp], pairs))
  PROVE  Filled(new, kinds) /\ DOMAIN new = DOMAIN objs
  <1>1. /\ DOMAIN new = DOMAIN objs
        /\ \A x \in DOMAIN objs : new[x] = IF x = sp THEN WithPairs(objs[sp], pairs) ELSE objs[x]
    BY ReplacingOne
  <1>2. \A x \in DOMAIN objs : SlotsLinked(new[x], objs) /\ KindIn(new[x], kinds)
    BY <1>1, WithPairsLinks DEF Filled
  <1> QED
    BY <1>1, <1>2 DEF Filled, SlotsLinked

(* What loadKernelMethods does, one behavior after the other.              *)
LEMMA KernelMethodsAre ==
  ASSUME loadKernelMethods, NEW class, class = Class(First),
         NEW half, half = InstallIn(objects, class, symbols', spec[First].methods)
  PROVE  objects' = InstallIn(half, Metaclass(class), symbols', spec[First].metaMethods)
  <1>1. PICK metaclass : metaclass = Metaclass(class)
    OBVIOUS
  <1>2. class # metaclass
    <2>1. class.side = "class" /\ metaclass.side = "metaclass"
      BY <1>1 DEF Class, Metaclass
    <2> QED
      BY <2>1
  <1>3. PICK known, objs, methods, metaMethods :
           /\ known = symbols' /\ objs = objects
           /\ methods = spec[First].methods /\ metaMethods = spec[First].metaMethods
    OBVIOUS
  <1>4. objects' = [objs EXCEPT ![class].md.pairs = InstallAll(known, @, class, methods),
                                ![metaclass].md.pairs = InstallAll(known, @, metaclass, metaMethods)]
    BY <1>1, <1>3 DEF loadKernelMethods
  <1>5. half = InstallIn(objs, class, known, methods)
    BY <1>3
  <1>6. objects' = InstallIn(half, metaclass, known, metaMethods)
    BY <1>2, <1>4, <1>5, ZenonT(40) DEF InstallIn, Replacing, WithPairs
  <1> QED
    BY <1>1, <1>3, <1>6

(* loadKernelMethods.                                                      *)
LEMMA LoadKernelMethodsLinks ==
  ASSUME Inv, LinksInv, loadKernelMethods
  PROVE  /\ KernelInv' /\ KernelNames(namespace', objects')
         /\ DOMAIN objects' = DOMAIN objects
  <1>1. /\ phase = "methods" /\ phase' \in {"methods", "runtime"}
        /\ UNCHANGED <<installation, spec, namespace, symbolTable, provider, newMd>>
    BY DEF loadKernelMethods, Continue
  <1>2. /\ "Class" \in DOMAIN spec /\ IsFiniteSet(DOMAIN spec)
        /\ DOMAIN objects = SpeciesIn(DOMAIN spec)
        /\ Filled(objects, Kinds) /\ provider \in {"bootstrap", "dynamic"}
    BY <1>1 DEF LinksInv, KernelInv, Linked, Filled
  <1>3. PICK half : half = InstallIn(objects, Class(First), symbols', spec[First].methods)
    OBVIOUS
  <1>4. Filled(half, Kinds) /\ DOMAIN half = DOMAIN objects
    BY <1>2, <1>3, OthersPairs DEF InstallIn
  <1>5. objects' = InstallIn(half, Metaclass(Class(First)), symbols', spec[First].metaMethods)
    BY <1>3, KernelMethodsAre
  <1>6. Filled(objects', Kinds) /\ DOMAIN objects' = DOMAIN half
    <2>1. PICK full, known, methods : /\ full = objects' /\ known = symbols'
                                      /\ methods = spec[First].metaMethods
      OBVIOUS
    <2>2. full = InstallIn(half, Metaclass(Class(First)), known, methods)
      BY <1>5, <2>1
    <2>3. Filled(full, Kinds) /\ DOMAIN full = DOMAIN half
      BY <1>4, <2>2, OthersPairs DEF InstallIn
    <2> QED
      BY <2>1, <2>3
  <1>7. KernelInv'
    BY <1>1, <1>2, <1>4, <1>6 DEF KernelInv, Phases, Filled, Linked
  <1>8. KernelNames(namespace', objects')
    BY <1>1, <1>4, <1>6 DEF LinksInv, KernelNames
  <1> QED
    BY <1>4, <1>6, <1>7, <1>8

(* The new dictionary takes the place of the array.                        *)
LEMMA ReplaceMethodDictLinks ==
  ASSUME Inv, LinksInv, ReplaceMethodDict
  PROVE  /\ KernelInv' /\ KernelNames(namespace', objects')
         /\ DOMAIN objects' = DOMAIN objects
  <1>1. /\ phase = "convert" /\ todo' = todo \ {Converting}
        /\ phase' = IF todo = {Converting} THEN "done" ELSE phase
        /\ UNCHANGED <<installation, spec, namespace, symbols, symbolTable, provider>>
    BY DEF ReplaceMethodDict
  <1>2. /\ "Class" \in DOMAIN spec /\ IsFiniteSet(DOMAIN spec)
        /\ DOMAIN objects = SpeciesIn(DOMAIN spec)
        /\ \A x \in DOMAIN objects : KindIn(objects[x], Kinds)
        /\ \A x \in DOMAIN objects \ todo : KindIn(objects[x], {"MethodDictionary"})
        /\ Linked(objects) /\ provider \in {"bootstrap", "dynamic"}
    BY <1>1 DEF LinksInv, KernelInv
  <1>3. PICK sp : sp = Converting
    OBVIOUS
  <1>4. sp \in todo /\ todo \subseteq DOMAIN objects
    BY <1>1, <1>3, ConvertingOK DEF Inv
  <1>5. PICK md : md = [kind |-> "MethodDictionary", pairs |-> newMd]
    OBVIOUS
  <1>6. PICK slots : slots = Replacing(objects[sp], "md", md)
    OBVIOUS
  <1>7. objects' = Replacing(objects, sp, slots)
    BY <1>3, <1>5, <1>6 DEF ReplaceMethodDict, Replacing
  <1>8. /\ DOMAIN objects' = DOMAIN objects
        /\ \A x \in DOMAIN objects : objects'[x] = IF x = sp THEN slots ELSE objects[x]
    BY <1>7, ReplacingOne
  <1>9. SlotsLinked(slots, objects) /\ KindIn(slots, {"MethodDictionary"})
    <2>1. SlotsLinked(objects[sp], objects)
      BY <1>2, <1>4 DEF Linked
    <2>2. /\ DOMAIN slots = DOMAIN objects[sp] /\ slots.md = md
          /\ slots.next = objects[sp].next /\ slots.superclass = objects[sp].superclass
      BY <1>6, <2>1, ReplacingOne DEF SlotsLinked
    <2>3. "kind" \in DOMAIN md /\ md.kind = "MethodDictionary"
      BY <1>5
    <2> QED
      BY <2>1, <2>2, <2>3 DEF SlotsLinked, KindIn
  <1>10. Linked(objects')
    <2>1. \A x \in DOMAIN objects : SlotsLinked(objects'[x], objects)
      BY <1>2, <1>8, <1>9 DEF Linked
    <2> QED
      BY <1>8, <2>1 DEF Linked, SlotsLinked
  <1>11. \A x \in DOMAIN objects' \ todo' : KindIn(objects'[x], {"MethodDictionary"})
    BY <1>1, <1>2, <1>3, <1>8, <1>9
  <1>12. \A x \in DOMAIN objects' : KindIn(objects'[x], Kinds)
    BY <1>2, <1>8, <1>9 DEF KindIn, Kinds
  <1>13. todo = {Converting} =>
            Paired(objects') /\ \A x \in DOMAIN objects' : KindIn(objects'[x], {"MethodDictionary"})
    BY <1>1, <1>2, <1>8, <1>11, KernelSpecies DEF Paired
  <1>14. KernelInv'
    BY <1>1, <1>2, <1>8, <1>10, <1>11, <1>12, <1>13 DEF KernelInv, Phases
  <1>15. KernelNames(namespace', objects')
    BY <1>1, <1>8 DEF LinksInv, KernelNames
  <1> QED
    BY <1>8, <1>14, <1>15

(* The bootstrap as a whole.                                               *)
LEMMA BootstrapLinks ==
  ASSUME Inv, LinksInv, BootNext, UNCHANGED loaderVars
  PROVE  LinksInv'
  <1>1. /\ KernelInv' /\ KernelNames(namespace', objects')
        /\ \A sp \in DOMAIN objects' : sp \in DOMAIN objects \/ sp.module = Kernel
    BY LoadKernelSpecsLinks, CreateInitialObjectsLinks, InstantiateLinks, InitializeLinks,
       CreateKernelNamespaceLinks, LoadKernelMethodsLinks, LaterPhasesLinks,
       ReplaceMethodDictLinks DEF BootNext
  <1>2. phase # "done"
    BY DEF BootNext, loadKernelSpecs, createInitialObjects, instantiateMetaobjectsOf,
           initializeMetaobjectsOf, createKernelNamespace, loadKernelMethods,
           createRuntimeWithBootstrappedKernel, fillSymbolTable,
           switchToDynamicSymbolProvider, NewMethodDict, ConvertPair, ReplaceMethodDict
  <1>3. ModuleInv'
    BY <1>1, <1>2, NoModules
  <1> QED
    BY <1>1, <1>3 DEF LinksInv

-----------------------------------------------------------------------------
(* The loader.  When the bootstrap is over, every behavior is complete.    *)
HeapOK(objs, mods) ==
    Filled(objs, {"MethodDictionary"}) /\ Paired(objs) /\ ModulesLinked(mods, objs)

(* That is what the invariant says then.                                   *)
LEMMA DoneIs ==
  ASSUME LinksInv, phase = "done"
  PROVE  HeapOK(objects, modules) /\ KernelNames(namespace, objects)
  BY DEF LinksInv, KernelInv, ModuleInv, HeapOK, Filled, Linked

(* What a step of the loader has to show.                                  *)
LEMMA DoneKept ==
  ASSUME LinksInv, phase = "done", UNCHANGED <<phase, spec, namespace, provider>>,
         HeapOK(objects', modules'),
         \A sp \in DOMAIN objects : sp.module = Kernel => sp \in DOMAIN objects',
         Range(kernelModules)' \subseteq DOMAIN modules',
         <<"Kernel">> \in DOMAIN kernelModules' => kernelModules'[<<"Kernel">>] = Kernel,
         LoadsApart(loads', objects', modules', Range(kernelModules)', Registered')
  PROVE  LinksInv'
  <1>1. \A sp \in DOMAIN objects' : KindIn(objects'[sp], {"MethodDictionary"})
    BY DEF HeapOK, Filled
  <1>2. \A sp \in DOMAIN objects' : KindIn(objects'[sp], Kinds)
    BY <1>1 DEF KindIn, Kinds
  <1>3. "Class" \in DOMAIN spec /\ IsFiniteSet(DOMAIN spec) /\ provider \in {"bootstrap", "dynamic"}
    BY DEF LinksInv, KernelInv
  <1>4. Linked(objects') /\ Paired(objects')
    BY DEF HeapOK, Filled, Linked
  <1>5. KernelInv'
    BY <1>1, <1>2, <1>3, <1>4 DEF KernelInv, Phases
  <1>6. KernelNames(namespace', objects')
    BY DEF LinksInv, KernelNames
  <1>7. ModuleInv'
    BY DEF HeapOK, ModuleInv
  <1> QED
    BY <1>5, <1>6, <1>7 DEF LinksInv

(* Nothing refers to a module that is not there.                           *)
LEMMA AbsentIsolated ==
  ASSUME NEW objs, NEW mods, HeapOK(objs, mods), NEW m, m \notin DOMAIN mods, m # Kernel
  PROVE  Isolated(m, objs, mods) /\ \A sp \in DOMAIN objs : sp.module # m
  <1>1. \A sp \in DOMAIN objs : sp.module # m
    BY DEF HeapOK, ModulesLinked
  <1>2. \A sp \in DOMAIN objs : Elsewhere(objs[sp].next, m) /\ Elsewhere(objs[sp].superclass, m)
    BY <1>1 DEF HeapOK, Filled, SlotsLinked, Elsewhere
  <1>3. \A k \in DOMAIN mods : \A n \in DOMAIN mods[k].namespace :
           IsClass(mods[k].namespace[n]) => mods[k].namespace[n].module # m
    BY <1>1 DEF HeapOK, ModulesLinked, NamesLinked
  <1> QED
    BY <1>1, <1>2, <1>3 DEF Isolated

(* f is what g is on S.                                                    *)
Restricts(f, g, S) == DOMAIN f = S /\ \A x \in S : f[x] = g[x]
Outside(objs, m) == {sp \in DOMAIN objs : sp.module # m}

(* A module that nothing refers to may go, with its classes.               *)
LEMMA Removed ==
  ASSUME NEW objs, NEW mods, HeapOK(objs, mods), NEW m, Isolated(m, objs, mods),
         NEW left, Restricts(left, objs, Outside(objs, m)),
         NEW others, Restricts(others, mods, DOMAIN mods \ {m})
  PROVE  HeapOK(left, others)
  <1> USE DEF Restricts, Outside
  <1>1. Filled(left, {"MethodDictionary"})
    BY DEF HeapOK, Filled, SlotsLinked, Isolated, Elsewhere
  <1>2. Paired(left)
    BY DEF HeapOK, Paired
  <1>3. ASSUME NEW k \in DOMAIN others PROVE NamesLinked(others[k], left)
    BY <1>3 DEF HeapOK, ModulesLinked, NamesLinked, Isolated
  <1>4. ModulesLinked(others, left)
    BY <1>3 DEF HeapOK, ModulesLinked
  <1> QED
    BY <1>1, <1>2, <1>4 DEF HeapOK

(* The load on top, and those below.                                       *)
LEMMA StackIs ==
  ASSUME Inv, LinksInv, loads # <<>>
  PROVE  /\ LoadApart(Top, objects, modules, Range(kernelModules), Registered)
         /\ \A i \in 1 .. Len(Pop) :
               /\ LoadApart(Pop[i], objects, modules, Range(kernelModules), Registered)
               /\ Pop[i].step = "import" /\ Pop[i].step \in Unregistered
               /\ Top.step \in Unregistered => Pop[i].module # Top.module
  <1>1. PICK ls : ls = loads
    OBVIOUS
  <1>2. Top = ls[Len(ls)] /\ Pop = Popped(ls)
    BY <1>1 DEF Top, Pop, Popped
  <1>3. IsSeq(ls) /\ ls # <<>>
    BY <1>1 DEF Inv, LoaderInv, LoadsOK
  <1>4. /\ Len(ls) \in Nat /\ Len(ls) >= 1 /\ Len(Popped(ls)) = Len(ls) - 1
        /\ \A i \in 1 .. Len(ls) - 1 : Popped(ls)[i] = ls[i]
    BY <1>3, PoppedIs
  <1>5. LoadsApart(ls, objects, modules, Range(kernelModules), Registered)
    BY <1>1 DEF LinksInv, ModuleInv
  <1>6. \A i \in 1 .. Len(Pop) : Apart(Pop[i], Top)
    BY <1>1, <1>3, TopIs
  <1> QED
    BY <1>2, <1>4, <1>5, <1>6 DEF LoadsApart, Apart, Unregistered

(* A load on top of others that import.                                    *)
LEMMA Stacked ==
  ASSUME NEW ls, IsSeq(ls), NEW l, NEW objs, NEW mods, NEW bound, NEW registered,
         \A i \in 1 .. Len(ls) :
            LoadApart(ls[i], objs, mods, bound, registered) /\ ls[i].step = "import",
         LoadApart(l, objs, mods, bound, registered)
  PROVE  LoadsApart(Append(ls, l), objs, mods, bound, registered)
  <1>1. PICK new : new = Append(ls, l)
    OBVIOUS
  <1>2. /\ Len(ls) \in Nat /\ Len(new) = Len(ls) + 1
        /\ \A i \in 1 .. Len(ls) + 1 : new[i] = IF i = Len(ls) + 1 THEN l ELSE ls[i]
    BY <1>1, Appended DEF IsSeq
  <1>3. \A i \in 1 .. Len(new) : LoadApart(new[i], objs, mods, bound, registered)
    BY <1>2
  <1>4. \A i \in 1 .. Len(new) - 1 : new[i].step = "import"
    BY <1>2
  <1> QED
    BY <1>1, <1>3, <1>4 DEF LoadsApart

(* No loads.                                                               *)
LEMMA NoneApart ==
  ASSUME NEW objs, NEW mods, NEW bound, NEW registered
  PROVE  LoadsApart(<<>>, objs, mods, bound, registered)
  BY Emptied DEF LoadsApart

(* The steps that change nothing but the loads and what is registered.     *)
LEMMA OnlyLoadsLinks ==
  ASSUME LinksInv, phase = "done", UNCHANGED <<bootVars, modules, kernelModules>>,
         LoadsApart(loads', objects, modules, Range(kernelModules), Registered')
  PROVE  LinksInv'
  <1>1. UNCHANGED <<phase, spec, namespace, provider, objects, modules, kernelModules>>
    BY DEF bootVars
  <1>2. HeapOK(objects', modules')
    BY <1>1, DoneIs
  <1>3. Range(kernelModules)' = Range(kernelModules)
    BY <1>1 DEF Range
  <1>4. LoadsApart(loads', objects', modules', Range(kernelModules)', Registered')
    BY <1>1, <1>3
  <1>5. /\ Range(kernelModules)' \subseteq DOMAIN modules'
        /\ <<"Kernel">> \in DOMAIN kernelModules' => kernelModules'[<<"Kernel">>] = Kernel
    BY <1>1, <1>3 DEF LinksInv, ModuleInv
  <1> QED
    BY <1>1, <1>2, <1>4, <1>5, DoneKept

(* An error of the program.                                                *)
LEMMA StopLinks ==
  ASSUME Inv, LinksInv, loads # <<>>, NEW why, Stop(why)
  PROVE  LinksInv'
  <1>1. loads' = <<>> /\ UNCHANGED <<bootVars, modules, loadedModules, kernelModules>>
    BY DEF Stop
  <1>2. phase = "done"
    BY Loading
  <1> QED
    BY <1>1, <1>2, NoneApart, OnlyLoadsLinks

(* An error in a source: nothing refers to what goes with the load.        *)
LEMMA FailLinks ==
  ASSUME Inv, LinksInv, loads # <<>>, Fail, Top.module \notin Registered,
         Top.step \in Unregistered \/ Top.module = Nil
  PROVE  LinksInv'
  <1>1. /\ loads' = <<>>
        /\ UNCHANGED <<installation, phase, spec, todo, namespace, symbols, symbolTable, provider,
                       newMd, loadedModules, kernelModules>>
    BY DEF Fail
  <1>2. phase = "done" /\ DOMAIN modules # {}
    BY Loading DEF Inv, LoaderInv
  <1>3. PICK m : m = Top.module
    OBVIOUS
  <1>4. m # Kernel
    BY <1>3 DEF Registered
  <1>5. HeapOK(objects, modules)
    BY <1>2, DoneIs
  <1>6. Range(kernelModules) \subseteq DOMAIN modules /\ DOMAIN modules \subseteq Nat
    BY DEF LinksInv, ModuleInv, Inv, LoaderInv
  <1>7. Isolated(m, objects, modules) /\ m \notin Range(kernelModules)
    <2>1. CASE Top.step \in Unregistered
      BY <1>3, <2>1, StackIs DEF LoadApart
    <2>2. CASE Top.module = Nil
      <3>1. m \notin DOMAIN modules
        BY <1>3, <1>6, <2>2, NilAssumption
      <3> QED
        BY <1>4, <1>5, <1>6, <3>1, AbsentIsolated
    <2> QED
      BY <2>1, <2>2
  <1>8. /\ DOMAIN objects' = {sp \in DOMAIN objects : sp.module # m}
        /\ \A sp \in DOMAIN objects' : objects'[sp] = objects[sp]
        /\ DOMAIN modules' = DOMAIN modules \ {m}
        /\ \A k \in DOMAIN modules' : modules'[k] = modules[k]
    BY <1>3 DEF Fail
  <1>9. HeapOK(objects', modules')
    <2>1. PICK objs, mods, left, others :
             objs = objects /\ mods = modules /\ left = objects' /\ others = modules'
      OBVIOUS
    <2>2. HeapOK(objs, mods) /\ Isolated(m, objs, mods)
      BY <1>5, <1>7, <2>1
    <2>3. Restricts(left, objs, Outside(objs, m)) /\ Restricts(others, mods, DOMAIN mods \ {m})
      BY <1>8, <2>1 DEF Restricts, Outside
    <2>4. HeapOK(left, others)
      BY <2>2, <2>3, Removed
    <2> QED
      BY <2>1, <2>4
  <1>10. Range(kernelModules)' = Range(kernelModules)
    BY <1>1 DEF Range
  <1>11. /\ Range(kernelModules)' \subseteq DOMAIN modules'
         /\ <<"Kernel">> \in DOMAIN kernelModules' => kernelModules'[<<"Kernel">>] = Kernel
    BY <1>1, <1>6, <1>7, <1>8, <1>10 DEF LinksInv, ModuleInv
  <1>12. \A sp \in DOMAIN objects : sp.module = Kernel => sp \in DOMAIN objects'
    BY <1>4, <1>8
  <1>13. LoadsApart(loads', objects', modules', Range(kernelModules)', Registered')
    BY <1>1, NoneApart
  <1> QED
    BY <1>1, <1>2, <1>9, <1>11, <1>12, <1>13, DoneKept

(* The kernel is the first module, and has no other names than its table.  *)
LEMMA LoadKernelLinks ==
  ASSUME Inv, LinksInv, loadKernel
  PROVE  LinksInv'
  <1>1. /\ phase = "done" /\ DOMAIN modules = {}
        /\ UNCHANGED <<bootVars, loads, stopped>>
    BY DEF loadKernel
  <1>2. UNCHANGED <<phase, spec, namespace, provider, objects>> /\ loads' = <<>>
    BY <1>1 DEF bootVars, Inv, LoaderInv
  <1>3. PICK kernel : kernel = [path |-> <<"Kernel">>, namespace |-> <<>>, extensions |-> <<>>,
                                overriden |-> <<>>]
    OBVIOUS
  <1>4. modules' = At(Kernel, kernel) /\ kernelModules' = At(<<"Kernel">>, Kernel)
    BY <1>3 DEF loadKernel
  <1>5. /\ DOMAIN modules' = {Kernel} /\ modules'[Kernel] = kernel
        /\ kernelModules'[<<"Kernel">>] = Kernel /\ Range(kernelModules)' = {Kernel}
    BY <1>4 DEF At, Range
  <1>6. {"path", "namespace"} \subseteq DOMAIN kernel /\ DOMAIN kernel.namespace = {}
    BY <1>3
  <1>7. HeapOK(objects, modules)
    BY <1>1, DoneIs
  <1>8. NamesLinked(kernel, objects)
    BY <1>6 DEF NamesLinked
  <1>9. HeapOK(objects', modules')
    BY <1>1, <1>2, <1>5, <1>7, <1>8 DEF HeapOK, ModulesLinked
  <1>10. LoadsApart(loads', objects', modules', Range(kernelModules)', Registered')
    BY <1>2, NoneApart
  <1> QED
    BY <1>1, <1>2, <1>5, <1>9, <1>10, DoneKept

(* A load begins with nothing, or with a module that is registered.        *)
LEMMA LoadOfApart ==
  ASSUME NEW path, path # <<"Kernel">>, NEW objs, NEW mods, NEW bound
  PROVE  LoadApart(LoadOf(path), objs, mods, bound, Registered)
  <1>1. PICK l : l = LoadOf(path)
    OBVIOUS
  <1>2. CASE Last(path) \in DOMAIN loadedModules
    <2>1. PICK m : m = loadedModules[Last(path)]
      OBVIOUS
    <2>2. m \in Registered
      BY <1>2, <2>1 DEF Range, Registered
    <2>3. l = [path |-> path, step |-> "justLoaded", module |-> m, files |-> <<>>, imports |-> <<>>]
      BY <1>1, <1>2, <2>1 DEF LoadOf
    <2>4. l.path = path /\ l.step = "justLoaded" /\ l.module = m
      BY <2>3
    <2> QED
      BY <1>1, <2>2, <2>4 DEF LoadApart, Unregistered
  <1>3. CASE Last(path) \notin DOMAIN loadedModules
    <2>1. l = [path |-> path, step |-> "create", module |-> Nil, files |-> <<>>, imports |-> <<>>]
      BY <1>1, <1>3 DEF LoadOf
    <2>2. l.path = path /\ l.step = "create"
      BY <2>1
    <2> QED
      BY <1>1, <2>2 DEF LoadApart, Unregistered
  <1> QED
    BY <1>2, <1>3

(* load.                                                                   *)
LEMMA LoadLinks ==
  ASSUME Inv, LinksInv, NEW path \in DOMAIN installation.modules, load(path)
  PROVE  LinksInv'
  <1>1. /\ DOMAIN modules # {} /\ loads' = <<LoadOf(path)>> /\ path \notin DOMAIN kernelModules
        /\ UNCHANGED <<bootVars, modules, loadedModules, kernelModules, stopped>>
    BY DEF load
  <1>2. phase = "done" /\ path # <<"Kernel">>
    BY <1>1, Loading DEF Inv, LoaderInv
  <1>3. PICK l : l = LoadOf(path)
    OBVIOUS
  <1>4. LoadApart(l, objects, modules, Range(kernelModules), Registered)
    BY <1>2, <1>3, LoadOfApart
  <1>5. PICK ls : ls = <<l>>
    OBVIOUS
  <1>6. Len(ls) = 1 /\ ls[1] = l
    BY <1>5
  <1>7. LoadsApart(ls, objects, modules, Range(kernelModules), Registered)
    BY <1>4, <1>6 DEF LoadsApart
  <1>8. Registered' = Registered
    BY <1>1 DEF Registered
  <1> QED
    BY <1>1, <1>2, <1>3, <1>5, <1>7, <1>8, OnlyLoadsLinks

(* A path at which there is nothing.                                       *)
LEMMA ModuleNotFoundLinks ==
  ASSUME Inv, LinksInv, moduleNotFound
  PROVE  LinksInv'
  <1>1. loads # <<>> /\ Top.step = "create" /\ Fail
    BY DEF moduleNotFound
  <1>2. Top.module = Nil
    BY <1>1, TopIs DEF LoadOK
  <1>3. DOMAIN modules \subseteq Nat /\ Registered \subseteq Nat
    BY DEF Inv, LoaderInv, Registered, Kernel
  <1> QED
    BY <1>1, <1>2, <1>3, NilAssumption, FailLinks

-----------------------------------------------------------------------------
(* Names.  A class that a module knows by a name is there, and it is of no *)
(* module that nothing refers to.                                          *)
LEMMA NamespaceLinks ==
  ASSUME LinksInv, phase = "done", NEW m \in DOMAIN modules, NEW n, NEW value,
         value = NamespaceAt(m, n), value # Nil, IsClass(value)
  PROVE  /\ value \in DOMAIN objects
         /\ m = Kernel => value.module = Kernel
         /\ \A x : x # Kernel /\ x # m /\ Isolated(x, objects, modules) => value.module # x
  <1>1. HeapOK(objects, modules) /\ KernelNames(namespace, objects)
    BY DoneIs
  <1>2. CASE m = Kernel
    <2>1. PICK assoc : assoc = lookupAssociationFor(DynamicSymbol(symbolTable, n), namespace)
      OBVIOUS
    <2>2. assoc # Nil /\ value = assoc.value
      BY <1>2, <2>1 DEF NamespaceAt
    <2>3. PICK symbol : symbol = DynamicSymbol(symbolTable, n)
      OBVIOUS
    <2>4. PICK at : at = {i \in DOMAIN namespace : namespace[i] # Nil /\ namespace[i].key = symbol}
      OBVIOUS
    <2>5. assoc = IF at = {} THEN Nil ELSE namespace[Min(at)]
      BY <2>1, <2>3, <2>4 DEF lookupAssociationFor
    <2>6. at \subseteq Nat /\ at \subseteq DOMAIN namespace
      BY <1>1, <2>4 DEF KernelNames
    <2>7. Min(at) \in DOMAIN namespace
      BY <2>2, <2>5, <2>6, MinIn
    <2>8. value \in DOMAIN objects /\ value.module = Kernel
      BY <1>1, <2>2, <2>5, <2>7 DEF KernelNames
    <2> QED
      BY <1>2, <2>8
  <1>3. CASE m # Kernel
    <2>1. n \in DOMAIN modules[m].namespace /\ value = modules[m].namespace[n]
      BY <1>3 DEF NamespaceAt
    <2>2. value \in DOMAIN objects
      BY <1>1, <2>1 DEF HeapOK, ModulesLinked, NamesLinked
    <2>3. ASSUME NEW x, x # m, Isolated(x, objects, modules) PROVE value.module # x
      BY <2>1, <2>3 DEF Isolated
    <2> QED
      BY <1>3, <2>2, <2>3
  <1> QED
    BY <1>2, <1>3

(* A module gets a name for a class.                                       *)
LEMMA NameAdded ==
  ASSUME NEW objs, NEW mods, HeapOK(objs, mods), NEW k \in DOMAIN mods, NEW n, NEW value,
         IsClass(value) => value \in DOMAIN objs,
         NEW names, names = Over(At(n, value), mods[k].namespace),
         NEW mods2, mods2 = Replacing(mods, k, Replacing(mods[k], "namespace", names))
  PROVE  /\ HeapOK(objs, mods2) /\ DOMAIN mods2 = DOMAIN mods
         /\ \A x : Isolated(x, objs, mods) /\ (x = k \/ (IsClass(value) => value.module # x))
                     => Isolated(x, objs, mods2)
  <1>1. PICK module : module = Replacing(mods[k], "namespace", names)
    OBVIOUS
  <1>2. NamesLinked(mods[k], objs)
    BY DEF HeapOK, ModulesLinked
  <1>3. {"path", "namespace"} \subseteq DOMAIN module /\ module.namespace = names
    BY <1>1, <1>2, ReplacingOne DEF NamesLinked
  <1>4. /\ DOMAIN names = {n} \cup DOMAIN mods[k].namespace
        /\ \A y \in DOMAIN names : names[y] = IF y = n THEN value ELSE mods[k].namespace[y]
    BY DEF Over, At
  <1>5. /\ DOMAIN mods2 = DOMAIN mods /\ mods2[k] = module
        /\ \A y \in DOMAIN mods : y # k => mods2[y] = mods[y]
    BY <1>1, ReplacingOne
  <1>6. NamesLinked(module, objs)
    BY <1>2, <1>3, <1>4 DEF NamesLinked
  <1>7. HeapOK(objs, mods2)
    BY <1>5, <1>6 DEF HeapOK, ModulesLinked
  <1>8. ASSUME NEW x, Isolated(x, objs, mods), x = k \/ (IsClass(value) => value.module # x)
        PROVE  Isolated(x, objs, mods2)
    <2>1. ASSUME NEW y \in DOMAIN mods2 \ {x}, NEW z \in DOMAIN mods2[y].namespace,
                 IsClass(mods2[y].namespace[z])
          PROVE  mods2[y].namespace[z].module # x
      <3>1. CASE y # k
        BY <1>5, <1>8, <2>1, <3>1 DEF Isolated
      <3>2. CASE y = k
        <4>1. z \in DOMAIN names /\ IsClass(names[z]) /\ mods2[y].namespace[z] = names[z]
          BY <1>3, <1>5, <2>1, <3>2
        <4>2. CASE z = n
          BY <1>4, <1>8, <2>1, <3>2, <4>1, <4>2
        <4>3. CASE z # n
          <5>1. names[z] = mods[k].namespace[z] /\ z \in DOMAIN mods[k].namespace /\ k \in DOMAIN mods \ {x}
            BY <1>4, <1>5, <2>1, <3>2, <4>1, <4>3
          <5> QED
            BY <1>8, <4>1, <5>1 DEF Isolated
        <4> QED
          BY <4>2, <4>3
      <3> QED
        BY <3>1, <3>2
    <2> QED
      BY <1>8, <2>1 DEF Isolated
  <1> QED
    BY <1>5, <1>7, <1>8

(* The load on top goes on, while nothing comes to refer to the modules of *)
(* the others.                                                             *)
LEMMA TopGoesOn ==
  ASSUME Inv, LinksInv, loads # <<>>, NEW l, NEW objs, NEW mods, NEW bound, NEW registered,
         Registered \subseteq registered, LoadApart(l, objs, mods, bound, registered),
         \A i \in 1 .. Len(Pop) : Pop[i].module \notin bound /\ Isolated(Pop[i].module, objs, mods)
  PROVE  LoadsApart(Append(Pop, l), objs, mods, bound, registered)
  <1>1. PICK ls : ls = Pop
    OBVIOUS
  <1>2. IsSeq(ls)
    BY <1>1, TopIs DEF LoadsOK
  <1>3. \A i \in 1 .. Len(ls) : LoadApart(ls[i], objs, mods, bound, registered) /\ ls[i].step = "import"
    BY <1>1, StackIs DEF LoadApart
  <1>4. LoadsApart(Append(ls, l), objs, mods, bound, registered)
    BY <1>2, <1>3, Stacked
  <1> QED
    BY <1>1, <1>4

(* Nothing refers to the modules of the loads below.                       *)
LEMMA OthersAre ==
  ASSUME Inv, LinksInv, loads # <<>>, NEW i \in 1 .. Len(Pop)
  PROVE  /\ Pop[i].module \in DOMAIN modules \ Registered
         /\ Pop[i].module \notin Range(kernelModules) /\ Pop[i].module # Kernel
         /\ Isolated(Pop[i].module, objects, modules)
         /\ Top.step \in Unregistered => Pop[i].module # Top.module
  <1>1. /\ Pop[i].step \in Unregistered
        /\ LoadApart(Pop[i], objects, modules, Range(kernelModules), Registered)
        /\ Top.step \in Unregistered => Pop[i].module # Top.module
    BY StackIs
  <1>2. LoadOK(Pop[i], installation, DOMAIN modules, Registered)
    BY TopIs DEF LoadsOK
  <1> QED
    BY <1>1, <1>2 DEF LoadApart, LoadOK, Registered

(* Phase 4: what is imported is of a module that the kernel has.           *)
LEMMA ImportRequiredLinks ==
  ASSUME Inv, LinksInv, importRequired
  PROVE  LinksInv'
  <1>1. loads # <<>> /\ Top.step = "import" /\ Top.step \in Unregistered
    BY DEF importRequired, Unregistered
  <1>2. phase = "done" /\ <<"Kernel">> \in DOMAIN kernelModules
    BY <1>1, Loading, TopIs DEF Inv, LoaderInv
  <1>3. PICK top, import : top = Top /\ import = Head(top.imports)
    OBVIOUS
  <1>4. /\ LoadOK(top, installation, DOMAIN modules, Registered)
        /\ LoadApart(top, objects, modules, Range(kernelModules), Registered)
    BY <1>1, <1>3, TopIs, StackIs
  <1>5. /\ {"path", "step", "module", "files", "imports"} \subseteq DOMAIN top
        /\ top.module \in DOMAIN modules \ Registered /\ top.module \notin Range(kernelModules)
        /\ top.path # <<"Kernel">> /\ Isolated(top.module, objects, modules)
    BY <1>1, <1>3, <1>4 DEF LoadOK, LoadApart
  <1>6. Range(kernelModules) \subseteq DOMAIN modules
    BY DEF LinksInv, ModuleInv
  <1>7. CASE import.module \notin DOMAIN kernelModules
    <2>1. /\ loads' = Append(loads, LoadOf(import.module))
          /\ UNCHANGED <<bootVars, modules, loadedModules, kernelModules, stopped>>
      BY <1>3, <1>7 DEF importRequired
    <2>2. PICK ls, l, path : ls = loads /\ path = import.module /\ l = LoadOf(path)
      OBVIOUS
    <2>3. PICK objs, mods, bound, registered : /\ objs = objects /\ mods = modules
             /\ bound = Range(kernelModules) /\ registered = Registered
      OBVIOUS
    <2>4. LoadApart(l, objs, mods, bound, registered)
      BY <1>2, <1>7, <2>2, <2>3, LoadOfApart
    <2>5. IsSeq(ls) /\ ls # <<>> /\ Len(ls) \in Nat
      BY <1>1, <2>2 DEF Inv, LoaderInv, LoadsOK, IsSeq
    <2>6. ASSUME NEW i \in 1 .. Len(ls)
          PROVE  LoadApart(ls[i], objs, mods, bound, registered) /\ ls[i].step = "import"
      <3>1. LoadsApart(ls, objs, mods, bound, registered)
        BY <2>2, <2>3 DEF LinksInv, ModuleInv
      <3>2. ls[Len(ls)].step = "import"
        BY <1>1, <2>2 DEF Top
      <3>3. i = Len(ls) \/ i \in 1 .. Len(ls) - 1
        BY <2>5
      <3> QED
        BY <3>1, <3>2, <3>3 DEF LoadsApart
    <2>7. LoadsApart(Append(ls, l), objs, mods, bound, registered)
      BY <2>4, <2>5, <2>6, Stacked
    <2>8. Registered' = Registered
      BY <2>1 DEF Registered
    <2>9. LoadsApart(loads', objects, modules, Range(kernelModules), Registered')
      BY <2>1, <2>2, <2>3, <2>7, <2>8
    <2> QED
      BY <1>2, <2>1, <2>9, OnlyLoadsLinks
  <1>8. CASE import.module \in DOMAIN kernelModules
    <2>1. PICK from, value : /\ from = kernelModules[import.module]
                             /\ value = NamespaceAt(from, import.name)
      OBVIOUS
    <2>2. from \in Range(kernelModules) /\ from \in DOMAIN modules
      BY <1>6, <1>8, <2>1 DEF Range
    <2>3. CASE value = Nil
      <3>1. Stop("KeyNotFound")
        BY <1>3, <1>8, <2>1, <2>3 DEF importRequired
      <3> QED
        BY <1>1, <3>1, StopLinks
    <2>4. CASE value # Nil
      <3>1. PICK k, n, names : /\ k = top.module /\ n = import.name
                               /\ names = Over(At(n, value), modules[k].namespace)
        OBVIOUS
      <3>2. PICK l : l = Replacing(top, "imports", Tail(top.imports))
        OBVIOUS
      <3>3. /\ modules' = Replacing(modules, k, Replacing(modules[k], "namespace", names))
            /\ loads' = Append(Pop, l)
            /\ UNCHANGED <<bootVars, loadedModules, kernelModules, stopped>>
        BY <1>3, <1>8, <2>1, <2>4, <3>1, <3>2 DEF importRequired, Replacing
      <3>4. IsClass(value) =>
               /\ value \in DOMAIN objects
               /\ \A x : x # Kernel /\ x # from /\ Isolated(x, objects, modules) => value.module # x
        BY <1>2, <2>1, <2>2, <2>4, NamespaceLinks
      <3>5. PICK objs, mods, mods2 : objs = objects /\ mods = modules /\ mods2 = modules'
        OBVIOUS
      <3>6. /\ HeapOK(objs, mods2) /\ DOMAIN mods2 = DOMAIN mods
            /\ \A x : Isolated(x, objs, mods) /\ (x = k \/ (IsClass(value) => value.module # x))
                        => Isolated(x, objs, mods2)
        <4>1. HeapOK(objs, mods)
          BY <1>2, <3>5, DoneIs
        <4>2. k \in DOMAIN mods /\ (IsClass(value) => value \in DOMAIN objs)
          BY <1>5, <3>1, <3>4, <3>5
        <4>3. /\ names = Over(At(n, value), mods[k].namespace)
              /\ mods2 = Replacing(mods, k, Replacing(mods[k], "namespace", names))
          BY <3>1, <3>3, <3>5
        <4> QED
          BY <4>1, <4>2, <4>3, NameAdded
      <3>7. l.path = top.path /\ l.step = "import" /\ l.module = k
        BY <1>1, <1>3, <1>5, <3>1, <3>2 DEF Replacing
      <3>8. PICK bound, registered : bound = Range(kernelModules) /\ registered = Registered
        OBVIOUS
      <3>9. LoadApart(l, objs, mods2, bound, registered)
        BY <1>5, <3>1, <3>5, <3>6, <3>7, <3>8 DEF LoadApart
      <3>10. ASSUME NEW i \in 1 .. Len(Pop)
             PROVE  Pop[i].module \notin bound /\ Isolated(Pop[i].module, objs, mods2)
        <4>1. /\ Pop[i].module \notin bound /\ Pop[i].module # Kernel
              /\ Isolated(Pop[i].module, objs, mods)
          BY <1>1, <3>5, <3>8, OthersAre
        <4> QED
          BY <2>2, <3>4, <3>5, <3>6, <3>8, <4>1
      <3>11. LoadsApart(Append(Pop, l), objs, mods2, bound, registered)
        BY <1>1, <3>8, <3>9, <3>10, TopGoesOn
      <3>12. /\ Range(kernelModules)' = bound /\ Registered' = registered
             /\ UNCHANGED <<phase, spec, namespace, provider, objects, kernelModules>>
        BY <3>3, <3>8 DEF Registered, Range, bootVars
      <3>13. LoadsApart(loads', objects', modules', Range(kernelModules)', Registered')
        BY <3>3, <3>5, <3>11, <3>12
      <3>14. HeapOK(objects', modules')
        BY <3>5, <3>6, <3>12
      <3>15. /\ Range(kernelModules)' \subseteq DOMAIN modules'
             /\ <<"Kernel">> \in DOMAIN kernelModules' => kernelModules'[<<"Kernel">>] = Kernel
        BY <1>6, <3>5, <3>6, <3>8, <3>12 DEF LinksInv, ModuleInv
      <3> QED
        BY <1>2, <3>12, <3>13, <3>14, <3>15, DoneKept
    <2> QED
      BY <2>3, <2>4
  <1> QED
    BY <1>7, <1>8

(* sortClasses.                                                            *)
LEMMA SortClassesLinks ==
  ASSUME Inv, LinksInv, sortClasses
  PROVE  LinksInv'
  <1>1. /\ loads # <<>> /\ Top.step = "import" /\ Top.step \in Unregistered
        /\ UNCHANGED <<bootVars, modules, loadedModules, kernelModules, stopped>>
    BY DEF sortClasses, Unregistered
  <1>2. PICK top, files : /\ top = Top
           /\ files = Sorted(Source.classes,
                             CHOOSE n \in DOMAIN Source.classes : n \notin Range(Top.files), Top.files)
    OBVIOUS
  <1>3. PICK l : l = Replacing(Replacing(top, "step", "classes"), "files", files)
    OBVIOUS
  <1>4. loads' = Append(Pop, l)
    BY <1>2, <1>3 DEF sortClasses, Replacing
  <1>5. /\ {"path", "step", "module", "files", "imports"} \subseteq DOMAIN top
        /\ LoadApart(top, objects, modules, Range(kernelModules), Registered)
    BY <1>1, <1>2, TopIs, StackIs DEF LoadOK
  <1>6. l.path = top.path /\ l.step = "classes" /\ l.module = top.module
    BY <1>3, <1>5 DEF Replacing
  <1>7. LoadApart(l, objects, modules, Range(kernelModules), Registered)
    BY <1>1, <1>2, <1>5, <1>6 DEF LoadApart, Unregistered
  <1>8. PICK objs, mods, bound, registered : /\ objs = objects /\ mods = modules
           /\ bound = Range(kernelModules) /\ registered = Registered
    OBVIOUS
  <1>9. \A i \in 1 .. Len(Pop) : Pop[i].module \notin bound /\ Isolated(Pop[i].module, objs, mods)
    BY <1>1, <1>8, OthersAre
  <1>10. LoadsApart(Append(Pop, l), objs, mods, bound, registered)
    BY <1>1, <1>7, <1>8, <1>9, TopGoesOn
  <1>11. Registered' = Registered
    BY <1>1 DEF Registered
  <1>12. LoadsApart(loads', objects, modules, Range(kernelModules), Registered')
    BY <1>4, <1>8, <1>10, <1>11
  <1>13. phase = "done"
    BY <1>1, Loading
  <1> QED
    BY <1>1, <1>12, <1>13, OnlyLoadsLinks

(* register.                                                               *)
LEMMA RegisterLinks ==
  ASSUME Inv, LinksInv, register
  PROVE  LinksInv'
  <1>1. /\ loads # <<>> /\ Top.step = "register" /\ Top.step \in Unregistered
        /\ UNCHANGED <<bootVars, modules, kernelModules, stopped>>
    BY DEF register, Unregistered
  <1>2. PICK top : top = Top
    OBVIOUS
  <1>3. PICK l : l = Replacing(top, "step", "justLoaded")
    OBVIOUS
  <1>4. /\ loads' = Append(Pop, l)
        /\ loadedModules' = Over(At(Last(top.path), top.module), loadedModules)
    BY <1>2, <1>3 DEF register, Replacing
  <1>5. /\ {"path", "step", "module", "files", "imports"} \subseteq DOMAIN top
        /\ LoadApart(top, objects, modules, Range(kernelModules), Registered)
    BY <1>1, <1>2, TopIs, StackIs DEF LoadOK
  <1>6. l.path = top.path /\ l.step = "justLoaded" /\ l.module = top.module
    BY <1>3, <1>5 DEF Replacing
  <1>7. PICK objs, mods, bound, registered : /\ objs = objects /\ mods = modules
           /\ bound = Range(kernelModules) /\ registered = Registered'
    OBVIOUS
  <1>8. top.module \in registered
    <2>1. Last(top.path) \in DOMAIN loadedModules' /\ loadedModules'[Last(top.path)] = top.module
      BY <1>4 DEF Over, At
    <2> QED
      BY <1>7, <2>1 DEF Registered, Range
  <1>9. LoadApart(l, objs, mods, bound, registered)
    BY <1>5, <1>6, <1>8 DEF LoadApart, Unregistered
  <1>10. \A i \in 1 .. Len(Pop) : Pop[i].module \notin bound /\ Isolated(Pop[i].module, objs, mods)
    BY <1>1, <1>7, OthersAre
  <1>11. \A i \in 1 .. Len(Pop) : Pop[i].step = "import"
    BY <1>1, StackIs
  <1>12. phase = "done"
    BY <1>1, Loading
  <1>13. PICK ls : ls = Pop
    OBVIOUS
  <1>14. IsSeq(ls)
    BY <1>1, <1>13, TopIs DEF LoadsOK
  <1>15. \A i \in 1 .. Len(ls) : LoadApart(ls[i], objs, mods, bound, registered) /\ ls[i].step = "import"
    BY <1>1, <1>10, <1>11, <1>13, StackIs DEF LoadApart
  <1>16. LoadsApart(Append(ls, l), objs, mods, bound, registered)
    BY <1>9, <1>14, <1>15, Stacked
  <1>17. LoadsApart(loads', objects, modules, Range(kernelModules), Registered')
    BY <1>4, <1>7, <1>13, <1>16
  <1> QED
    BY <1>1, <1>12, <1>17, OnlyLoadsLinks

-----------------------------------------------------------------------------
(* Extensions.  The same behaviors with the same links, and the same       *)
(* modules with the same names.                                            *)
SameLinks(new, objs) ==
    /\ DOMAIN new = DOMAIN objs
    /\ \A sp \in DOMAIN objs :
          /\ SlotsLinked(new[sp], objs) /\ KindIn(new[sp], {"MethodDictionary"})
          /\ new[sp].next = objs[sp].next /\ new[sp].superclass = objs[sp].superclass
SameNames(new, mods) ==
    /\ DOMAIN new = DOMAIN mods
    /\ \A k \in DOMAIN mods :
          /\ {"path", "namespace"} \subseteq DOMAIN new[k]
          /\ new[k].path = mods[k].path /\ new[k].namespace = mods[k].namespace

(* They are the same as themselves.                                        *)
LEMMA SameSelf ==
  ASSUME NEW objs, NEW mods, HeapOK(objs, mods)
  PROVE  SameLinks(objs, objs) /\ SameNames(mods, mods)
  BY DEF SameLinks, SameNames, HeapOK, Filled, ModulesLinked, NamesLinked

(* Then nothing refers to what nothing referred to.                        *)
LEMMA SameHeap ==
  ASSUME NEW objs, NEW mods, HeapOK(objs, mods),
         NEW objs2, SameLinks(objs2, objs), NEW mods2, SameNames(mods2, mods)
  PROVE  /\ HeapOK(objs2, mods2)
         /\ \A x : Isolated(x, objs, mods) => Isolated(x, objs2, mods2)
  <1>1. Filled(objs2, {"MethodDictionary"})
    BY DEF SameLinks, Filled, SlotsLinked
  <1>2. Paired(objs2)
    BY DEF SameLinks, HeapOK, Paired
  <1>3. ASSUME NEW k \in DOMAIN mods PROVE NamesLinked(mods2[k], objs2)
    <2>1. NamesLinked(mods[k], objs)
      BY DEF HeapOK, ModulesLinked
    <2> QED
      BY <2>1 DEF SameNames, SameLinks, NamesLinked
  <1>4. \A sp \in DOMAIN objs2 : sp.module \in DOMAIN mods2 \cup {Kernel}
    BY DEF HeapOK, ModulesLinked, SameLinks, SameNames
  <1>5. ModulesLinked(mods2, objs2)
    BY <1>3, <1>4 DEF ModulesLinked, SameNames
  <1>6. ASSUME NEW x, Isolated(x, objs, mods) PROVE Isolated(x, objs2, mods2)
    BY <1>6 DEF Isolated, SameLinks, SameNames
  <1> QED
    BY <1>1, <1>2, <1>5, <1>6 DEF HeapOK

(* A slot of a module other than its names may be set.                     *)
LEMMA SlotSet ==
  ASSUME NEW mods, NEW mods1, SameNames(mods1, mods), NEW k, NEW v,
         NEW slot, slot \notin {"path", "namespace"},
         NEW mods2, mods2 = Replacing(mods1, k, Replacing(mods1[k], slot, v))
  PROVE  SameNames(mods2, mods)
  <1>1. PICK module : module = Replacing(mods1[k], slot, v)
    OBVIOUS
  <1>2. /\ DOMAIN mods2 = DOMAIN mods1
        /\ \A y \in DOMAIN mods1 : mods2[y] = IF y = k THEN module ELSE mods1[y]
    BY <1>1, ReplacingOne
  <1>3. ASSUME k \in DOMAIN mods
        PROVE  /\ {"path", "namespace"} \subseteq DOMAIN module
               /\ module.path = mods[k].path /\ module.namespace = mods[k].namespace
    <2>1. /\ {"path", "namespace"} \subseteq DOMAIN mods1[k]
          /\ mods1[k].path = mods[k].path /\ mods1[k].namespace = mods[k].namespace
      BY <1>3 DEF SameNames
    <2> QED
      BY <1>1, <2>1, ReplacingOne
  <1> QED
    BY <1>2, <1>3 DEF SameNames

(* compileExtensions.                                                      *)
LEMMA CompileExtensionsLinks ==
  ASSUME Inv, LinksInv, compileExtensions
  PROVE  LinksInv'
  <1>1. loads # <<>> /\ Top.step = "classes" /\ Top.step \in Unregistered
    BY DEF compileExtensions, Unregistered
  <1>2. PICK top : top = Top
    OBVIOUS
  <1>3. /\ LoadOK(top, installation, DOMAIN modules, Registered)
        /\ LoadApart(top, objects, modules, Range(kernelModules), Registered)
    BY <1>1, <1>2, TopIs, StackIs
  <1>4. /\ {"path", "step", "module", "files", "imports"} \subseteq DOMAIN top
        /\ top.module \in DOMAIN modules \ Registered
    BY <1>1, <1>2, <1>3 DEF LoadOK
  <1>5. phase = "done"
    BY <1>1, Loading
  <1>6. PICK extension : extension = Source.extensions
    OBVIOUS
  <1>7. PICK bases : bases = {n \in DOMAIN extension : NamespaceAt(Top.module, n) # Nil}
    OBVIOUS
  <1>8. PICK table : table = WithSymbols(symbolTable, bases \cup NamesOfExtensions(extension, bases))
    OBVIOUS
  <1>9. Fail \/ Stop("MessageNotUnderstood") \/ ExtensionsCompiled(extension, bases, table)
    BY <1>6, <1>7, <1>8 DEF compileExtensions, ExtensionsCompiled, NamesOfExtensions
  <1>10. CASE Fail
    BY <1>1, <1>2, <1>4, <1>10, FailLinks
  <1>11. CASE Stop("MessageNotUnderstood")
    BY <1>1, <1>11, StopLinks
  <1>12. CASE ExtensionsCompiled(extension, bases, table)
    <2>1. PICK k, v : k = top.module /\ v = ExtensionsOf(table, k, extension, bases)
      OBVIOUS
    <2>2. PICK l : l = Replacing(top, "step", "register")
      OBVIOUS
    <2>3. /\ loads' = Append(Pop, l)
          /\ UNCHANGED <<phase, spec, namespace, provider, objects, loadedModules, kernelModules>>
      BY <1>2, <1>12, <2>2 DEF ExtensionsCompiled, Replacing
    <2>4. modules' = Replacing(modules, k, Replacing(modules[k], "extensions", v))
      <3>1. modules' = [modules EXCEPT ![k].extensions = v]
        BY <1>2, <1>12, <2>1 DEF ExtensionsCompiled
      <3> QED
        BY <3>1 DEF Replacing
    <2>5. PICK objs, mods, mods2 : objs = objects /\ mods = modules /\ mods2 = modules'
      OBVIOUS
    <2>6. HeapOK(objs, mods)
      BY <1>5, <2>5, DoneIs
    <2>7. SameLinks(objs, objs) /\ SameNames(mods, mods)
      BY <2>6, SameSelf
    <2>8. SameNames(mods2, mods)
      <3>1. /\ mods2 = Replacing(mods, k, Replacing(mods[k], "extensions", v))
            /\ "extensions" \notin {"path", "namespace"}
        BY <2>4, <2>5
      <3> QED
        BY <2>7, <3>1, SlotSet
    <2>9. HeapOK(objs, mods2) /\ \A x : Isolated(x, objs, mods) => Isolated(x, objs, mods2)
      BY <2>6, <2>7, <2>8, SameHeap
    <2>10. l.path = top.path /\ l.step = "register" /\ l.module = top.module
      BY <1>4, <2>2 DEF Replacing
    <2>11. PICK bound, registered : bound = Range(kernelModules) /\ registered = Registered
      OBVIOUS
    <2>12. LoadApart(l, objs, mods2, bound, registered)
      BY <1>1, <1>2, <1>3, <2>5, <2>9, <2>10, <2>11 DEF LoadApart, Unregistered
    <2>13. \A i \in 1 .. Len(Pop) : Pop[i].module \notin bound /\ Isolated(Pop[i].module, objs, mods2)
      BY <1>1, <2>5, <2>9, <2>11, OthersAre
    <2>14. LoadsApart(Append(Pop, l), objs, mods2, bound, registered)
      BY <1>1, <2>11, <2>12, <2>13, TopGoesOn
    <2>15. Range(kernelModules)' = bound /\ Registered' = registered
      BY <2>3, <2>11 DEF Registered, Range
    <2>16. LoadsApart(loads', objects', modules', Range(kernelModules)', Registered')
      BY <2>3, <2>5, <2>14, <2>15
    <2>17. HeapOK(objects', modules')
      BY <2>3, <2>5, <2>9
    <2>18. /\ Range(kernelModules)' \subseteq DOMAIN modules'
           /\ <<"Kernel">> \in DOMAIN kernelModules' => kernelModules'[<<"Kernel">>] = Kernel
      BY <2>3, <2>5, <2>8, <2>11, <2>15 DEF LinksInv, ModuleInv, SameNames
    <2> QED
      BY <1>5, <2>3, <2>16, <2>17, <2>18, DoneKept
  <1> QED
    BY <1>9, <1>10, <1>11, <1>12

(* bindExtension, for every extension of a module.                         *)
SameState(c, state) == SameLinks(state.objects, c.objects) /\ SameNames(state.modules, c.modules)
Keep == INSTANCE FoldInduction WITH step <- BindStep, Holds <- SameState

(* One extension is installed.                                             *)
LEMMA BindExtensionLinks ==
  ASSUME NEW c, NEW state, SameState(c, state), NEW m
  PROVE  SameState(c, BindExtension(state, m))
  <1>1. PICK objs, mods : objs = state.objects /\ mods = state.modules
    OBVIOUS
  <1>2. SameLinks(objs, c.objects) /\ SameNames(mods, c.modules)
    BY <1>1 DEF SameState
  <1>3. PICK pairs, i, new : /\ pairs = objs[m.class].md.pairs
                             /\ i = PositionOf(pairs, m.selector)
                             /\ new = AtPut(pairs, m.selector, m)
    OBVIOUS
  <1>4. PICK current : current = pairs[i][2]
    OBVIOUS
  <1>5. PICK objs2 : objs2 = Replacing(objs, m.class, WithPairs(objs[m.class], new))
    OBVIOUS
  <1>6. PICK v : v = Over(At(<<m.class, m.selector.name>>, current), mods[current.module].overriden)
    OBVIOUS
  <1>7. PICK mods2 : mods2 = Replacing(mods, current.module,
                                       Replacing(mods[current.module], "overriden", v))
    BY SMTT(30)
  <1>8. BindExtension(state, m) = [objects |-> objs2, modules |-> IF i = 0 THEN mods ELSE mods2]
    BY <1>1, <1>3, <1>4, <1>5, <1>6, <1>7, Zenon DEF BindExtension, Replacing, WithPairs
  <1>9. PICK bound : bound = BindExtension(state, m)
    OBVIOUS
  <1>10. bound.objects = objs2 /\ bound.modules = IF i = 0 THEN mods ELSE mods2
    BY <1>8, <1>9
  <1>11. SameLinks(objs2, c.objects)
    <2>1. /\ DOMAIN objs2 = DOMAIN objs
          /\ \A x \in DOMAIN objs :
                objs2[x] = IF x = m.class THEN WithPairs(objs[m.class], new) ELSE objs[x]
      BY <1>5, ReplacingOne
    <2>2. ASSUME NEW x \in DOMAIN objs
          PROVE  /\ SlotsLinked(objs2[x], c.objects) /\ KindIn(objs2[x], {"MethodDictionary"})
                 /\ objs2[x].next = objs[x].next /\ objs2[x].superclass = objs[x].superclass
      <3>1. PICK slots, all, kinds : slots = objs[x] /\ all = c.objects /\ kinds = {"MethodDictionary"}
        OBVIOUS
      <3>2. SlotsLinked(slots, all) /\ KindIn(slots, kinds)
        BY <1>2, <3>1 DEF SameLinks
      <3>3. /\ SlotsLinked(WithPairs(slots, new), all) /\ KindIn(WithPairs(slots, new), kinds)
            /\ WithPairs(slots, new).next = slots.next
            /\ WithPairs(slots, new).superclass = slots.superclass
        BY <3>2, WithPairsLinks
      <3> QED
        BY <2>1, <3>1, <3>2, <3>3
    <2> QED
      BY <1>2, <2>1, <2>2 DEF SameLinks
  <1>12. SameNames(mods2, c.modules)
    <2>1. PICK all : all = c.modules
      OBVIOUS
    <2>2. SameNames(mods, all) /\ "overriden" \notin {"path", "namespace"}
      BY <1>2, <2>1
    <2>3. SameNames(mods2, all)
      BY <1>7, <2>2, SlotSet
    <2> QED
      BY <2>1, <2>3
  <1> QED
    BY <1>2, <1>9, <1>10, <1>11, <1>12 DEF SameState

(* justLoaded installs all of them.                                        *)
LEMMA BoundLinks ==
  ASSUME NEW objs, NEW mods, HeapOK(objs, mods), NEW extensions, Len(extensions) \in Nat,
         NEW bound, bound = Folded(BindExtension, [objects |-> objs, modules |-> mods], extensions)
  PROVE  SameLinks(bound.objects, objs) /\ SameNames(bound.modules, mods)
  <1>1. PICK c : c = [objects |-> objs, modules |-> mods]
    OBVIOUS
  <1>2. c.objects = objs /\ c.modules = mods
    BY <1>1
  <1>3. bound = Keep!Loop(c, c, extensions)
    BY <1>1 DEF BindStep, Keep!Loop, Folded, Keep!Folded
  <1>4. SameState(c, c)
    BY <1>2, SameSelf DEF SameState
  <1>5. ASSUME NEW u, NEW i \in 1 .. Len(extensions), SameState(c, u)
        PROVE  SameState(c, BindStep(c, u, extensions[i]))
    BY <1>5, BindExtensionLinks DEF BindStep
  <1>6. SameState(c, Keep!Loop(c, c, extensions))
    BY <1>4, <1>5, Keep!LoopMaintains
  <1> QED
    BY <1>2, <1>3, <1>6 DEF SameState

(* justLoaded: what is bound in the kernel is a module that the Loader has *)
(* registered.                                                             *)
LEMMA JustLoadedLinks ==
  ASSUME Inv, LinksInv, justLoaded
  PROVE  LinksInv'
  <1>1. /\ loads # <<>> /\ Top.step = "justLoaded" /\ loads' = Pop
        /\ kernelModules' = Over(At(Top.path, Top.module), kernelModules)
        /\ UNCHANGED <<phase, spec, namespace, provider, loadedModules>>
    BY DEF justLoaded
  <1>2. PICK top : top = Top
    OBVIOUS
  <1>3. /\ top.path # <<"Kernel">> /\ top.module \in Registered
        /\ top.module \in DOMAIN modules
    BY <1>1, <1>2, TopIs, StackIs DEF LoadOK, LoadApart
  <1>4. phase = "done"
    BY <1>1, Loading
  <1>5. PICK objs, mods, extensions : /\ objs = objects /\ mods = modules
                                      /\ extensions = modules[top.module].extensions
    OBVIOUS
  <1>6. PICK bound : bound = Folded(BindExtension, [objects |-> objs, modules |-> mods], extensions)
    OBVIOUS
  <1>7. PICK objs2, mods2 : objs2 = bound.objects /\ mods2 = bound.modules
    OBVIOUS
  <1>8. objects' = objs2 /\ modules' = mods2
    BY <1>2, <1>5, <1>6, <1>7 DEF justLoaded
  <1>9. HeapOK(objs, mods)
    BY <1>4, <1>5, DoneIs
  <1>10. Len(extensions) \in Nat
    BY <1>3, <1>5 DEF Inv, LoaderInv, ModulesOK, ModuleOK, MethodsOK, IsSeq
  <1>11. SameLinks(objs2, objs) /\ SameNames(mods2, mods)
    BY <1>6, <1>7, <1>9, <1>10, BoundLinks
  <1>12. HeapOK(objs2, mods2) /\ \A x : Isolated(x, objs, mods) => Isolated(x, objs2, mods2)
    BY <1>9, <1>11, SameHeap
  <1>13. DOMAIN objs2 = DOMAIN objs /\ DOMAIN mods2 = DOMAIN mods
    BY <1>11 DEF SameLinks, SameNames
  <1>14. PICK after : after = Range(kernelModules)'
    OBVIOUS
  <1>15. after \subseteq Range(kernelModules) \cup {top.module}
    BY <1>1, <1>2, <1>14 DEF Range, Over, At
  <1>16. after \subseteq DOMAIN mods2
    BY <1>3, <1>5, <1>13, <1>15 DEF LinksInv, ModuleInv
  <1>17. <<"Kernel">> \in DOMAIN kernelModules' => kernelModules'[<<"Kernel">>] = Kernel
    BY <1>1, <1>2, <1>3 DEF Over, At, LinksInv, ModuleInv
  <1>18. PICK ls, registered : ls = Pop /\ registered = Registered
    OBVIOUS
  <1>19. ASSUME NEW i \in 1 .. Len(ls)
         PROVE  LoadApart(ls[i], objs2, mods2, after, registered) /\ ls[i].step = "import"
    <2>1. /\ ls[i].module \notin registered /\ ls[i].module \notin Range(kernelModules)
          /\ Isolated(ls[i].module, objs, mods)
      BY <1>1, <1>5, <1>18, OthersAre
    <2>2. ls[i].module \notin after
      BY <1>3, <1>15, <1>18, <2>1
    <2>3. /\ LoadApart(ls[i], objects, modules, Range(kernelModules), registered)
          /\ ls[i].step = "import"
      BY <1>1, <1>18, StackIs
    <2> QED
      BY <1>12, <2>1, <2>2, <2>3 DEF LoadApart
  <1>20. Len(ls) \in Nat
    BY <1>1, <1>18, TopIs DEF LoadsOK, IsSeq
  <1>21. LoadsApart(ls, objs2, mods2, after, registered)
    BY <1>19, <1>20 DEF LoadsApart
  <1>22. Registered' = registered
    BY <1>1, <1>18 DEF Registered
  <1>23. LoadsApart(loads', objects', modules', Range(kernelModules)', Registered')
    BY <1>1, <1>8, <1>14, <1>18, <1>21, <1>22
  <1>24. HeapOK(objects', modules')
    BY <1>8, <1>12
  <1>25. Range(kernelModules)' \subseteq DOMAIN modules'
    BY <1>8, <1>14, <1>16
  <1>26. \A sp \in DOMAIN objects : sp.module = Kernel => sp \in DOMAIN objects'
    BY <1>5, <1>8, <1>13
  <1> QED
    BY <1>1, <1>4, <1>17, <1>23, <1>24, <1>25, <1>26, DoneKept

-----------------------------------------------------------------------------
(* Classes.  A new class has method dictionaries.                          *)
LEMMA InstalledKind ==
  ASSUME NEW table, NEW sp, NEW methods, NEW slots, "md" \in DOMAIN slots,
         slots.md = Installed(table, sp, methods)
  PROVE  KindIn(slots, {"MethodDictionary"})
  <1>1. PICK known : known = KnownIn(table, NamesIn(methods))
    OBVIOUS
  <1>2. PICK c : c = [known |-> known, sp |-> sp, U |-> table]
    OBVIOUS
  <1>3. c.known = known /\ c.sp = sp
    BY <1>2
  <1>4. Installed(table, sp, methods)
          = [kind |-> "MethodDictionary", pairs |-> Put!Loop(c, <<>>, methods)]
    BY <1>1, <1>3 DEF Installed, PutStep, Put!Loop, Folded, Put!Folded, KnownIn
  <1>5. PICK md : md = slots.md
    OBVIOUS
  <1>6. "kind" \in DOMAIN md /\ md.kind = "MethodDictionary"
    BY <1>4, <1>5
  <1> QED
    BY <1>5, <1>6 DEF KindIn

(* It is made below a class that is there.                                 *)
LEMMA ClassAdded ==
  ASSUME NEW objs, objs = objects, NEW mods, HeapOK(objs, mods),
         NEW table, NEW k, NEW name, NEW s, NEW super \in DOMAIN objs, IsClass(super),
         NEW objs2, objs2 = Over(NewClass(table, k, name, s, super), objs)
  PROVE  /\ Filled(objs2, {"MethodDictionary"}) /\ Paired(objs2)
         /\ ClassIn(k, name) \in DOMAIN objs2 /\ ClassIn(k, name).module = k
         /\ DOMAIN objs \subseteq DOMAIN objs2
         /\ \A sp \in DOMAIN objs2 : sp \in DOMAIN objs \/ sp.module = k
         /\ \A x : Isolated(x, objs, mods) /\ (x = k \/ super.module # x) => Isolated(x, objs2, mods)
  <1>1. PICK class : class = ClassIn(k, name)
    OBVIOUS
  <1>2. PICK metaclass, supermeta : metaclass = Metaclass(class) /\ supermeta = Metaclass(super)
    OBVIOUS
  <1>3. /\ class.side = "class" /\ class.module = k
        /\ metaclass.side = "metaclass" /\ metaclass.module = k
    <2>1. class = [side |-> "class", module |-> k, name |-> name]
      BY <1>1 DEF ClassIn
    <2>2. metaclass = [side |-> "metaclass", module |-> k, name |-> name]
      BY <1>2, <2>1 DEF Metaclass
    <2> QED
      BY <2>1, <2>2
  <1>4. supermeta \in DOMAIN objs /\ supermeta.module = super.module
    BY <1>2 DEF HeapOK, Paired, IsClass
  <1>5. PICK slots, metaslots : /\ slots = ClassSlots(table, class, name, s, super)
                                /\ metaslots = MetaclassSlots(table, metaclass, s, supermeta)
    OBVIOUS
  <1>6. NewClass(table, k, name, s, super) = Over(At(class, slots), At(metaclass, metaslots))
    BY <1>1, <1>2, <1>5 DEF NewClass, ClassSlots, MetaclassSlots
  <1>7. /\ DOMAIN objs2 = {class, metaclass} \cup DOMAIN objs
        /\ objs2[class] = slots /\ objs2[metaclass] = metaslots
        /\ \A sp \in DOMAIN objs : sp # class /\ sp # metaclass => objs2[sp] = objs[sp]
    <2>1. class # metaclass
      BY <1>3
    <2>2. PICK made : made = NewClass(table, k, name, s, super)
      OBVIOUS
    <2>3. DOMAIN made = {class, metaclass} /\ made[class] = slots /\ made[metaclass] = metaslots
      BY <1>6, <2>1, <2>2 DEF Over, At
    <2>4. objs2 = Over(made, objs)
      BY <2>2
    <2> QED
      BY <2>3, <2>4 DEF Over
  <1>8. /\ {"next", "superclass", "md"} \subseteq DOMAIN slots
        /\ slots.next = super /\ slots.superclass = super
        /\ slots.md = Installed(table, class, s.methods)
    BY <1>5 DEF ClassSlots
  <1>9. /\ {"next", "superclass", "md"} \subseteq DOMAIN metaslots
        /\ metaslots.next = supermeta /\ metaslots.superclass = supermeta
        /\ metaslots.md = Installed(table, metaclass, s.metaMethods)
    BY <1>5 DEF MetaclassSlots
  <1>10. KindIn(slots, {"MethodDictionary"}) /\ KindIn(metaslots, {"MethodDictionary"})
    <2>1. PICK methods, metaMethods : methods = s.methods /\ metaMethods = s.metaMethods
      OBVIOUS
    <2> QED
      BY <1>8, <1>9, <2>1, InstalledKind
  <1>11. SlotsLinked(slots, objs2) /\ SlotsLinked(metaslots, objs2)
    BY <1>4, <1>7, <1>8, <1>9 DEF SlotsLinked
  <1>12. \A sp \in DOMAIN objs : SlotsLinked(objs[sp], objs2) /\ KindIn(objs[sp], {"MethodDictionary"})
    BY <1>7 DEF HeapOK, Filled, SlotsLinked
  <1>13. Filled(objs2, {"MethodDictionary"})
    BY <1>7, <1>10, <1>11, <1>12 DEF Filled
  <1>14. Paired(objs2)
    BY <1>2, <1>3, <1>7 DEF HeapOK, Paired
  <1>15. ASSUME NEW x, Isolated(x, objs, mods), x = k \/ super.module # x
         PROVE  Isolated(x, objs2, mods)
    <2>1. ASSUME NEW sp \in DOMAIN objs2, sp.module # x
          PROVE  Elsewhere(objs2[sp].next, x) /\ Elsewhere(objs2[sp].superclass, x)
      <3>1. CASE sp \in {class, metaclass}
        BY <1>3, <1>4, <1>7, <1>8, <1>9, <1>15, <2>1, <3>1 DEF Elsewhere
      <3>2. CASE sp \notin {class, metaclass}
        BY <1>7, <1>15, <2>1, <3>2 DEF Isolated
      <3> QED
        BY <3>1, <3>2
    <2> QED
      BY <1>15, <2>1 DEF Isolated
  <1> QED
    BY <1>1, <1>3, <1>7, <1>13, <1>14, <1>15

(* createClass.                                                            *)
LEMMA CreateClassLinks ==
  ASSUME Inv, LinksInv, createClass
  PROVE  LinksInv'
  <1>1. loads # <<>> /\ Top.step = "classes" /\ Top.step \in Unregistered
    BY DEF createClass, Unregistered
  <1>2. PICK top, name : top = Top /\ name = Head(top.files)
    OBVIOUS
  <1>3. /\ LoadOK(top, installation, DOMAIN modules, Registered)
        /\ LoadApart(top, objects, modules, Range(kernelModules), Registered)
    BY <1>1, <1>2, TopIs, StackIs
  <1>4. /\ {"path", "step", "module", "files", "imports"} \subseteq DOMAIN top
        /\ top.module \in DOMAIN modules \ Registered
    BY <1>1, <1>2, <1>3 DEF LoadOK
  <1>5. phase = "done"
    BY <1>1, Loading
  <1>6. PICK s, k : s = Source.classes[name] /\ k = top.module
    OBVIOUS
  <1>7. PICK super, table : /\ super = NamespaceAt(k, s.supername)
                            /\ table = WithSymbols(symbolTable, NamesOf(name, s))
    OBVIOUS
  <1>8. PICK names : names = Over(At(name, ClassIn(k, name)), modules[k].namespace)
    OBVIOUS
  <1>9. PICK l : l = Replacing(top, "files", Tail(top.files))
    BY SMTT(30)
  <1>10. \/ Stop("KeyNotFound") \/ Stop("MessageNotUnderstood")
         \/ Fail
         \/ /\ super # Nil /\ IsClass(super)
            /\ objects' = Over(NewClass(table, k, name, s, super), objects)
            /\ modules' = Replacing(modules, k, Replacing(modules[k], "namespace", names))
            /\ loads' = Append(Pop, l)
            /\ UNCHANGED <<phase, spec, namespace, provider, loadedModules, kernelModules>>
    BY <1>2, <1>6, <1>7, <1>8, <1>9 DEF createClass, Replacing
  <1>11. CASE Stop("KeyNotFound") \/ Stop("MessageNotUnderstood")
    BY <1>1, <1>11, StopLinks
  <1>12. CASE Fail
    BY <1>1, <1>2, <1>4, <1>12, FailLinks
  <1>13. CASE /\ super # Nil /\ IsClass(super)
              /\ objects' = Over(NewClass(table, k, name, s, super), objects)
              /\ modules' = Replacing(modules, k, Replacing(modules[k], "namespace", names))
              /\ loads' = Append(Pop, l)
              /\ UNCHANGED <<phase, spec, namespace, provider, loadedModules, kernelModules>>
    <2>1. PICK objs, mods, objs2, mods2 : /\ objs = objects /\ mods = modules
                                          /\ objs2 = objects' /\ mods2 = modules'
      OBVIOUS
    <2>2. HeapOK(objs, mods) /\ k \in DOMAIN mods
      BY <1>4, <1>5, <1>6, <2>1, DoneIs
    <2>3. /\ super \in DOMAIN objs
          /\ \A x : x # Kernel /\ x # k /\ Isolated(x, objs, mods) => super.module # x
      <3>1. PICK n : n = s.supername
        OBVIOUS
      <3> QED
        BY <1>5, <1>7, <1>13, <2>1, <2>2, <3>1, NamespaceLinks
    <2>4. /\ Filled(objs2, {"MethodDictionary"}) /\ Paired(objs2)
          /\ ClassIn(k, name) \in DOMAIN objs2 /\ ClassIn(k, name).module = k
          /\ DOMAIN objs \subseteq DOMAIN objs2
          /\ \A sp \in DOMAIN objs2 : sp \in DOMAIN objs \/ sp.module = k
          /\ \A x : Isolated(x, objs, mods) /\ (x = k \/ super.module # x) => Isolated(x, objs2, mods)
      <3>1. objs2 = Over(NewClass(table, k, name, s, super), objs)
        BY <1>13, <2>1
      <3> QED
        BY <1>13, <2>1, <2>2, <2>3, <3>1, ClassAdded
    <2>5. HeapOK(objs2, mods)
      <3>1. \A m \in DOMAIN mods : NamesLinked(mods[m], objs2)
        BY <2>2, <2>4 DEF HeapOK, ModulesLinked, NamesLinked
      <3> QED
        BY <2>2, <2>4, <3>1 DEF HeapOK, ModulesLinked
    <2>6. PICK value : value = ClassIn(k, name)
      OBVIOUS
    <2>7. /\ HeapOK(objs2, mods2) /\ DOMAIN mods2 = DOMAIN mods
          /\ \A x : Isolated(x, objs2, mods) /\ (x = k \/ (IsClass(value) => value.module # x))
                      => Isolated(x, objs2, mods2)
      <3>1. /\ names = Over(At(name, value), mods[k].namespace) /\ value \in DOMAIN objs2
            /\ mods2 = Replacing(mods, k, Replacing(mods[k], "namespace", names))
        BY <1>8, <1>13, <2>1, <2>4, <2>6
      <3> QED
        BY <2>2, <2>5, <3>1, NameAdded
    <2>8. l.path = top.path /\ l.step = "classes" /\ l.module = k
      BY <1>1, <1>2, <1>4, <1>6, <1>9 DEF Replacing
    <2>9. PICK bound, registered : bound = Range(kernelModules) /\ registered = Registered
      OBVIOUS
    <2>10. LoadApart(l, objs2, mods2, bound, registered)
      <3>1. /\ top.path # <<"Kernel">> /\ k \notin bound /\ Isolated(k, objs, mods)
        BY <1>1, <1>2, <1>3, <1>6, <2>1, <2>9 DEF LoadApart
      <3> QED
        BY <2>4, <2>7, <2>8, <3>1 DEF LoadApart
    <2>11. ASSUME NEW i \in 1 .. Len(Pop)
           PROVE  Pop[i].module \notin bound /\ Isolated(Pop[i].module, objs2, mods2)
      <3>1. PICK x : x = Pop[i].module
        OBVIOUS
      <3>2. x \notin bound /\ x # Kernel /\ x # k /\ Isolated(x, objs, mods)
        BY <1>1, <1>2, <1>6, <2>1, <2>9, <3>1, OthersAre
      <3>3. Isolated(x, objs2, mods)
        BY <2>3, <2>4, <3>2
      <3>4. Isolated(x, objs2, mods2)
        BY <2>4, <2>6, <2>7, <3>2, <3>3
      <3> QED
        BY <3>1, <3>2, <3>4
    <2>12. LoadsApart(Append(Pop, l), objs2, mods2, bound, registered)
      BY <1>1, <2>9, <2>10, <2>11, TopGoesOn
    <2>13. Range(kernelModules)' = bound /\ Registered' = registered
      BY <1>13, <2>9 DEF Registered, Range
    <2>14. LoadsApart(loads', objects', modules', Range(kernelModules)', Registered')
      BY <1>13, <2>1, <2>12, <2>13
    <2>15. /\ HeapOK(objects', modules')
           /\ \A sp \in DOMAIN objects : sp.module = Kernel => sp \in DOMAIN objects'
      BY <2>1, <2>4, <2>7
    <2>16. /\ Range(kernelModules)' \subseteq DOMAIN modules'
           /\ <<"Kernel">> \in DOMAIN kernelModules' => kernelModules'[<<"Kernel">>] = Kernel
      BY <1>13, <2>1, <2>7, <2>9, <2>13 DEF LinksInv, ModuleInv
    <2> QED
      BY <1>5, <1>13, <2>14, <2>15, <2>16, DoneKept
  <1> QED
    BY <1>10, <1>11, <1>12, <1>13

(* A new module knows classes of its own and of the kernel.                *)
KnowsOwn(new, k, objs) ==
    /\ {"path", "namespace"} \subseteq DOMAIN new
    /\ \A n \in DOMAIN new.namespace : IsClass(new.namespace[n]) =>
          new.namespace[n] \in DOMAIN objs /\ new.namespace[n].module \in {k, Kernel}
ClassesFirst(k, objs, mods) ==
    /\ Filled(objs, {"MethodDictionary"}) /\ Paired(objs)
    /\ \A m \in DOMAIN mods : NamesLinked(mods[m], objs)
    /\ \A sp \in DOMAIN objs : sp.module \in DOMAIN mods \cup {Kernel, k}

(* It comes after its first class.                                         *)
LEMMA ModuleAdded ==
  ASSUME NEW objs, NEW mods, NEW k, k \notin DOMAIN mods, ClassesFirst(k, objs, mods),
         NEW new, KnowsOwn(new, k, objs), NEW mods2, mods2 = Over(mods, At(k, new))
  PROVE  /\ HeapOK(objs, mods2)
         /\ \A x : x # Kernel /\ Isolated(x, objs, mods) => Isolated(x, objs, mods2)
  <1> USE DEF KnowsOwn, ClassesFirst
  <1>1. /\ DOMAIN mods2 = DOMAIN mods \cup {k} /\ mods2[k] = new
        /\ \A m \in DOMAIN mods : mods2[m] = mods[m]
    BY DEF Over, At
  <1>2. NamesLinked(new, objs)
    BY DEF NamesLinked
  <1>3. ModulesLinked(mods2, objs)
    BY <1>1, <1>2 DEF ModulesLinked
  <1>4. ASSUME NEW x, x # Kernel, Isolated(x, objs, mods) PROVE Isolated(x, objs, mods2)
    <2>1. ASSUME NEW m \in DOMAIN mods2 \ {x}, NEW n \in DOMAIN mods2[m].namespace,
                 IsClass(mods2[m].namespace[n])
          PROVE  mods2[m].namespace[n].module # x
      <3>1. CASE m = k
        BY <1>1, <1>4, <2>1, <3>1
      <3>2. CASE m # k
        BY <1>1, <1>4, <2>1, <3>2 DEF Isolated
      <3> QED
        BY <3>1, <3>2
    <2> QED
      BY <1>4, <2>1 DEF Isolated
  <1> QED
    BY <1>1, <1>3, <1>4 DEF HeapOK

(* createModule.                                                           *)
LEMMA CreateModuleLinks ==
  ASSUME Inv, LinksInv, loads # <<>>, NEW order \in Orders(DOMAIN Source.classes),
         createModule(order)
  PROVE  LinksInv'
  <1>1. loads # <<>> /\ Top.step = "create"
    BY Zenon DEF createModule
  <1>2. PICK top : top = Top
    OBVIOUS
  <1>3. /\ LoadOK(top, installation, DOMAIN modules, Registered)
        /\ LoadApart(top, objects, modules, Range(kernelModules), Registered)
    BY <1>1, <1>2, TopIs, StackIs
  <1>4. /\ {"path", "step", "module", "files", "imports"} \subseteq DOMAIN top
        /\ top.module = Nil /\ top.path # <<"Kernel">>
    BY <1>1, <1>2, <1>3 DEF LoadOK, LoadApart
  <1>5. phase = "done"
    BY <1>1, Loading
  <1>6. /\ DOMAIN modules \subseteq Nat /\ IsFiniteSet(DOMAIN modules) /\ Kernel \in DOMAIN modules
        /\ Registered \subseteq DOMAIN modules /\ Range(kernelModules) \subseteq DOMAIN modules
    BY <1>1, TopIs DEF Inv, LoaderInv, Registered, LinksInv, ModuleInv
  <1>7. PICK k, name : k = NewModule /\ name = ModuleClassName(Source.classes, order)
    OBVIOUS
  <1>8. k \in Nat \ DOMAIN modules /\ k # Kernel
    <2>1. PICK D : D = DOMAIN modules
      OBVIOUS
    <2> QED
      BY <1>6, <1>7, <2>1, NewModuleIs DEF NewModule, Kernel
  <1>9. PICK s : s = Source.classes[name]
    OBVIOUS
  <1>10. PICK super, table : /\ super = NamespaceAt(Kernel, s.supername)
                             /\ table = WithSymbols(symbolTable, NamesOf(name, s))
    OBVIOUS
  <1>11. PICK names : names = Over(At(name, ClassIn(k, name)), bindKernelExports)
    OBVIOUS
  <1>12. PICK new : new = [path |-> top.path, namespace |-> names,
                           extensions |-> <<>>, overriden |-> <<>>]
    OBVIOUS
  <1>13. PICK l : l = [top EXCEPT !.step = "import", !.module = k,
                                  !.files = Without(name, order), !.imports = Source.imports]
    OBVIOUS
  <1>14. \/ Fail
         \/ Stop("no Module subclass") \/ Stop("KeyNotFound") \/ Stop("MessageNotUnderstood")
         \/ super # Nil /\ IsClass(super) /\ Created(name, k, super, table, order)
    <2>1. \E n \in {ModuleClassName(Source.classes, order)} :
             \/ Fail
             \/ Stop("no Module subclass")
             \/ \E above \in {NamespaceAt(Kernel, Source.classes[n].supername)},
                   known \in {WithSymbols(symbolTable, NamesOf(n, Source.classes[n]))} :
                     \/ Stop("KeyNotFound") \/ Stop("MessageNotUnderstood")
                     \/ Fail
                     \/ above # Nil /\ IsClass(above) /\ Created(n, NewModule, above, known, order)
      BY ZenonT(40) DEF createModule, Created
    <2> QED
      BY <1>7, <1>9, <1>10, <2>1, Zenon
  <1>15. CASE Fail
    BY <1>1, <1>2, <1>4, <1>6, <1>15, FailLinks, NilAssumption
  <1>16. CASE Stop("no Module subclass") \/ Stop("KeyNotFound") \/ Stop("MessageNotUnderstood")
    BY <1>1, <1>16, StopLinks, Zenon
  <1>17. CASE super # Nil /\ IsClass(super) /\ Created(name, k, super, table, order)
    <2>1. /\ objects' = Over(NewClass(table, k, name, s, super), objects)
          /\ modules' = Over(modules, At(k, new))
          /\ loads' = Append(Pop, l)
          /\ UNCHANGED <<phase, spec, namespace, provider, loadedModules, kernelModules>>
      BY <1>2, <1>9, <1>11, <1>12, <1>13, <1>17 DEF Created
    <2>2. PICK objs, mods, objs2, mods2 : /\ objs = objects /\ mods = modules
                                          /\ objs2 = objects' /\ mods2 = modules'
      OBVIOUS
    <2>3. HeapOK(objs, mods) /\ k \notin DOMAIN mods
      BY <1>5, <1>8, <2>2, DoneIs
    <2>4. super \in DOMAIN objs /\ super.module = Kernel
      <3>1. PICK n : n = s.supername
        OBVIOUS
      <3> QED
        BY <1>5, <1>6, <1>10, <1>17, <2>2, <3>1, NamespaceLinks
    <2>5. /\ Filled(objs2, {"MethodDictionary"}) /\ Paired(objs2)
          /\ ClassIn(k, name) \in DOMAIN objs2 /\ ClassIn(k, name).module = k
          /\ DOMAIN objs \subseteq DOMAIN objs2
          /\ \A sp \in DOMAIN objs2 : sp \in DOMAIN objs \/ sp.module = k
          /\ \A x : Isolated(x, objs, mods) /\ (x = k \/ super.module # x) => Isolated(x, objs2, mods)
      <3>1. objs2 = Over(NewClass(table, k, name, s, super), objs)
        BY <2>1, <2>2
      <3> QED
        BY <1>17, <2>2, <2>3, <2>4, <3>1, ClassAdded
    <2>6. ASSUME NEW n \in DOMAIN names, IsClass(names[n])
          PROVE  names[n] \in DOMAIN objs2 /\ names[n].module \in {k, Kernel}
      <3>1. PICK exports : exports = bindKernelExports
        OBVIOUS
      <3>2. \A y \in DOMAIN exports : exports[y] = NamespaceAt(Kernel, y) /\ exports[y] # Nil
        BY <3>1 DEF bindKernelExports
      <3>3. names = Over(At(name, ClassIn(k, name)), exports)
        BY <1>11, <3>1
      <3>4. CASE n = name
        <4>1. names[n] = ClassIn(k, name)
          BY <3>3, <3>4 DEF Over, At
        <4> QED
          BY <2>5, <4>1
      <3>5. CASE n # name
        <4>1. n \in DOMAIN exports /\ names[n] = exports[n]
          BY <3>3, <3>5 DEF Over, At
        <4>2. PICK value : value = names[n]
          OBVIOUS
        <4>3. value = NamespaceAt(Kernel, n) /\ value # Nil /\ IsClass(value)
          BY <2>6, <3>2, <4>1, <4>2
        <4>4. value \in DOMAIN objects /\ value.module = Kernel
          BY <1>5, <1>6, <4>3, NamespaceLinks
        <4> QED
          BY <2>2, <2>5, <4>2, <4>4
      <3> QED
        BY <3>4, <3>5
    <2>7. /\ HeapOK(objs2, mods2) /\ DOMAIN mods2 = DOMAIN mods \cup {k}
          /\ \A x : x # Kernel /\ Isolated(x, objs2, mods) => Isolated(x, objs2, mods2)
      <3>1. \A m \in DOMAIN mods : NamesLinked(mods[m], objs2)
        BY <2>3, <2>5 DEF HeapOK, ModulesLinked, NamesLinked
      <3>2. \A sp \in DOMAIN objs2 : sp.module \in DOMAIN mods \cup {Kernel, k}
        BY <2>3, <2>5 DEF HeapOK, ModulesLinked
      <3>3. ClassesFirst(k, objs2, mods)
        BY <2>5, <3>1, <3>2 DEF ClassesFirst
      <3>4. {"path", "namespace"} \subseteq DOMAIN new /\ new.namespace = names
        BY <1>12
      <3>5. KnowsOwn(new, k, objs2)
        BY <2>6, <3>4 DEF KnowsOwn
      <3>6. mods2 = Over(mods, At(k, new))
        BY <2>1, <2>2
      <3>7. HeapOK(objs2, mods2)
        BY <2>3, <3>3, <3>5, <3>6, ModuleAdded
      <3>8. ASSUME NEW x, x # Kernel, Isolated(x, objs2, mods) PROVE Isolated(x, objs2, mods2)
        BY <2>3, <3>3, <3>5, <3>6, <3>8, ModuleAdded
      <3>9. DOMAIN mods2 = DOMAIN mods \cup {k}
        BY <3>6 DEF Over, At
      <3> QED
        BY <3>7, <3>8, <3>9
    <2>8. l.path = top.path /\ l.step = "import" /\ l.module = k
      <3>1. PICK files, imports : files = Without(name, order) /\ imports = Source.imports
        OBVIOUS
      <3>2. l = [top EXCEPT !.step = "import", !.module = k, !.files = files, !.imports = imports]
        BY <1>13, <3>1
      <3> QED
        BY <1>4, <3>2
    <2>9. PICK bound, registered : bound = Range(kernelModules) /\ registered = Registered
      OBVIOUS
    <2>10. LoadApart(l, objs2, mods2, bound, registered)
      <3>1. k \notin bound
        BY <1>6, <1>8, <2>9
      <3>2. Isolated(k, objs, mods)
        BY <1>8, <2>3, AbsentIsolated
      <3> QED
        BY <1>4, <1>8, <2>5, <2>7, <2>8, <3>1, <3>2 DEF LoadApart
    <2>11. ASSUME NEW i \in 1 .. Len(Pop)
           PROVE  Pop[i].module \notin bound /\ Isolated(Pop[i].module, objs2, mods2)
      <3>1. PICK x : x = Pop[i].module
        OBVIOUS
      <3>2. x \notin bound /\ x # Kernel /\ Isolated(x, objs, mods)
        BY <1>1, <2>2, <2>9, <3>1, OthersAre
      <3> QED
        BY <2>4, <2>5, <2>7, <3>1, <3>2
    <2>12. LoadsApart(Append(Pop, l), objs2, mods2, bound, registered)
      BY <1>1, <2>9, <2>10, <2>11, TopGoesOn
    <2>13. Range(kernelModules)' = bound /\ Registered' = registered
      BY <2>1, <2>9 DEF Registered, Range
    <2>14. LoadsApart(loads', objects', modules', Range(kernelModules)', Registered')
      BY <2>1, <2>2, <2>12, <2>13
    <2>15. /\ HeapOK(objects', modules')
           /\ \A sp \in DOMAIN objects : sp.module = Kernel => sp \in DOMAIN objects'
      BY <2>2, <2>5, <2>7
    <2>16. /\ Range(kernelModules)' \subseteq DOMAIN modules'
           /\ <<"Kernel">> \in DOMAIN kernelModules' => kernelModules'[<<"Kernel">>] = Kernel
      BY <1>6, <2>1, <2>2, <2>7, <2>9, <2>13 DEF LinksInv, ModuleInv
    <2> QED
      BY <1>5, <2>1, <2>14, <2>15, <2>16, DoneKept
  <1> QED
    BY <1>14, <1>15, <1>16, <1>17, Zenon

-----------------------------------------------------------------------------
(* At first there is nothing.                                              *)
LEMMA InitLinks ==
  ASSUME LoaderInit PROVE LinksInv
  <1>1. /\ phase = "specs" /\ DOMAIN objects = {} /\ DOMAIN namespace = {}
        /\ provider \in {"bootstrap", "dynamic"}
        /\ DOMAIN modules = {} /\ DOMAIN kernelModules = {} /\ loads = <<>>
    BY DEF LoaderInit, BootInit
  <1>2. KernelInv
    BY <1>1 DEF KernelInv, Phases, Linked
  <1>3. KernelNames(namespace, objects)
    BY <1>1 DEF KernelNames
  <1>4. Range(kernelModules) = {}
    BY <1>1 DEF Range
  <1>5. LoadsApart(loads, objects, modules, Range(kernelModules), Registered)
    BY <1>1, NoneApart
  <1>6. ModuleInv
    BY <1>1, <1>4, <1>5 DEF ModuleInv, ModulesLinked
  <1> QED
    BY <1>2, <1>3, <1>6 DEF LinksInv

(* One lemma for each action says that it keeps the links.                 *)
LEMMA StepLinks ==
  ASSUME Inv, LinksInv, [Next]_vars
  PROVE  LinksInv'
  <1>1. CASE BootNext /\ UNCHANGED loaderVars
    BY <1>1, BootstrapLinks
  <1>2. CASE loadKernel
    BY <1>2, LoadKernelLinks
  <1>3. CASE \E path \in DOMAIN installation.modules : load(path)
    BY <1>3, LoadLinks
  <1>4. CASE /\ loads # <<>> /\ Top.path \in DOMAIN installation.modules
             /\ \E files \in Orders(DOMAIN Source.classes) : createModule(files)
    BY <1>4, CreateModuleLinks
  <1>5. CASE \/ moduleNotFound \/ importRequired \/ sortClasses \/ createClass
             \/ compileExtensions \/ register \/ justLoaded
    BY <1>5, ModuleNotFoundLinks, ImportRequiredLinks, SortClassesLinks, CreateClassLinks,
       CompileExtensionsLinks, RegisterLinks, JustLoadedLinks
  <1>6. CASE UNCHANGED vars
    <2>1. UNCHANGED <<phase, spec, todo, objects, namespace, provider, modules, loadedModules,
                      kernelModules, loads>>
      BY <1>6 DEF vars
    <2>2. KernelInv' /\ KernelNames(namespace', objects')
      BY <2>1 DEF LinksInv, KernelInv
    <2>3. Range(kernelModules)' = Range(kernelModules) /\ Registered' = Registered
      BY <2>1 DEF Range, Registered
    <2>4. ModuleInv'
      BY <2>1, <2>3 DEF LinksInv, ModuleInv
    <2> QED
      BY <2>2, <2>4 DEF LinksInv
  <1> QED
    BY <1>1, <1>2, <1>3, <1>4, <1>5, <1>6 DEF Next, LoadNext

(* What the invariants say of the types.                                   *)
LEMMA LinksImplyTypes ==
  ASSUME Inv, LinksInv
  PROVE  TypeOK
  <1>1. phase \in Phases /\ provider \in {"bootstrap", "dynamic"}
    BY DEF LinksInv, KernelInv
  <1>2. ASSUME NEW sp \in DOMAIN objects
        PROVE  /\ objects[sp].next \in DOMAIN objects \cup {Nil}
               /\ objects[sp].superclass \in DOMAIN objects \cup {Nil}
               /\ objects[sp].md = Nil \/ objects[sp].md.kind \in {"Array", "MethodDictionary"}
               /\ phase = "done" => objects[sp].md.kind = "MethodDictionary"
    <2>1. SlotsLinked(objects[sp], objects)
      BY DEF LinksInv, KernelInv, Linked
    <2>2. objects[sp].md = Nil \/ KindIn(objects[sp], Kinds)
      BY DEF LinksInv, KernelInv
    <2>3. phase = "done" => KindIn(objects[sp], {"MethodDictionary"})
      BY DEF LinksInv, KernelInv
    <2> QED
      BY <2>1, <2>2, <2>3 DEF SlotsLinked, KindIn, Kinds
  <1>3. DOMAIN kernelModules = {} \/ kernelModules[<<"Kernel">>] = Kernel
    <2>1. CASE DOMAIN modules = {}
      BY <2>1 DEF LinksInv, ModuleInv, Range
    <2>2. CASE DOMAIN modules # {}
      BY <2>2 DEF Inv, LoaderInv, LinksInv, ModuleInv
    <2> QED
      BY <2>1, <2>2
  <1>4. ASSUME NEW i \in DOMAIN loads
        PROVE  loads[i].module \in DOMAIN modules \cup {Nil}
    <2>1. PICK ls : ls = loads
      OBVIOUS
    <2>2. IsSeq(ls) /\ LoadsOK(ls, installation, DOMAIN modules, Registered)
      BY <2>1 DEF Inv, LoaderInv, LoadsOK
    <2>3. i \in 1 .. Len(ls)
      BY <2>1, <2>2 DEF IsSeq
    <2>4. LoadOK(ls[i], installation, DOMAIN modules, Registered)
      BY <2>2, <2>3 DEF LoadsOK
    <2> QED
      BY <2>1, <2>4 DEF LoadOK, Unregistered
  <1> QED
    BY <1>1, <1>2, <1>3, <1>4 DEF TypeOK

(* Whatever a behavior links to is there: its next behavior, through which *)
(* lookups go on (initializeMetaobjectsOf_, newSubclassOf:), its superclass *)
(* and its method dictionary, which is a MethodDictionary once the         *)
(* bootstrap is over.  In particular when a load fails half way and what it *)
(* has made is dropped: no class of another module was made below it, and  *)
(* no module has imported it, for whatever installation and imports.       *)
THEOREM NothingDangles == Spec => []TypeOK
  <1>1. LoaderInit => Inv /\ LinksInv
    BY InitInv, InitLinks
  <1>2. (Inv /\ LinksInv) /\ [Next]_vars => (Inv /\ LinksInv)'
    BY StepKeeps, StepLinks
  <1>3. Inv /\ LinksInv => TypeOK
    BY LinksImplyTypes
  <1> QED
    BY <1>1, <1>2, <1>3, PTL DEF Spec

-----------------------------------------------------------------------------
(* What the sources of an installation may ask for such that it is clear   *)
(* what is meant: modules have different file names, under which the       *)
(* Loader registers them; a module does not import a name of a class of    *)
(* its own, nor one that the exporter only knows from elsewhere.           *)
Imported(source) == {source.imports[i].name : i \in 1 .. Len(source.imports)}
Paths(files) ==
    {<<"Kernel">>} \cup DOMAIN files.modules
    \cup UNION {{files.modules[p].imports[i].module : i \in 1 .. Len(files.modules[p].imports)} :
                   p \in DOMAIN files.modules}
Plain(files, source, import) ==
    /\ import.name \notin DOMAIN source.classes
    /\ import.module = <<"Kernel">> => import.name \notin {"WordSize", "Kernel"}
    /\ import.module \in DOMAIN files.modules =>
          LET exporter == files.modules[import.module]
          IN  \/ import.name \in DOMAIN exporter.classes
              \/ import.name \notin Imported(exporter) \cup KernelExports
Unambiguous(files) ==
    /\ \A p, q \in Paths(files) : Last(p) = Last(q) => p = q
    /\ \A p \in DOMAIN files.modules : \A i \in 1 .. Len(files.modules[p].imports) :
          Plain(files, files.modules[p], files.modules[p].imports[i])

(* The names of the kernel's classes stand for these.                      *)
KernelNamed(table) ==
    \A i \in DOMAIN table :
       \/ table[i] = Nil \/ table[i].key.name \in {"WordSize", "Kernel"}
       \/ table[i].value = Class(table[i].key.name)

(* How far a module is: the first n of its imports are read, and all of    *)
(* its classes are made but those in rest.                                 *)
ImportsRead(module, imports, kernels, n) ==
    \A j \in 1 .. n :
       /\ imports[j].module \in DOMAIN kernels /\ imports[j].name \in DOMAIN module.namespace
       /\ \/ module.namespace[imports[j].name] = ClassIn(kernels[imports[j].module], imports[j].name)
          \/ \E l \in j + 1 .. n : imports[l].name = imports[j].name
ClassesMade(module, m, source, rest) ==
    \A n \in DOMAIN source.classes \ rest :
       n \in DOMAIN module.namespace /\ module.namespace[n] = ClassIn(m, n)
NoOtherNames(module, source) ==
    DOMAIN module.namespace \subseteq DOMAIN source.classes \cup Imported(source) \cup KernelExports

AsFar(module, m, source, kernels, n, rest) ==
    /\ NoOtherNames(module, source)
    /\ ImportsRead(module, source.imports, kernels, n)
    /\ ClassesMade(module, m, source, rest)
Whole(module, m, files, kernels) ==
    /\ module.path \in DOMAIN files.modules
    /\ LET source == files.modules[module.path]
       IN  AsFar(module, m, source, kernels, Len(source.imports), {})

(* Of the imports of a load, the last ones are left.                       *)
LeftOver(left, imports) ==
    /\ Len(left) <= Len(imports)
    /\ \A i \in 1 .. Len(left) : left[i] = imports[Len(imports) - Len(left) + i]

(* How far a load is.                                                      *)
LoadAsFar(l, mods, files, kernels) ==
    LET source == files.modules[l.path]
        total == Len(source.imports)
    IN  /\ l.path \in Paths(files) \ DOMAIN kernels
        /\ l.step # "create" => mods[l.module].path = l.path
        /\ l.step = "import" =>
              /\ LeftOver(l.imports, source.imports)
              /\ AsFar(mods[l.module], l.module, source, kernels, total - Len(l.imports), Range(l.files))
        /\ l.step = "classes" =>
              AsFar(mods[l.module], l.module, source, kernels, total, Range(l.files))
        /\ l.step = "register" => AsFar(mods[l.module], l.module, source, kernels, total, {})
LoadsAsFar(ls, mods, files, kernels) ==
    /\ \A i \in 1 .. Len(ls) : LoadAsFar(ls[i], mods, files, kernels)
    /\ \A i \in 1 .. Len(ls) - 1 : ls[i].imports # <<>> /\ ls[i + 1].path = ls[i].imports[1].module

(* Whatever has been registered is complete.                               *)
RegisteredWhole(mods, files, kernels, registered) ==
    \A m \in registered : IF m = Kernel THEN mods[m].path = <<"Kernel">>
                          ELSE Whole(mods[m], m, files, kernels)
PathsKept(mods, loaded, kernels) ==
    /\ \A f \in DOMAIN loaded : Last(mods[loaded[f]].path) = f
    /\ \A path \in DOMAIN kernels : mods[kernels[path]].path = path

CompleteInv ==
    /\ KernelNamed(namespace)
    /\ Unambiguous(installation) /\ DOMAIN modules # {} =>
          /\ RegisteredWhole(modules, installation, kernelModules, Registered)
          /\ PathsKept(modules, loadedModules, kernelModules)
          /\ Range(kernelModules) \subseteq Registered
          /\ LoadsAsFar(loads, modules, installation, kernelModules)

-----------------------------------------------------------------------------
(* The greatest of some of the first numbers.                              *)
LEMMA MaxIn ==
  ASSUME NEW n \in Nat, NEW S, S \subseteq 1 .. n, S # {}
  PROVE  Max(S) \in S /\ \A x \in S : Max(S) >= x
  <1>1. PICK T : T = {k \in Nat : k <= n /\ n - k \in S}
    OBVIOUS
  <1>2. T \subseteq Nat /\ T # {}
    <2>1. PICK x \in S : TRUE
      OBVIOUS
    <2>2. n - x \in Nat /\ n - x <= n /\ n - (n - x) = x
      BY <2>1
    <2> QED
      BY <1>1, <2>2
  <1>r. PICK R : R = {ss \in Nat \X Nat : ss[1] < ss[2]}
    OBVIOUS
  <1>3. IsWellFoundedOn(R, Nat)
    BY <1>r, NatLessThanWellFounded DEF OpToRel
  <1>4. PICK k \in T : \A y \in T : ~(<<y, k>> \in R)
    BY <1>2, <1>3, WFMin
  <1>5. \A y \in T : k <= y
    <2> SUFFICES ASSUME NEW y \in T PROVE k <= y
      OBVIOUS
    <2>1. ~(<<y, k>> \in R) /\ k \in Nat /\ y \in Nat
      BY <1>2, <1>4
    <2> QED
      BY <2>1, <1>r
  <1>6. n - k \in S
    BY <1>1, <1>4
  <1>7. ASSUME NEW x \in S PROVE n - k >= x
    <2>1. n - x \in T
      BY <1>1
    <2> QED
      BY <1>1, <1>2, <1>5, <2>1
  <1>8. \E x \in S : \A y \in S : x >= y
    BY <1>6, <1>7
  <1> QED
    BY <1>8 DEF Max

(* An order of the files of a directory has all of them.                   *)
LEMMA OrderHasAll ==
  ASSUME NEW names, IsFiniteSet(names), NEW files \in Orders(names)
  PROVE  files \in Seq(names) /\ names \subseteq Range(files)
  <1>1. PICK n : n = Cardinality(names)
    OBVIOUS
  <1>2. n \in Nat /\ IsFiniteSet(1 .. n) /\ Cardinality(1 .. n) = n
    BY <1>1, FS_CardinalityType, FS_Interval
  <1>3. files \in [1 .. n -> names] /\ IsInjective(files)
    BY <1>1 DEF Orders
  <1>4. files \in Injection(1 .. n, names)
    BY <1>3 DEF Injection
  <1>5. files \in Surjection(1 .. n, names)
    BY <1>1, <1>2, <1>4, FS_Injection
  <1>6. names \subseteq Range(files)
    BY <1>5 DEF Surjection, Range
  <1> QED
    BY <1>2, <1>3, <1>6, SeqDef

(* What Append and \o add to the elements of a sequence.                   *)
LEMMA AppendedHas ==
  ASSUME NEW s, IsSeq(s), NEW e
  PROVE  IsSeq(Append(s, e)) /\ Range(Append(s, e)) = Range(s) \cup {e}
  <1>1. PICK t : t = Append(s, e)
    OBVIOUS
  <1>2. /\ IsSeq(t) /\ Len(t) = Len(s) + 1
        /\ \A i \in 1 .. Len(s) + 1 : t[i] = IF i = Len(s) + 1 THEN e ELSE s[i]
    BY <1>1, Appended
  <1>3. Len(s) \in Nat /\ DOMAIN s = 1 .. Len(s) /\ DOMAIN t = 1 .. Len(s) + 1
    BY <1>2 DEF IsSeq
  <1>4. Range(t) \subseteq Range(s) \cup {e}
    <2> SUFFICES ASSUME NEW i \in DOMAIN t PROVE t[i] \in Range(s) \cup {e}
      BY DEF Range
    <2>1. i = Len(s) + 1 \/ i \in DOMAIN s
      BY <1>3
    <2> QED
      BY <1>2, <1>3, <2>1 DEF Range
  <1>5. e \in Range(t)
    <2>1. Len(s) + 1 \in DOMAIN t /\ t[Len(s) + 1] = e
      BY <1>2, <1>3
    <2> QED
      BY <2>1 DEF Range
  <1>6. ASSUME NEW i \in DOMAIN s PROVE s[i] \in Range(t)
    <2>1. i \in DOMAIN t /\ t[i] = s[i]
      BY <1>2, <1>3, <1>6
    <2> QED
      BY <2>1 DEF Range
  <1>7. Range(s) \subseteq Range(t)
    BY <1>6 DEF Range
  <1> QED
    BY <1>1, <1>2, <1>4, <1>5, <1>7

(* The same of the concatenation.                                          *)
LEMMA ConcatHas ==
  ASSUME NEW s, IsSeq(s), NEW t, IsSeq(t)
  PROVE  Range(s) \cup Range(t) \subseteq Range(s \o t)
  <1>1. PICK u : u = s \o t
    OBVIOUS
  <1>2. /\ IsSeq(u) /\ Len(u) = Len(s) + Len(t)
        /\ \A i \in 1 .. Len(s) + Len(t) : u[i] = IF i <= Len(s) THEN s[i] ELSE t[i - Len(s)]
    BY <1>1, ConcatIs
  <1>3. /\ Len(s) \in Nat /\ Len(t) \in Nat /\ DOMAIN s = 1 .. Len(s) /\ DOMAIN t = 1 .. Len(t)
        /\ DOMAIN u = 1 .. Len(s) + Len(t)
    BY <1>2 DEF IsSeq
  <1>4. ASSUME NEW i \in DOMAIN s PROVE s[i] \in Range(u)
    <2>1. i \in DOMAIN u /\ u[i] = s[i]
      BY <1>2, <1>3, <1>4
    <2> QED
      BY <2>1 DEF Range
  <1>5. ASSUME NEW i \in DOMAIN t PROVE t[i] \in Range(u)
    <2>1. Len(s) + i \in DOMAIN u /\ u[Len(s) + i] = t[i]
      BY <1>2, <1>3, <1>5
    <2> QED
      BY <2>1 DEF Range
  <1>6. Range(s) \subseteq Range(u)
    BY <1>4 DEF Range
  <1>7. Range(t) \subseteq Range(u)
    BY <1>5 DEF Range
  <1> QED
    BY <1>1, <1>6, <1>7

(* The loops over the files of a directory lose none.                      *)
HasAll(S, files) == IsSeq(files) /\ S \subseteq Range(files)
DropAll == INSTANCE FoldInduction WITH step <- WithoutStep, Holds <- HasAll

(* The only file that Without takes away is the one that is named.         *)
LEMMA WithoutOne ==
  ASSUME NEW name, NEW files, IsSeq(files)
  PROVE  IsSeq(Without(name, files)) /\ Range(files) \ {name} \subseteq Range(Without(name, files))
  <1>c. PICK c : c = [name |-> name]
    OBVIOUS
  <1>d. c.name = name
    BY <1>c
  <1>1. Without(name, files) = DropAll!Loop(c, <<>>, files)
    BY <1>d DEF Without, WithoutStep, DropAll!Loop, Folded, DropAll!Folded
  <1>2. PICK at : at = [k \in 0 .. Len(files) |-> {files[i] : i \in 1 .. k} \ {name}]
    OBVIOUS
  <1>3. Len(files) \in Nat /\ DOMAIN files = 1 .. Len(files)
    BY DEF IsSeq
  <1>4. at[0] = {} /\ at[Len(files)] = Range(files) \ {name}
    BY <1>2, <1>3 DEF Range
  <1>5. HasAll(at[0], <<>>)
    BY <1>4, Emptied DEF HasAll
  <1>6. ASSUME NEW u, NEW i \in 1 .. Len(files), HasAll(at[i - 1], u)
        PROVE  HasAll(at[i], WithoutStep(c, u, files[i]))
    <2>1. i - 1 \in 0 .. Len(files) /\ i \in 0 .. Len(files) /\ 1 .. i = (1 .. i - 1) \cup {i}
      BY <1>3
    <2>2. at[i] \subseteq at[i - 1] \cup ({files[i]} \ {name})
      BY <1>2, <2>1
    <2>3. IsSeq(u) /\ at[i - 1] \subseteq Range(u)
      BY <1>6 DEF HasAll
    <2>4. IsSeq(Append(u, files[i])) /\ Range(Append(u, files[i])) = Range(u) \cup {files[i]}
      BY <2>3, AppendedHas
    <2>5. CASE files[i] = name
      <3>1. WithoutStep(c, u, files[i]) = u
        BY <1>d, <2>5 DEF WithoutStep
      <3> QED
        BY <2>2, <2>3, <2>5, <3>1 DEF HasAll
    <2>6. CASE files[i] # name
      <3>1. WithoutStep(c, u, files[i]) = Append(u, files[i])
        BY <1>d, <2>6 DEF WithoutStep
      <3> QED
        BY <2>2, <2>3, <2>4, <3>1 DEF HasAll
    <2> QED
      BY <2>5, <2>6
  <1>7. HasAll(at[Len(files)], DropAll!Loop(c, <<>>, files))
    BY <1>3, <1>5, <1>6, DropAll!LoopProceeds
  <1> QED
    BY <1>1, <1>4, <1>7 DEF HasAll

StateHas(S, state) ==
    /\ {"sorted", "created", "remaining"} \subseteq DOMAIN state
    /\ IsSeq(state.sorted) /\ IsSeq(state.remaining)
    /\ S \subseteq Range(state.sorted) \cup Range(state.remaining)
PassAll == INSTANCE FoldInduction WITH step <- PassStep, Holds <- StateHas
PassesAll == INSTANCE FoldInduction WITH step <- PassesStep, Holds <- StateHas

(* A file is taken, or it remains.                                         *)
LEMMA PassStepHas ==
  ASSUME NEW c, NEW S, NEW acc, StateHas(S, acc), NEW name
  PROVE  StateHas(S \cup {name}, PassStep(c, acc, name))
  <1>1. PICK s, r : s = Append(acc.sorted, name) /\ r = Append(acc.remaining, name)
    OBVIOUS
  <1>2. /\ IsSeq(s) /\ Range(s) = Range(acc.sorted) \cup {name}
        /\ IsSeq(r) /\ Range(r) = Range(acc.remaining) \cup {name}
    <2>1. PICK sorted, remaining : sorted = acc.sorted /\ remaining = acc.remaining
      OBVIOUS
    <2>2. IsSeq(sorted) /\ IsSeq(remaining)
      BY <2>1 DEF StateHas
    <2> QED
      BY <1>1, <2>1, <2>2, AppendedHas
  <1>3. PICK k : k = acc.created \cup {name}
    OBVIOUS
  <1>4. \/ PassStep(c, acc, name) = Replacing(Replacing(acc, "sorted", s), "created", k)
        \/ PassStep(c, acc, name) = Replacing(acc, "remaining", r)
    BY <1>1, <1>3 DEF StateHas, PassStep, Replacing
  <1>5. StateHas(S \cup {name}, Replacing(acc, "remaining", r))
    <2>1. PICK new : new = Replacing(acc, "remaining", r)
      OBVIOUS
    <2>2. /\ DOMAIN new = DOMAIN acc /\ new.remaining = r /\ new.sorted = acc.sorted
      BY <2>1 DEF StateHas, Replacing
    <2> QED
      BY <1>2, <2>1, <2>2 DEF StateHas
  <1>6. StateHas(S \cup {name}, Replacing(Replacing(acc, "sorted", s), "created", k))
    <2>1. PICK new : new = Replacing(Replacing(acc, "sorted", s), "created", k)
      OBVIOUS
    <2>2. /\ DOMAIN new = DOMAIN acc /\ new.sorted = s /\ new.remaining = acc.remaining
      BY <2>1 DEF StateHas, Replacing
    <2> QED
      BY <1>2, <2>1, <2>2 DEF StateHas
  <1> QED
    BY <1>4, <1>5, <1>6

(* One pass.                                                               *)
LEMMA OnePassHas ==
  ASSUME NEW c, NEW S, NEW state, StateHas(S, state)
  PROVE  StateHas(S, OnePass(c.specs, state))
  <1>1. PICK base, files : base = Replacing(state, "remaining", <<>>) /\ files = state.remaining
    OBVIOUS
  <1>2. IsSeq(files) /\ Len(files) \in Nat /\ DOMAIN files = 1 .. Len(files)
    BY <1>1 DEF StateHas, IsSeq
  <1>3. PICK at : at = [k \in 0 .. Len(files) |-> Range(state.sorted) \cup {files[i] : i \in 1 .. k}]
    OBVIOUS
  <1>4. /\ at[0] = Range(state.sorted)
        /\ at[Len(files)] = Range(state.sorted) \cup Range(files)
    BY <1>2, <1>3 DEF Range
  <1>5. StateHas(at[0], base)
    <2>1. PICK none : none = <<>>
      OBVIOUS
    <2>2. DOMAIN base = DOMAIN state /\ base.remaining = none /\ base.sorted = state.sorted
      BY <1>1, <2>1 DEF StateHas, Replacing
    <2> QED
      BY <1>4, <2>1, <2>2, Emptied DEF StateHas
  <1>6. OnePass(c.specs, state) = PassAll!Loop(c, base, files)
    <2>1. OnePass(c.specs, state) = PassAll!Loop(c, [state EXCEPT !.remaining = <<>>], state.remaining)
      BY DEF OnePass, PassStep, PassAll!Loop, Folded, PassAll!Folded
    <2> QED
      BY <1>1, <2>1 DEF Replacing
  <1>7. ASSUME NEW u, NEW i \in 1 .. Len(files), StateHas(at[i - 1], u)
        PROVE  StateHas(at[i], PassStep(c, u, files[i]))
    <2>1. i - 1 \in 0 .. Len(files) /\ i \in 0 .. Len(files) /\ 1 .. i = (1 .. i - 1) \cup {i}
      BY <1>2
    <2>2. at[i] = at[i - 1] \cup {files[i]}
      BY <1>3, <2>1
    <2> QED
      BY <1>7, <2>2, PassStepHas
  <1>8. StateHas(at[Len(files)], PassAll!Loop(c, base, files))
    BY <1>2, <1>5, <1>7, PassAll!LoopProceeds
  <1> QED
    BY <1>1, <1>4, <1>6, <1>8 DEF StateHas

(* Sorting the files loses none.                                           *)
LEMMA SortedHas ==
  ASSUME NEW specs, NEW first, NEW files, IsSeq(files)
  PROVE  Range(files) \subseteq Range(Sorted(specs, first, files))
  <1>c. PICK c : c = [specs |-> specs]
    OBVIOUS
  <1>d. c.specs = specs
    BY <1>c
  <1>1. PICK base : base = [sorted |-> <<>>, created |-> {first}, remaining |-> files]
    OBVIOUS
  <1>2. PICK at, S : S = Range(files) /\ at = [k \in 0 .. Len(files) |-> S]
    OBVIOUS
  <1>3. Len(files) \in Nat /\ at[0] = S /\ at[Len(files)] = S
        /\ \A i \in 1 .. Len(files) : at[i - 1] = S /\ at[i] = S
    BY <1>2 DEF IsSeq
  <1>4. StateHas(S, base)
    <2>1. base.sorted = <<>> /\ base.remaining = files
          /\ {"sorted", "created", "remaining"} \subseteq DOMAIN base
      BY <1>1
    <2> QED
      BY <1>2, <2>1, Emptied DEF StateHas
  <1>5. ASSUME NEW u, NEW i \in 1 .. Len(files), StateHas(S, u)
        PROVE  StateHas(S, PassesStep(c, u, files[i]))
    BY <1>5, OnePassHas DEF PassesStep
  <1>6. StateHas(S, PassesAll!Loop(c, base, files))
    BY <1>3, <1>4, <1>5, PassesAll!LoopProceeds
  <1>7. AfterPasses(specs, first, files) = PassesAll!Loop(c, base, files)
    BY <1>1, <1>d DEF AfterPasses, PassesStep, PassesAll!Loop, Folded, PassesAll!Folded
  <1>8. PICK end : end = AfterPasses(specs, first, files)
    OBVIOUS
  <1>9. Sorted(specs, first, files) = end.sorted \o end.remaining
    BY <1>8, Zenon DEF Sorted, AfterPasses
  <1>10. PICK s, r : s = end.sorted /\ r = end.remaining
    OBVIOUS
  <1>11. IsSeq(s) /\ IsSeq(r) /\ S \subseteq Range(s) \cup Range(r)
    BY <1>6, <1>7, <1>8, <1>10 DEF StateHas
  <1> QED
    BY <1>2, <1>9, <1>10, <1>11, ConcatHas

-----------------------------------------------------------------------------
(* Names.  The symbol that is looked for has the name.                     *)
LEMMA DynamicNamed ==
  ASSUME NEW table, NEW n
  PROVE  DynamicSymbol(table, n).name = n
  <1>1. PICK all : all = WithSymbols(table, {n})
    OBVIOUS
  <1>2. \E s \in all : s.name = n
    <2>1. CASE ExistingSymbols(table, n) = {}
      <3>1. PICK s : s = [name |-> n, by |-> "asSymbol"]
        OBVIOUS
      <3>2. s \in all /\ s.name = n
        BY <1>1, <2>1, <3>1 DEF WithSymbols
      <3> QED
        BY <3>2
    <2>2. CASE ExistingSymbols(table, n) # {}
      BY <1>1, <2>2 DEF ExistingSymbols, WithSymbols
    <2> QED
      BY <2>1, <2>2
  <1>3. DynamicSymbol(table, n) = CHOOSE s \in all : s.name = n
    BY <1>1 DEF DynamicSymbol
  <1> QED
    BY <1>2, <1>3

(* What the kernel has under a name is the class of that name.             *)
LEMMA KernelMeans ==
  ASSUME KernelNamed(namespace), DOMAIN namespace \subseteq Nat,
         NEW n, n \notin {"WordSize", "Kernel"},
         NEW value, value = NamespaceAt(Kernel, n), value # Nil
  PROVE  value = ClassIn(Kernel, n)
  <1>1. PICK symbol : symbol = DynamicSymbol(symbolTable, n)
    OBVIOUS
  <1>2. symbol.name = n
    BY <1>1, DynamicNamed
  <1>3. PICK at : at = {i \in DOMAIN namespace : namespace[i] # Nil /\ namespace[i].key = symbol}
    OBVIOUS
  <1>4. PICK assoc : assoc = lookupAssociationFor(symbol, namespace)
    OBVIOUS
  <1>5. assoc = IF at = {} THEN Nil ELSE namespace[Min(at)]
    BY <1>3, <1>4 DEF lookupAssociationFor
  <1>6. assoc # Nil /\ value = assoc.value
    BY <1>1, <1>4 DEF NamespaceAt
  <1>7. Min(at) \in at
    BY <1>3, <1>5, <1>6, MinIn
  <1>8. assoc.key = symbol /\ Min(at) \in DOMAIN namespace /\ assoc = namespace[Min(at)]
    BY <1>3, <1>5, <1>6, <1>7
  <1>9. assoc.value = Class(n)
    BY <1>2, <1>6, <1>8 DEF KernelNamed
  <1> QED
    BY <1>6, <1>9 DEF Class, ClassIn, Kernel

(* A module is as far as it was when the kernel registers another one.     *)
Widens(more, kernels) ==
    DOMAIN kernels \subseteq DOMAIN more /\ \A p \in DOMAIN kernels : more[p] = kernels[p]
LEMMA StaysAsFar ==
  ASSUME NEW module, NEW m, NEW source, NEW kernels, NEW n, NEW rest,
         AsFar(module, m, source, kernels, n, rest),
         NEW new, new.namespace = module.namespace, NEW more, Widens(more, kernels)
  PROVE  AsFar(new, m, source, more, n, rest)
  <1>1. NoOtherNames(new, source) /\ ClassesMade(new, m, source, rest)
    BY DEF AsFar, NoOtherNames, ClassesMade
  <1>2. ImportsRead(new, source.imports, more, n)
    BY DEF AsFar, ImportsRead, Widens
  <1> QED
    BY <1>1, <1>2 DEF AsFar

(* It gets one import further.                                             *)
LEMMA ImportedOne ==
  ASSUME NEW module, NEW m, NEW source, NEW kernels, NEW n \in Nat, NEW rest,
         AsFar(module, m, source, kernels, n, rest), n + 1 <= Len(source.imports),
         Len(source.imports) \in Nat,
         NEW import, import = source.imports[n + 1],
         import.module \in DOMAIN kernels, import.name \notin DOMAIN source.classes,
         NEW new, new.namespace = Over(At(import.name, ClassIn(kernels[import.module], import.name)),
                                       module.namespace)
  PROVE  AsFar(new, m, source, kernels, n + 1, rest)
  <1>1. PICK imports : imports = source.imports
    OBVIOUS
  <1>2. PICK value : value = ClassIn(kernels[import.module], import.name)
    OBVIOUS
  <1>3. /\ DOMAIN new.namespace = {import.name} \cup DOMAIN module.namespace
        /\ \A x \in DOMAIN new.namespace :
              new.namespace[x] = IF x = import.name THEN value ELSE module.namespace[x]
    BY <1>2 DEF Over, At
  <1>4. NoOtherNames(new, source)
    <2>1. import.name \in Imported(source)
      BY DEF Imported
    <2> QED
      BY <1>3, <2>1 DEF AsFar, NoOtherNames
  <1>5. ClassesMade(new, m, source, rest)
    BY <1>3 DEF AsFar, ClassesMade
  <1>6. ASSUME NEW j \in 1 .. n + 1
        PROVE  /\ imports[j].module \in DOMAIN kernels /\ imports[j].name \in DOMAIN new.namespace
               /\ \/ new.namespace[imports[j].name]
                        = ClassIn(kernels[imports[j].module], imports[j].name)
                  \/ \E l \in j + 1 .. n + 1 : imports[l].name = imports[j].name
    <2>1. CASE j = n + 1
      <3>1. imports[j] = import
        BY <1>1, <2>1
      <3> QED
        BY <1>2, <1>3, <3>1
    <2>2. CASE j # n + 1
      <3>1. j \in 1 .. n
        BY <2>2
      <3>2. /\ imports[j].module \in DOMAIN kernels /\ imports[j].name \in DOMAIN module.namespace
            /\ \/ module.namespace[imports[j].name]
                     = ClassIn(kernels[imports[j].module], imports[j].name)
               \/ \E l \in j + 1 .. n : imports[l].name = imports[j].name
        BY <1>1, <3>1 DEF AsFar, ImportsRead
      <3>3. CASE imports[j].name = import.name
        <4>1. n + 1 \in j + 1 .. n + 1 /\ imports[n + 1].name = imports[j].name
          BY <1>1, <3>1, <3>3
        <4> QED
          BY <1>3, <3>2, <4>1
      <3>4. CASE imports[j].name # import.name
        <4>1. new.namespace[imports[j].name] = module.namespace[imports[j].name]
          BY <1>3, <3>2, <3>4
        <4>2. j + 1 .. n \subseteq j + 1 .. n + 1
          OBVIOUS
        <4> QED
          BY <1>3, <3>2, <4>1, <4>2
      <3> QED
        BY <3>3, <3>4
    <2> QED
      BY <2>1, <2>2
  <1>7. ImportsRead(new, source.imports, kernels, n + 1)
    BY <1>1, <1>6 DEF ImportsRead
  <1> QED
    BY <1>4, <1>5, <1>7 DEF AsFar

(* It gets one class further.                                              *)
LEMMA MadeOne ==
  ASSUME NEW module, NEW m, NEW source, NEW kernels, NEW n, NEW rest,
         AsFar(module, m, source, kernels, n, rest),
         NEW name \in DOMAIN source.classes, NEW left, rest \subseteq left \cup {name},
         \A j \in 1 .. n : source.imports[j].name # name,
         NEW new, new.namespace = Over(At(name, ClassIn(m, name)), module.namespace)
  PROVE  AsFar(new, m, source, kernels, n, left)
  <1>1. PICK value : value = ClassIn(m, name)
    OBVIOUS
  <1>2. /\ DOMAIN new.namespace = {name} \cup DOMAIN module.namespace
        /\ \A x \in DOMAIN new.namespace :
              new.namespace[x] = IF x = name THEN value ELSE module.namespace[x]
    BY <1>1 DEF Over, At
  <1>3. NoOtherNames(new, source)
    BY <1>2 DEF AsFar, NoOtherNames
  <1>4. ClassesMade(new, m, source, left)
    BY <1>1, <1>2 DEF AsFar, ClassesMade
  <1>5. ImportsRead(new, source.imports, kernels, n)
    BY <1>2 DEF AsFar, ImportsRead
  <1> QED
    BY <1>3, <1>4, <1>5 DEF AsFar

(* Less may be left than is said to be.                                    *)
LEMMA FewerLeft ==
  ASSUME NEW module, NEW m, NEW source, NEW kernels, NEW n, NEW rest,
         AsFar(module, m, source, kernels, n, rest), NEW left, rest \subseteq left
  PROVE  AsFar(module, m, source, kernels, n, left)
  BY DEF AsFar, ClassesMade

(* A module begins with its own class and what all modules know.           *)
LEMMA BeginsAsFar ==
  ASSUME NEW m, NEW source, NEW kernels, NEW name \in DOMAIN source.classes,
         NEW rest, DOMAIN source.classes \subseteq rest \cup {name},
         NEW exports, DOMAIN exports \subseteq KernelExports,
         NEW new, new.namespace = Over(At(name, ClassIn(m, name)), exports)
  PROVE  AsFar(new, m, source, kernels, 0, rest)
  <1>1. PICK value : value = ClassIn(m, name)
    OBVIOUS
  <1>2. DOMAIN new.namespace = {name} \cup DOMAIN exports /\ new.namespace[name] = value
    BY <1>1 DEF Over, At
  <1>3. NoOtherNames(new, source) /\ ClassesMade(new, m, source, rest)
    BY <1>1, <1>2 DEF NoOtherNames, ClassesMade
  <1>4. ImportsRead(new, source.imports, kernels, 0)
    BY DEF ImportsRead
  <1> QED
    BY <1>3, <1>4 DEF AsFar

-----------------------------------------------------------------------------
(* The stack of loads.  What the loads below are about is not what the one *)
(* on top is about.                                                        *)
LEMMA OthersApart ==
  ASSUME Inv, LinksInv, loads # <<>>, NEW i \in 1 .. Len(Pop)
  PROVE  Pop[i].module \in DOMAIN modules /\ Pop[i].module # Top.module
  <1>1. Pop[i].module \in DOMAIN modules \ Registered /\ DOMAIN modules \subseteq Nat
    BY OthersAre DEF Inv, LoaderInv
  <1>2. /\ Top.step \in Unregistered \cup {"create", "justLoaded"}
        /\ Top.step = "create" => Top.module = Nil
    BY TopIs DEF LoadOK
  <1>3. Top.step = "justLoaded" => Top.module \in Registered
    BY StackIs DEF LoadApart
  <1>4. Top.step \in Unregistered => Pop[i].module # Top.module
    BY OthersAre
  <1> QED
    BY <1>1, <1>2, <1>3, <1>4, NilAssumption

(* The loads below, and that they wait for the next one.                   *)
LEMMA StackAsFar ==
  ASSUME Inv, LinksInv, CompleteInv, Unambiguous(installation), loads # <<>>
  PROVE  /\ LoadAsFar(Top, modules, installation, kernelModules)
         /\ \A i \in 1 .. Len(Pop) :
               /\ LoadAsFar(Pop[i], modules, installation, kernelModules)
               /\ Pop[i].imports # <<>>
               /\ i < Len(Pop) => Pop[i + 1].path = Pop[i].imports[1].module
               /\ i = Len(Pop) => Top.path = Pop[i].imports[1].module
  <1>1. PICK ls : ls = loads
    OBVIOUS
  <1>2. Top = ls[Len(ls)] /\ Pop = Popped(ls)
    BY <1>1 DEF Top, Pop, Popped
  <1>3. IsSeq(ls) /\ ls # <<>>
    BY <1>1 DEF Inv, LoaderInv, LoadsOK
  <1>4. /\ Len(ls) \in Nat /\ Len(ls) >= 1 /\ Len(Popped(ls)) = Len(ls) - 1
        /\ \A i \in 1 .. Len(ls) - 1 : Popped(ls)[i] = ls[i]
    BY <1>3, PoppedIs
  <1>5. LoadsAsFar(ls, modules, installation, kernelModules)
    BY <1>1, TopIs DEF CompleteInv
  <1>6. /\ \A i \in 1 .. Len(ls) : LoadAsFar(ls[i], modules, installation, kernelModules)
        /\ \A i \in 1 .. Len(ls) - 1 : ls[i].imports # <<>> /\ ls[i + 1].path = ls[i].imports[1].module
    BY <1>5 DEF LoadsAsFar
  <1>7. LoadAsFar(Top, modules, installation, kernelModules)
    BY <1>2, <1>4, <1>6
  <1>8. ASSUME NEW i \in 1 .. Len(Pop)
        PROVE  /\ LoadAsFar(Pop[i], modules, installation, kernelModules)
               /\ Pop[i].imports # <<>>
               /\ i < Len(Pop) => Pop[i + 1].path = Pop[i].imports[1].module
               /\ i = Len(Pop) => Top.path = Pop[i].imports[1].module
    <2>1. i \in 1 .. Len(ls) - 1 /\ i \in 1 .. Len(ls) /\ Pop[i] = ls[i]
      BY <1>2, <1>4
    <2>2. i < Len(Pop) => i + 1 \in 1 .. Len(ls) - 1 /\ Pop[i + 1] = ls[i + 1]
      BY <1>2, <1>4
    <2>3. i = Len(Pop) => Top = ls[i + 1]
      BY <1>2, <1>4
    <2> QED
      BY <1>6, <2>1, <2>2, <2>3
  <1> QED
    BY <1>7, <1>8

(* A load is as far as it was when its module keeps its path and its names. *)
LEMMA LoadStaysAsFar ==
  ASSUME NEW l, NEW mods, NEW files, NEW kernels, LoadAsFar(l, mods, files, kernels),
         NEW mods2, l.step = "create"
                    \/ (mods2[l.module].path = mods[l.module].path
                        /\ mods2[l.module].namespace = mods[l.module].namespace),
         NEW more, Widens(more, kernels), l.path \notin DOMAIN more
  PROVE  LoadAsFar(l, mods2, files, more)
  <1>1. PICK module, module2, source : /\ module = mods[l.module] /\ module2 = mods2[l.module]
                                       /\ source = files.modules[l.path]
    OBVIOUS
  <1>2. PICK total : total = Len(source.imports)
    OBVIOUS
  <1>3. l.path \in Paths(files) \ DOMAIN more
    BY DEF LoadAsFar
  <1>4. l.step # "create" => module2.path = l.path /\ module2.namespace = module.namespace
    BY <1>1 DEF LoadAsFar
  <1>5. ASSUME NEW n, NEW rest, l.step # "create", AsFar(module, l.module, source, kernels, n, rest)
        PROVE  AsFar(module2, l.module, source, more, n, rest)
    BY <1>4, <1>5, StaysAsFar
  <1>6. l.step = "import" => /\ LeftOver(l.imports, source.imports)
           /\ AsFar(module, l.module, source, kernels, total - Len(l.imports), Range(l.files))
    BY <1>1, <1>2 DEF LoadAsFar
  <1>7. l.step = "classes" => AsFar(module, l.module, source, kernels, total, Range(l.files))
    BY <1>1, <1>2 DEF LoadAsFar
  <1>8. l.step = "register" => AsFar(module, l.module, source, kernels, total, {})
    BY <1>1, <1>2 DEF LoadAsFar
  <1> QED
    BY <1>1, <1>2, <1>3, <1>4, <1>5, <1>6, <1>7, <1>8 DEF LoadAsFar

(* The modules other than m keep their paths and their names.              *)
KeptBut(m, mods2, mods) ==
    \A k \in DOMAIN mods \ {m} :
       mods2[k].path = mods[k].path /\ mods2[k].namespace = mods[k].namespace

(* The loads below stay as far as they were.                               *)
LEMMA OthersAsFar ==
  ASSUME Inv, LinksInv, CompleteInv, Unambiguous(installation), loads # <<>>,
         NEW mods2, KeptBut(Top.module, mods2, modules),
         NEW more, Widens(more, kernelModules),
         NEW i \in 1 .. Len(Pop), Pop[i].path \notin DOMAIN more
  PROVE  LoadAsFar(Pop[i], mods2, installation, more)
  <1>1. PICK l, mods, kernels : l = Pop[i] /\ mods = modules /\ kernels = kernelModules
    OBVIOUS
  <1>2. LoadAsFar(l, mods, installation, kernels)
    BY <1>1, StackAsFar
  <1>3. l.module \in DOMAIN mods \ {Top.module}
    BY <1>1, OthersApart
  <1>4. /\ mods2[l.module].path = mods[l.module].path
        /\ mods2[l.module].namespace = mods[l.module].namespace
    BY <1>1, <1>3 DEF KeptBut
  <1>5. LoadAsFar(l, mods2, installation, more)
    BY <1>1, <1>2, <1>4, LoadStaysAsFar
  <1> QED
    BY <1>1, <1>5

(* The load on top goes on.                                                *)
LEMMA TopGoesFurther ==
  ASSUME Inv, LinksInv, CompleteInv, Unambiguous(installation), loads # <<>>,
         NEW mods2, KeptBut(Top.module, mods2, modules),
         NEW l, LoadAsFar(l, mods2, installation, kernelModules), l.path = Top.path
  PROVE  LoadsAsFar(Append(Pop, l), mods2, installation, kernelModules)
  <1>1. PICK ls, kernels, files, new : /\ ls = Pop /\ kernels = kernelModules
                                       /\ files = installation /\ new = Append(ls, l)
    OBVIOUS
  <1>2. IsSeq(ls)
    BY <1>1, TopIs DEF LoadsOK
  <1>3. /\ Len(ls) \in Nat /\ Len(new) = Len(ls) + 1
        /\ \A i \in 1 .. Len(ls) + 1 : new[i] = IF i = Len(ls) + 1 THEN l ELSE ls[i]
    BY <1>1, <1>2, Appended DEF IsSeq
  <1>4. ASSUME NEW i \in 1 .. Len(ls) PROVE LoadAsFar(ls[i], mods2, files, kernels)
    <2>1. Pop[i].path \notin DOMAIN kernels
      BY <1>1, StackAsFar DEF LoadAsFar
    <2>2. Widens(kernels, kernelModules)
      BY <1>1 DEF Widens
    <2> QED
      BY <1>1, <2>1, <2>2, OthersAsFar
  <1>5. \A i \in 1 .. Len(new) : LoadAsFar(new[i], mods2, files, kernels)
    BY <1>1, <1>3, <1>4
  <1>6. ASSUME NEW i \in 1 .. Len(new) - 1
        PROVE  new[i].imports # <<>> /\ new[i + 1].path = new[i].imports[1].module
    <2>1. i \in 1 .. Len(ls) /\ new[i] = ls[i]
      BY <1>3
    <2>2. /\ ls[i].imports # <<>>
          /\ i < Len(ls) => ls[i + 1].path = ls[i].imports[1].module
          /\ i = Len(ls) => Top.path = ls[i].imports[1].module
      BY <1>1, <2>1, StackAsFar
    <2>3. i < Len(ls) => new[i + 1] = ls[i + 1]
      BY <1>3, <2>1
    <2>4. i = Len(ls) => new[i + 1] = l
      BY <1>3, <2>1
    <2>5. i < Len(ls) \/ i = Len(ls)
      BY <1>3, <2>1
    <2> QED
      BY <2>1, <2>2, <2>3, <2>4, <2>5
  <1>7. LoadsAsFar(new, mods2, files, kernels)
    BY <1>5, <1>6 DEF LoadsAsFar
  <1> QED
    BY <1>1, <1>7

(* No loads.                                                               *)
LEMMA NoneAsFar ==
  ASSUME NEW mods, NEW files, NEW kernels
  PROVE  LoadsAsFar(<<>>, mods, files, kernels)
  BY Emptied DEF LoadsAsFar

(* What is registered stays whole.                                         *)
LEMMA StaysWhole ==
  ASSUME NEW module, NEW m, NEW files, NEW kernels, Whole(module, m, files, kernels),
         NEW new, new.path = module.path, new.namespace = module.namespace,
         NEW more, Widens(more, kernels)
  PROVE  Whole(new, m, files, more)
  BY StaysAsFar DEF Whole

(* So does all that is registered, when only a module that is not changes. *)
LEMMA RegisteredStay ==
  ASSUME Inv, CompleteInv, Unambiguous(installation), DOMAIN modules # {},
         NEW m, m \notin Registered, NEW mods2, KeptBut(m, mods2, modules)
  PROVE  /\ RegisteredWhole(mods2, installation, kernelModules, Registered)
         /\ PathsKept(mods2, loadedModules, kernelModules)
         /\ Range(kernelModules) \subseteq Registered
  <1>1. PICK mods, kernels, registered : /\ mods = modules /\ kernels = kernelModules
                                         /\ registered = Registered
    OBVIOUS
  <1>2. /\ RegisteredWhole(mods, installation, kernels, registered)
        /\ PathsKept(mods, loadedModules, kernels) /\ Range(kernels) \subseteq registered
    BY <1>1 DEF CompleteInv
  <1>3. registered \subseteq DOMAIN mods \ {m}
    BY <1>1 DEF Inv, LoaderInv, Registered
  <1>4. \A k \in registered : mods2[k].path = mods[k].path /\ mods2[k].namespace = mods[k].namespace
    BY <1>1, <1>3 DEF KeptBut
  <1>5. Widens(kernels, kernels)
    BY DEF Widens
  <1>6. RegisteredWhole(mods2, installation, kernels, registered)
    BY <1>2, <1>4, <1>5, StaysWhole DEF RegisteredWhole
  <1>7. /\ \A f \in DOMAIN loadedModules : loadedModules[f] \in registered
        /\ \A p \in DOMAIN kernels : kernels[p] \in registered
    BY <1>1, <1>2 DEF Registered, Range
  <1>8. PathsKept(mods2, loadedModules, kernels)
    BY <1>2, <1>4, <1>7 DEF PathsKept
  <1> QED
    BY <1>1, <1>2, <1>6, <1>8

(* What a step of a load has to show, which registers nothing.             *)
LEMMA GoesFurther ==
  ASSUME Inv, CompleteInv, DOMAIN modules # {},
         UNCHANGED <<installation, namespace, loadedModules, kernelModules>>,
         NEW m, m \notin Registered, KeptBut(m, modules', modules),
         Unambiguous(installation) => LoadsAsFar(loads', modules', installation, kernelModules)
  PROVE  CompleteInv'
  <1>1. KernelNamed(namespace')
    BY DEF CompleteInv
  <1>2. CASE ~Unambiguous(installation)
    BY <1>1, <1>2 DEF CompleteInv
  <1>3. CASE Unambiguous(installation)
    <2>1. PICK mods2 : mods2 = modules'
      OBVIOUS
    <2>2. /\ RegisteredWhole(mods2, installation, kernelModules, Registered)
          /\ PathsKept(mods2, loadedModules, kernelModules)
          /\ Range(kernelModules) \subseteq Registered
      BY <1>3, <2>1, RegisteredStay
    <2>3. Registered' = Registered /\ Range(kernelModules)' = Range(kernelModules)
      BY DEF Registered, Range
    <2> QED
      BY <1>1, <1>3, <2>1, <2>2, <2>3 DEF CompleteInv
  <1> QED
    BY <1>2, <1>3

(* An error ends all loads.                                                *)
LEMMA StopComplete ==
  ASSUME Inv, CompleteInv, loads # <<>>, NEW why, Stop(why)
  PROVE  CompleteInv'
  <1>1. /\ loads' = <<>>
        /\ UNCHANGED <<installation, namespace, modules, loadedModules, kernelModules>>
    BY DEF Stop, bootVars
  <1>2. DOMAIN modules # {}
    BY TopIs
  <1>3. Nil \notin Registered
    BY NilAssumption DEF Inv, LoaderInv, Registered, Kernel
  <1>4. KeptBut(Nil, modules', modules)
    BY <1>1 DEF KeptBut
  <1>5. LoadsAsFar(loads', modules', installation, kernelModules)
    BY <1>1, NoneAsFar
  <1> QED
    BY <1>1, <1>2, <1>3, <1>4, <1>5, GoesFurther

(* What a load that fails has made is dropped.                             *)
LEMMA FailComplete ==
  ASSUME Inv, CompleteInv, loads # <<>>, Fail, Top.module \notin Registered
  PROVE  CompleteInv'
  <1>1. PICK m : m = Top.module
    OBVIOUS
  <1>2. /\ loads' = <<>> /\ modules' = [k \in DOMAIN modules \ {m} |-> modules[k]]
        /\ UNCHANGED <<installation, namespace, loadedModules, kernelModules>>
    BY <1>1 DEF Fail
  <1>3. DOMAIN modules # {}
    BY TopIs
  <1>4. KeptBut(m, modules', modules)
    BY <1>2 DEF KeptBut
  <1>5. LoadsAsFar(loads', modules', installation, kernelModules)
    BY <1>2, NoneAsFar
  <1> QED
    BY <1>1, <1>2, <1>3, <1>4, <1>5, GoesFurther

(* moduleNotFound.                                                         *)
LEMMA ModuleNotFoundComplete ==
  ASSUME Inv, CompleteInv, moduleNotFound
  PROVE  CompleteInv'
  <1>1. loads # <<>> /\ Top.step = "create" /\ Fail
    BY DEF moduleNotFound
  <1>2. Top.module = Nil
    BY <1>1, TopIs DEF LoadOK
  <1>3. Nil \notin Registered
    BY NilAssumption DEF Inv, LoaderInv, Registered, Kernel
  <1> QED
    BY <1>1, <1>2, <1>3, FailComplete

(* The kernel.                                                             *)
LEMMA LoadKernelComplete ==
  ASSUME Inv, LinksInv, CompleteInv, loadKernel
  PROVE  CompleteInv'
  <1>1. /\ DOMAIN modules = {} /\ UNCHANGED <<installation, namespace, loads>>
    BY DEF loadKernel, bootVars
  <1>2. PICK kernel : kernel = [path |-> <<"Kernel">>, namespace |-> <<>>, extensions |-> <<>>,
                                overriden |-> <<>>]
    OBVIOUS
  <1>3. /\ modules' = At(Kernel, kernel) /\ kernelModules' = At(<<"Kernel">>, Kernel)
        /\ loadedModules' = At("Kernel", Kernel)
    BY <1>2 DEF loadKernel
  <1>4. PICK path : path = <<"Kernel">>
    OBVIOUS
  <1>5. /\ DOMAIN modules' = {Kernel} /\ modules'[Kernel].path = path
        /\ DOMAIN kernelModules' = {path} /\ kernelModules'[path] = Kernel
        /\ DOMAIN loadedModules' = {"Kernel"} /\ loadedModules'["Kernel"] = Kernel
    BY <1>2, <1>3, <1>4 DEF At
  <1>6. Last(path) = "Kernel"
    BY <1>4 DEF Last
  <1>7. Range(kernelModules)' = {Kernel} /\ Registered' = {Kernel}
    BY <1>5 DEF Range, Registered
  <1>8. /\ RegisteredWhole(modules', installation', kernelModules', Registered')
        /\ PathsKept(modules', loadedModules', kernelModules')
    BY <1>4, <1>5, <1>6, <1>7 DEF RegisteredWhole, PathsKept
  <1>9. loads' = <<>>
    BY <1>1 DEF Inv, LoaderInv
  <1>10. LoadsAsFar(loads', modules', installation', kernelModules')
    BY <1>9, NoneAsFar
  <1> QED
    BY <1>1, <1>7, <1>8, <1>10 DEF CompleteInv

(* A load begins, of a path that is meant by no other.                     *)
LEMMA LoadOfAsFar ==
  ASSUME Inv, CompleteInv, Unambiguous(installation), DOMAIN modules # {},
         NEW path \in Paths(installation) \ DOMAIN kernelModules
  PROVE  /\ LoadAsFar(LoadOf(path), modules, installation, kernelModules)
         /\ LoadOf(path).path = path
  <1>1. PICK l, name : l = LoadOf(path) /\ name = Last(path)
    OBVIOUS
  <1>2. CASE name \in DOMAIN loadedModules
    <2>1. PICK m : m = loadedModules[name]
      OBVIOUS
    <2>2. l = [path |-> path, step |-> "justLoaded", module |-> m, files |-> <<>>, imports |-> <<>>]
      BY <1>1, <1>2, <2>1 DEF LoadOf
    <2>3. l.path = path /\ l.step = "justLoaded" /\ l.module = m
      BY <2>2
    <2>4. m \in Registered /\ Last(modules[m].path) = name
      BY <1>2, <2>1 DEF CompleteInv, PathsKept, Registered, Range
    <2>5. modules[m].path \in Paths(installation)
      BY <2>4 DEF CompleteInv, RegisteredWhole, Whole, Paths
    <2>6. modules[m].path = path
      BY <1>1, <2>4, <2>5 DEF Unambiguous
    <2> QED
      BY <1>1, <2>3, <2>6 DEF LoadAsFar
  <1>3. CASE name \notin DOMAIN loadedModules
    <2>1. l = [path |-> path, step |-> "create", module |-> Nil, files |-> <<>>, imports |-> <<>>]
      BY <1>1, <1>3 DEF LoadOf
    <2>2. l.path = path /\ l.step = "create"
      BY <2>1
    <2> QED
      BY <1>1, <2>2 DEF LoadAsFar
  <1> QED
    BY <1>2, <1>3

(* load.                                                                   *)
LEMMA LoadComplete ==
  ASSUME Inv, CompleteInv, NEW path \in DOMAIN installation.modules, load(path)
  PROVE  CompleteInv'
  <1>1. /\ DOMAIN modules # {} /\ loads' = <<LoadOf(path)>> /\ path \notin DOMAIN kernelModules
        /\ UNCHANGED <<installation, namespace, modules, loadedModules, kernelModules>>
    BY DEF load, bootVars
  <1>2. PICK l, ls : l = LoadOf(path) /\ ls = <<l>>
    OBVIOUS
  <1>3. Len(ls) = 1 /\ ls[1] = l
    BY <1>2
  <1>4. ASSUME Unambiguous(installation)
        PROVE  LoadsAsFar(loads', modules', installation, kernelModules)
    <2>1. path \in Paths(installation) \ DOMAIN kernelModules
      BY <1>1 DEF Paths
    <2>2. LoadAsFar(l, modules, installation, kernelModules)
      BY <1>1, <1>2, <1>4, <2>1, LoadOfAsFar
    <2>3. LoadsAsFar(ls, modules, installation, kernelModules)
      BY <1>3, <2>2 DEF LoadsAsFar
    <2> QED
      BY <1>1, <1>2, <2>3
  <1>5. Nil \notin Registered /\ KeptBut(Nil, modules', modules)
    BY <1>1, NilAssumption DEF Inv, LoaderInv, Registered, Kernel, KeptBut
  <1> QED
    BY <1>1, <1>4, <1>5, GoesFurther

(* The first import that is left is the next one of the sources.           *)
LEMMA NextImport ==
  ASSUME NEW left, left \in Seq(Import), left # <<>>,
         NEW imports, imports \in Seq(Import), LeftOver(left, imports),
         NEW n, n = Len(imports) - Len(left)
  PROVE  /\ n \in Nat /\ n + 1 \in 1 .. Len(imports) /\ Len(imports) \in Nat
         /\ Head(left) = imports[n + 1] /\ Head(left) = left[1]
         /\ LeftOver(Tail(left), imports) /\ Len(imports) - Len(Tail(left)) = n + 1
  <1>1. Len(left) \in Nat /\ Len(imports) \in Nat /\ Len(left) >= 1
    BY LenProperties
  <1>2. PICK rest : rest = Tail(left)
    OBVIOUS
  <1>3. Len(rest) = Len(left) - 1 /\ \A i \in 1 .. Len(rest) : rest[i] = left[i + 1]
    BY <1>1, <1>2
  <1>4. Head(left) = left[1]
    BY <1>1
  <1>5. Len(left) <= Len(imports) /\ \A i \in 1 .. Len(left) : left[i] = imports[n + i]
    BY DEF LeftOver
  <1>6. left[1] = imports[n + 1]
    BY <1>1, <1>5
  <1>7. ASSUME NEW i \in 1 .. Len(rest)
        PROVE  rest[i] = imports[Len(imports) - Len(rest) + i]
    <2>1. i + 1 \in 1 .. Len(left) /\ rest[i] = left[i + 1]
      BY <1>1, <1>3
    <2>2. left[i + 1] = imports[n + (i + 1)]
      BY <1>5, <2>1
    <2>3. n + (i + 1) = Len(imports) - Len(rest) + i
      BY <1>1, <1>3
    <2> QED
      BY <2>1, <2>2, <2>3
  <1>8. LeftOver(rest, imports)
    BY <1>1, <1>3, <1>5, <1>7 DEF LeftOver
  <1> QED
    BY <1>1, <1>2, <1>3, <1>4, <1>5, <1>6, <1>8

(* What the sources of a load are.                                         *)
LEMMA SourceIs ==
  ASSUME Inv, loads # <<>>, Top.path \in DOMAIN installation.modules,
         NEW source, source = installation.modules[Top.path]
  PROVE  /\ source.imports \in Seq(Import) /\ Len(source.imports) \in Nat
         /\ IsFiniteSet(DOMAIN source.classes)
         /\ Unambiguous(installation) =>
               \A i \in 1 .. Len(source.imports) : Plain(installation, source, source.imports[i])
  <1>1. installation \in Installations
    BY Loading
  <1>2. ModuleSourceOK(source)
    BY <1>1, ModuleSource
  <1> QED
    BY <1>2, LenProperties DEF ModuleSourceOK, Unambiguous

(* What is imported is the class of the module that the kernel has.        *)
LEMMA ImportMeans ==
  ASSUME Inv, LinksInv, CompleteInv, Unambiguous(installation), DOMAIN modules # {},
         NEW source, NEW import, Plain(installation, source, import),
         import.module \in DOMAIN kernelModules,
         NEW from, from = kernelModules[import.module],
         NEW value, value = NamespaceAt(from, import.name), value # Nil
  PROVE  value = ClassIn(from, import.name)
  <1>1. PICK path, name : path = import.module /\ name = import.name
    OBVIOUS
  <1>2. from \in Registered /\ modules[from].path = path
    BY <1>1 DEF CompleteInv, PathsKept, Range
  <1>3. CASE from = Kernel
    <2>1. path = <<"Kernel">>
      BY <1>2, <1>3 DEF CompleteInv, RegisteredWhole
    <2>2. name \notin {"WordSize", "Kernel"}
      BY <1>1, <2>1 DEF Plain
    <2>3. KernelNamed(namespace) /\ DOMAIN namespace \subseteq Nat
      BY DEF CompleteInv, LinksInv, KernelNames
    <2>4. value = NamespaceAt(Kernel, name)
      BY <1>1, <1>3
    <2>5. value = ClassIn(Kernel, name)
      BY <2>2, <2>3, <2>4, KernelMeans
    <2> QED
      BY <1>1, <1>3, <2>5
  <1>4. CASE from # Kernel
    <2>1. PICK module, exporter : module = modules[from] /\ exporter = installation.modules[path]
      OBVIOUS
    <2>2. Whole(module, from, installation, kernelModules)
      BY <1>2, <1>4, <2>1 DEF CompleteInv, RegisteredWhole
    <2>3. /\ path \in DOMAIN installation.modules
          /\ NoOtherNames(module, exporter) /\ ClassesMade(module, from, exporter, {})
      BY <1>2, <2>1, <2>2 DEF Whole, AsFar
    <2>4. name \in DOMAIN module.namespace /\ value = module.namespace[name]
      BY <1>1, <1>4, <2>1 DEF NamespaceAt
    <2>5. \/ name \in DOMAIN exporter.classes
          \/ name \notin Imported(exporter) \cup KernelExports
      BY <1>1, <2>1, <2>3 DEF Plain
    <2>6. name \in DOMAIN exporter.classes
      BY <2>3, <2>4, <2>5 DEF NoOtherNames
    <2>7. value = ClassIn(from, name)
      BY <2>3, <2>4, <2>6 DEF ClassesMade
    <2> QED
      BY <1>1, <2>7
  <1> QED
    BY <1>3, <1>4

(* A load is pushed for what is imported.                                  *)
LEMMA PushAsFar ==
  ASSUME NEW ls, IsSeq(ls), ls # <<>>, NEW mods, NEW files, NEW kernels,
         LoadsAsFar(ls, mods, files, kernels),
         NEW l, LoadAsFar(l, mods, files, kernels),
         ls[Len(ls)].imports # <<>>, l.path = ls[Len(ls)].imports[1].module
  PROVE  LoadsAsFar(Append(ls, l), mods, files, kernels)
  <1>1. PICK new : new = Append(ls, l)
    OBVIOUS
  <1>2. /\ Len(ls) \in Nat /\ Len(new) = Len(ls) + 1
        /\ \A i \in 1 .. Len(ls) + 1 : new[i] = IF i = Len(ls) + 1 THEN l ELSE ls[i]
    BY <1>1, Appended DEF IsSeq
  <1>3. \A i \in 1 .. Len(new) : LoadAsFar(new[i], mods, files, kernels)
    BY <1>2 DEF LoadsAsFar
  <1>4. ASSUME NEW i \in 1 .. Len(new) - 1
        PROVE  new[i].imports # <<>> /\ new[i + 1].path = new[i].imports[1].module
    <2>1. i \in 1 .. Len(ls) /\ new[i] = ls[i]
      BY <1>2
    <2>2. CASE i = Len(ls)
      <3>1. new[i + 1] = l
        BY <1>2, <2>2
      <3> QED
        BY <2>1, <2>2, <3>1
    <2>3. CASE i # Len(ls)
      <3>1. i \in 1 .. Len(ls) - 1 /\ new[i + 1] = ls[i + 1]
        BY <1>2, <2>1, <2>3
      <3> QED
        BY <2>1, <3>1 DEF LoadsAsFar
    <2> QED
      BY <2>2, <2>3
  <1> QED
    BY <1>1, <1>3, <1>4 DEF LoadsAsFar

(* Phase 4: importRequired.                                                *)
LEMMA ImportRequiredComplete ==
  ASSUME Inv, LinksInv, CompleteInv, importRequired
  PROVE  CompleteInv'
  <1>1. loads # <<>> /\ Top.step = "import" /\ Top.imports # <<>> /\ Top.step \in Unregistered
    BY DEF importRequired, Unregistered
  <1>2. PICK top, import : top = Top /\ import = Head(top.imports)
    OBVIOUS
  <1>3. /\ {"path", "step", "module", "files", "imports"} \subseteq DOMAIN top
        /\ top.path \in DOMAIN installation.modules /\ top.imports \in Seq(Import)
        /\ top.module \in DOMAIN modules \ Registered /\ DOMAIN modules # {}
    BY <1>1, <1>2, TopIs DEF LoadOK
  <1>4. PICK source, imports : source = installation.modules[top.path] /\ imports = source.imports
    OBVIOUS
  <1>5. /\ imports \in Seq(Import)
        /\ Unambiguous(installation) =>
              \A i \in 1 .. Len(imports) : Plain(installation, source, imports[i])
    BY <1>1, <1>2, <1>3, <1>4, SourceIs
  <1>6. PICK n : n = Len(imports) - Len(top.imports)
    OBVIOUS
  <1>7. ASSUME Unambiguous(installation)
        PROVE  /\ LeftOver(top.imports, imports)
               /\ AsFar(modules[top.module], top.module, source, kernelModules, n, Range(top.files))
               /\ modules[top.module].path = top.path
               /\ top.path \in Paths(installation) \ DOMAIN kernelModules
    BY <1>1, <1>2, <1>4, <1>6, <1>7, StackAsFar DEF LoadAsFar
  <1>8. ASSUME Unambiguous(installation)
        PROVE  /\ n \in Nat /\ n + 1 \in 1 .. Len(imports) /\ Len(imports) \in Nat
               /\ import = imports[n + 1] /\ import = top.imports[1]
               /\ LeftOver(Tail(top.imports), imports)
               /\ Len(imports) - Len(Tail(top.imports)) = n + 1
               /\ Plain(installation, source, import)
    <2>1. PICK left : left = top.imports
      OBVIOUS
    <2>2. left \in Seq(Import) /\ left # <<>> /\ LeftOver(left, imports) /\ n = Len(imports) - Len(left)
      BY <1>1, <1>2, <1>3, <1>6, <1>7, <1>8, <2>1
    <2>3. /\ n \in Nat /\ n + 1 \in 1 .. Len(imports) /\ Len(imports) \in Nat
          /\ Head(left) = imports[n + 1] /\ Head(left) = left[1]
          /\ LeftOver(Tail(left), imports) /\ Len(imports) - Len(Tail(left)) = n + 1
      BY <1>5, <2>2, NextImport
    <2>4. import = Head(left)
      BY <1>2, <2>1
    <2>5. Plain(installation, source, imports[n + 1])
      BY <1>5, <1>8, <2>3
    <2> QED
      BY <2>1, <2>3, <2>4, <2>5
  <1>9. CASE import.module \notin DOMAIN kernelModules
    <2>1. /\ loads' = Append(loads, LoadOf(import.module))
          /\ UNCHANGED <<installation, namespace, modules, loadedModules, kernelModules>>
      BY <1>2, <1>9 DEF importRequired, bootVars
    <2>2. PICK path, l, ls : path = import.module /\ l = LoadOf(path) /\ ls = loads
      OBVIOUS
    <2>3. ASSUME Unambiguous(installation)
          PROVE  LoadsAsFar(loads', modules', installation, kernelModules)
      <3>1. path \in Paths(installation) \ DOMAIN kernelModules
        BY <1>3, <1>4, <1>8, <1>9, <2>2, <2>3 DEF Paths
      <3>2. LoadAsFar(l, modules, installation, kernelModules) /\ l.path = path
        BY <1>3, <2>2, <2>3, <3>1, LoadOfAsFar
      <3>3. /\ IsSeq(ls) /\ ls # <<>> /\ ls[Len(ls)] = top
            /\ LoadsAsFar(ls, modules, installation, kernelModules)
        BY <1>1, <1>2, <1>3, <2>2, <2>3 DEF Inv, LoaderInv, LoadsOK, Top, CompleteInv
      <3>4. ls[Len(ls)].imports # <<>> /\ l.path = ls[Len(ls)].imports[1].module
        BY <1>1, <1>2, <1>8, <2>2, <2>3, <3>2, <3>3
      <3>5. LoadsAsFar(Append(ls, l), modules, installation, kernelModules)
        BY <3>2, <3>3, <3>4, PushAsFar
      <3> QED
        BY <2>1, <2>2, <3>5
    <2>4. KeptBut(top.module, modules', modules)
      BY <2>1 DEF KeptBut
    <2> QED
      BY <1>3, <2>1, <2>3, <2>4, GoesFurther
  <1>10. CASE import.module \in DOMAIN kernelModules
    <2>1. PICK from, value : /\ from = kernelModules[import.module]
                             /\ value = NamespaceAt(from, import.name)
      OBVIOUS
    <2>2. CASE value = Nil
      <3>1. Stop("KeyNotFound")
        BY <1>2, <1>10, <2>1, <2>2 DEF importRequired
      <3> QED
        BY <1>1, <3>1, StopComplete
    <2>3. CASE value # Nil
      <3>1. PICK k, mods, names : /\ k = top.module /\ mods = modules
                                  /\ names = Over(At(import.name, value), mods[k].namespace)
        OBVIOUS
      <3>2. PICK l : l = Replacing(top, "imports", Tail(top.imports))
        OBVIOUS
      <3>3. PICK mods2 : mods2 = Replacing(mods, k, Replacing(mods[k], "namespace", names))
        OBVIOUS
      <3>4. /\ modules' = mods2 /\ loads' = Append(Pop, l)
            /\ UNCHANGED <<installation, namespace, loadedModules, kernelModules>>
        BY <1>2, <1>10, <2>1, <2>3, <3>1, <3>2, <3>3 DEF importRequired, Replacing, bootVars
      <3>5. /\ KeptBut(k, mods2, mods) /\ mods2[k].path = mods[k].path
            /\ mods2[k].namespace = names
        <4>1. NamesLinked(mods[k], objects) /\ k \in DOMAIN mods
          BY <1>3, <3>1 DEF LinksInv, ModuleInv, ModulesLinked
        <4>2. PICK module : module = Replacing(mods[k], "namespace", names)
          OBVIOUS
        <4>3. module.path = mods[k].path /\ module.namespace = names
          BY <4>1, <4>2 DEF NamesLinked, Replacing
        <4> QED
          BY <3>3, <4>1, <4>2, <4>3, ReplacingOne DEF KeptBut
      <3>6. /\ l.path = top.path /\ l.step = "import" /\ l.module = k
            /\ l.files = top.files /\ l.imports = Tail(top.imports)
        BY <1>1, <1>2, <1>3, <3>1, <3>2 DEF Replacing
      <3>7. ASSUME Unambiguous(installation)
            PROVE  LoadsAsFar(loads', modules', installation, kernelModules)
        <4>1. value = ClassIn(from, import.name)
          BY <1>3, <1>8, <1>10, <2>1, <2>3, <3>7, ImportMeans
        <4>2. AsFar(mods2[k], k, source, kernelModules, n + 1, Range(top.files))
          <5>1. PICK module, new, files : /\ module = mods[k] /\ new = mods2[k]
                                          /\ files = Range(top.files)
            OBVIOUS
          <5>2. AsFar(module, k, source, kernelModules, n, files)
            BY <1>7, <3>1, <3>7, <5>1
          <5>3. /\ n \in Nat /\ n + 1 <= Len(source.imports) /\ Len(source.imports) \in Nat
                /\ import = source.imports[n + 1] /\ import.name \notin DOMAIN source.classes
            BY <1>4, <1>8, <3>7 DEF Plain
          <5>4. new.namespace
                  = Over(At(import.name, ClassIn(kernelModules[import.module], import.name)),
                         module.namespace)
            BY <2>1, <3>1, <3>5, <4>1, <5>1
          <5>5. AsFar(new, k, source, kernelModules, n + 1, files)
            BY <1>10, <5>2, <5>3, <5>4, ImportedOne
          <5> QED
            BY <5>1, <5>5
        <4>3. LoadAsFar(l, mods2, installation, kernelModules)
          BY <1>4, <1>7, <1>8, <3>1, <3>5, <3>6, <3>7, <4>2 DEF LoadAsFar
        <4>4. LoadsAsFar(Append(Pop, l), mods2, installation, kernelModules)
          BY <1>1, <1>2, <3>1, <3>5, <3>6, <3>7, <4>3, TopGoesFurther
        <4> QED
          BY <3>4, <4>4
      <3>8. KeptBut(k, modules', modules) /\ k \notin Registered
        BY <1>3, <3>1, <3>4, <3>5
      <3> QED
        BY <1>3, <3>4, <3>7, <3>8, GoesFurther
    <2> QED
      BY <2>2, <2>3
  <1> QED
    BY <1>9, <1>10

(* sortClasses.                                                            *)
LEMMA SortClassesComplete ==
  ASSUME Inv, LinksInv, CompleteInv, sortClasses
  PROVE  CompleteInv'
  <1>1. /\ loads # <<>> /\ Top.step = "import" /\ Top.imports = <<>> /\ Top.step \in Unregistered
        /\ UNCHANGED <<installation, namespace, modules, loadedModules, kernelModules>>
    BY DEF sortClasses, bootVars, Unregistered
  <1>2. PICK top, files : /\ top = Top
           /\ files = Sorted(Source.classes,
                             CHOOSE n \in DOMAIN Source.classes : n \notin Range(Top.files), Top.files)
    OBVIOUS
  <1>3. PICK l : l = Replacing(Replacing(top, "step", "classes"), "files", files)
    OBVIOUS
  <1>4. loads' = Append(Pop, l)
    BY <1>2, <1>3 DEF sortClasses, Replacing
  <1>5. /\ {"path", "step", "module", "files", "imports"} \subseteq DOMAIN top
        /\ top.path \in DOMAIN installation.modules
        /\ top.files \in Seq(DOMAIN installation.modules[top.path].classes)
        /\ top.module \in DOMAIN modules \ Registered /\ DOMAIN modules # {}
    BY <1>1, <1>2, TopIs DEF LoadOK
  <1>6. l.path = top.path /\ l.step = "classes" /\ l.module = top.module /\ l.files = files
    BY <1>3, <1>5 DEF Replacing
  <1>7. KeptBut(top.module, modules', modules)
    BY <1>1 DEF KeptBut
  <1>8. ASSUME Unambiguous(installation)
        PROVE  LoadsAsFar(loads', modules', installation, kernelModules)
    <2>1. PICK source, total, module, before : /\ source = installation.modules[top.path]
             /\ total = Len(source.imports) /\ module = modules[top.module] /\ before = top.files
      OBVIOUS
    <2>2. Len(top.imports) = 0 /\ total \in Nat
      BY <1>1, <1>2, <1>5, <2>1, Emptied, SourceIs
    <2>3. /\ AsFar(module, top.module, source, kernelModules, total - Len(top.imports), Range(before))
          /\ module.path = top.path /\ top.path \in Paths(installation) \ DOMAIN kernelModules
      BY <1>1, <1>2, <1>8, <2>1, StackAsFar DEF LoadAsFar
    <2>4. total - Len(top.imports) = total
      BY <2>2
    <2>5. Range(before) \subseteq Range(files)
      <3>1. IsSeq(before)
        BY <1>5, <2>1, SeqIs
      <3>2. PICK specs, first : /\ specs = Source.classes
               /\ first = CHOOSE n \in DOMAIN Source.classes : n \notin Range(Top.files)
        OBVIOUS
      <3>3. files = Sorted(specs, first, before)
        BY <1>2, <2>1, <3>2
      <3>4. Range(before) \subseteq Range(Sorted(specs, first, before))
        BY <3>1, SortedHas
      <3> QED
        BY <3>3, <3>4
    <2>6. AsFar(module, top.module, source, kernelModules, total, Range(files))
      BY <2>3, <2>4, <2>5, FewerLeft
    <2>7. LoadAsFar(l, modules, installation, kernelModules)
      BY <1>6, <2>1, <2>3, <2>6 DEF LoadAsFar
    <2>8. KeptBut(top.module, modules, modules)
      BY DEF KeptBut
    <2>9. LoadsAsFar(Append(Pop, l), modules, installation, kernelModules)
      BY <1>1, <1>2, <1>6, <1>8, <2>7, <2>8, TopGoesFurther
    <2> QED
      BY <1>1, <1>4, <2>9
  <1> QED
    BY <1>1, <1>5, <1>7, <1>8, GoesFurther

(* A module gets other contents in one of its slots.                       *)
LEMMA OneKept ==
  ASSUME NEW mods, NEW k \in DOMAIN mods, {"path", "namespace"} \subseteq DOMAIN mods[k],
         NEW slot, slot # "path", NEW v,
         NEW mods2, mods2 = Replacing(mods, k, Replacing(mods[k], slot, v))
  PROVE  /\ KeptBut(k, mods2, mods) /\ mods2[k].path = mods[k].path
         /\ mods2[k].namespace = IF slot = "namespace" THEN v ELSE mods[k].namespace
  <1>1. PICK module : module = Replacing(mods[k], slot, v)
    OBVIOUS
  <1>2. /\ module.path = mods[k].path
        /\ module.namespace = IF slot = "namespace" THEN v ELSE mods[k].namespace
    BY <1>1 DEF Replacing
  <1>3. mods2[k] = module /\ \A x \in DOMAIN mods : x # k => mods2[x] = mods[x]
    BY <1>1, ReplacingOne
  <1> QED
    BY <1>2, <1>3 DEF KeptBut

(* createClass.                                                            *)
LEMMA CreateClassComplete ==
  ASSUME Inv, LinksInv, CompleteInv, createClass
  PROVE  CompleteInv'
  <1>1. /\ loads # <<>> /\ Top.step = "classes" /\ Top.step \in Unregistered /\ Top.files # <<>>
    BY DEF createClass, Unregistered
  <1>2. PICK top, name : top = Top /\ name = Head(top.files)
    OBVIOUS
  <1>3. /\ {"path", "step", "module", "files", "imports"} \subseteq DOMAIN top
        /\ top.path \in DOMAIN installation.modules
        /\ top.files \in Seq(DOMAIN installation.modules[top.path].classes)
        /\ top.module \in DOMAIN modules \ Registered /\ DOMAIN modules # {}
    BY <1>1, <1>2, TopIs DEF LoadOK
  <1>4. PICK k, mods, names : /\ k = top.module /\ mods = modules
                              /\ names = Over(At(name, ClassIn(k, name)), mods[k].namespace)
    OBVIOUS
  <1>5. PICK left : left = Tail(top.files)
    OBVIOUS
  <1>6. PICK l : l = Replacing(top, "files", left)
    OBVIOUS
  <1>7. PICK mods2 : mods2 = Replacing(mods, k, Replacing(mods[k], "namespace", names))
    OBVIOUS
  <1>8. \/ Stop("KeyNotFound") \/ Stop("MessageNotUnderstood")
        \/ Fail
        \/ /\ modules' = mods2 /\ loads' = Append(Pop, l)
           /\ UNCHANGED <<installation, namespace, loadedModules, kernelModules>>
    BY <1>2, <1>4, <1>5, <1>6, <1>7 DEF createClass, Replacing
  <1>9. CASE Stop("KeyNotFound") \/ Stop("MessageNotUnderstood")
    BY <1>1, <1>9, StopComplete
  <1>10. CASE Fail
    BY <1>1, <1>2, <1>3, <1>10, FailComplete
  <1>11. CASE /\ modules' = mods2 /\ loads' = Append(Pop, l)
              /\ UNCHANGED <<installation, namespace, loadedModules, kernelModules>>
    <2>1. l.path = top.path /\ l.step = "classes" /\ l.module = k /\ l.files = left
      BY <1>1, <1>2, <1>3, <1>4, <1>6 DEF Replacing
    <2>2. KeptBut(k, mods2, mods) /\ mods2[k].path = mods[k].path /\ mods2[k].namespace = names
      <3>1. NamesLinked(mods[k], objects) /\ k \in DOMAIN mods
        BY <1>3, <1>4 DEF LinksInv, ModuleInv, ModulesLinked
      <3> QED
        BY <1>7, <3>1, OneKept DEF NamesLinked
    <2>3. ASSUME Unambiguous(installation)
          PROVE  LoadsAsFar(loads', modules', installation, kernelModules)
      <3>1. PICK source, total, module, before : /\ source = installation.modules[top.path]
               /\ total = Len(source.imports) /\ module = mods[k] /\ before = top.files
        OBVIOUS
      <3>2. /\ total \in Nat
            /\ \A i \in 1 .. total : Plain(installation, source, source.imports[i])
        BY <1>1, <1>2, <1>3, <2>3, <3>1, SourceIs
      <3>3. /\ AsFar(module, k, source, kernelModules, total, Range(before))
            /\ module.path = top.path /\ top.path \in Paths(installation) \ DOMAIN kernelModules
        BY <1>1, <1>2, <1>4, <2>3, <3>1, StackAsFar DEF LoadAsFar
      <3>4. /\ before \in Seq(DOMAIN source.classes) /\ before # <<>> /\ name = Head(before)
            /\ left = Tail(before)
        BY <1>1, <1>2, <1>3, <1>5, <3>1
      <3>5. Range(before) \subseteq Range(left) \cup {name} /\ name \in DOMAIN source.classes
        <4>1. /\ Len(before) \in Nat /\ Len(before) >= 1 /\ DOMAIN before = 1 .. Len(before)
              /\ name = before[1] /\ before[1] \in DOMAIN source.classes
          BY <3>4, LenProperties
        <4>2. /\ Len(left) = Len(before) - 1 /\ left \in Seq(DOMAIN source.classes)
              /\ \A i \in 1 .. Len(left) : left[i] = before[i + 1]
          BY <3>4, <4>1
        <4>3. DOMAIN left = 1 .. Len(left)
          BY <4>2, LenProperties
        <4>4. ASSUME NEW i \in DOMAIN before PROVE before[i] \in Range(left) \cup {name}
          <5>1. CASE i = 1
            BY <4>1, <5>1
          <5>2. CASE i # 1
            <6>1. i - 1 \in DOMAIN left /\ left[i - 1] = before[i]
              BY <4>1, <4>2, <4>3, <5>2
            <6> QED
              BY <6>1 DEF Range
          <5> QED
            BY <5>1, <5>2
        <4> QED
          BY <4>1, <4>4 DEF Range
      <3>6. \A j \in 1 .. total : source.imports[j].name # name
        BY <3>2, <3>5 DEF Plain
      <3>7. PICK new : new = mods2[k]
        OBVIOUS
      <3>8. new.namespace = Over(At(name, ClassIn(k, name)), module.namespace)
        BY <1>4, <2>2, <3>1, <3>7
      <3>9. AsFar(new, k, source, kernelModules, total, Range(left))
        BY <3>3, <3>5, <3>6, <3>8, MadeOne
      <3>10. LoadAsFar(l, mods2, installation, kernelModules)
        BY <2>1, <2>2, <3>1, <3>3, <3>7, <3>9 DEF LoadAsFar
      <3>11. LoadsAsFar(Append(Pop, l), mods2, installation, kernelModules)
        BY <1>1, <1>2, <1>4, <2>1, <2>2, <2>3, <3>10, TopGoesFurther
      <3> QED
        BY <1>11, <3>11
    <2>4. KeptBut(k, modules', modules) /\ k \notin Registered
      BY <1>3, <1>4, <1>11, <2>2
    <2> QED
      BY <1>3, <1>11, <2>3, <2>4, GoesFurther
  <1> QED
    BY <1>8, <1>9, <1>10, <1>11

(* compileExtensions.                                                      *)
LEMMA CompileExtensionsComplete ==
  ASSUME Inv, LinksInv, CompleteInv, compileExtensions
  PROVE  CompleteInv'
  <1>1. /\ loads # <<>> /\ Top.step = "classes" /\ Top.step \in Unregistered /\ Top.files = <<>>
    BY DEF compileExtensions, Unregistered
  <1>2. PICK top : top = Top
    OBVIOUS
  <1>3. /\ {"path", "step", "module", "files", "imports"} \subseteq DOMAIN top
        /\ top.module \in DOMAIN modules \ Registered /\ DOMAIN modules # {}
    BY <1>1, <1>2, TopIs DEF LoadOK
  <1>4. PICK extension : extension = Source.extensions
    OBVIOUS
  <1>5. PICK bases : bases = {n \in DOMAIN extension : NamespaceAt(Top.module, n) # Nil}
    OBVIOUS
  <1>6. PICK table : table = WithSymbols(symbolTable, bases \cup NamesOfExtensions(extension, bases))
    OBVIOUS
  <1>7. Fail \/ Stop("MessageNotUnderstood") \/ ExtensionsCompiled(extension, bases, table)
    BY <1>4, <1>5, <1>6 DEF compileExtensions, ExtensionsCompiled, NamesOfExtensions
  <1>8. CASE Fail
    BY <1>1, <1>2, <1>3, <1>8, FailComplete
  <1>9. CASE Stop("MessageNotUnderstood")
    BY <1>1, <1>9, StopComplete
  <1>10. CASE ExtensionsCompiled(extension, bases, table)
    <2>1. PICK k, mods, v : /\ k = top.module /\ mods = modules
                            /\ v = ExtensionsOf(table, k, extension, bases)
      OBVIOUS
    <2>2. PICK l : l = Replacing(top, "step", "register")
      OBVIOUS
    <2>3. PICK mods2 : mods2 = Replacing(mods, k, Replacing(mods[k], "extensions", v))
      OBVIOUS
    <2>4. /\ loads' = Append(Pop, l)
          /\ UNCHANGED <<installation, namespace, loadedModules, kernelModules>>
      BY <1>2, <1>10, <2>2 DEF ExtensionsCompiled, Replacing
    <2>5. modules' = mods2
      <3>1. modules' = [modules EXCEPT ![k].extensions = v]
        BY <1>2, <1>10, <2>1 DEF ExtensionsCompiled
      <3> QED
        BY <2>1, <2>3, <3>1 DEF Replacing
    <2>6. /\ KeptBut(k, mods2, mods) /\ mods2[k].path = mods[k].path
          /\ mods2[k].namespace = mods[k].namespace
      <3>1. NamesLinked(mods[k], objects) /\ k \in DOMAIN mods
        BY <1>3, <2>1 DEF LinksInv, ModuleInv, ModulesLinked
      <3> QED
        BY <2>3, <3>1, OneKept DEF NamesLinked
    <2>7. l.path = top.path /\ l.step = "register" /\ l.module = k
      BY <1>3, <2>1, <2>2 DEF Replacing
    <2>8. ASSUME Unambiguous(installation)
          PROVE  LoadsAsFar(loads', modules', installation, kernelModules)
      <3>1. PICK source, total, module, new : /\ source = installation.modules[top.path]
               /\ total = Len(source.imports) /\ module = mods[k] /\ new = mods2[k]
        OBVIOUS
      <3>2. /\ AsFar(module, k, source, kernelModules, total, Range(top.files))
            /\ module.path = top.path /\ top.path \in Paths(installation) \ DOMAIN kernelModules
        BY <1>1, <1>2, <2>1, <2>8, <3>1, StackAsFar DEF LoadAsFar
      <3>3. PICK none : none = top.files
        OBVIOUS
      <3>4. none = <<>> /\ Range(none) = {}
        BY <1>1, <1>2, <3>3 DEF Range
      <3>5. AsFar(module, k, source, kernelModules, total, {})
        BY <3>2, <3>3, <3>4
      <3>6. Widens(kernelModules, kernelModules) /\ new.namespace = module.namespace
        BY <2>6, <3>1 DEF Widens
      <3>7. AsFar(new, k, source, kernelModules, total, {})
        BY <3>5, <3>6, StaysAsFar
      <3>8. LoadAsFar(l, mods2, installation, kernelModules)
        BY <2>6, <2>7, <3>1, <3>2, <3>7 DEF LoadAsFar
      <3>9. LoadsAsFar(Append(Pop, l), mods2, installation, kernelModules)
        BY <1>1, <1>2, <2>1, <2>6, <2>7, <2>8, <3>8, TopGoesFurther
      <3> QED
        BY <2>4, <2>5, <3>9
    <2>9. KeptBut(k, modules', modules) /\ k \notin Registered
      BY <1>3, <2>1, <2>5, <2>6
    <2> QED
      BY <1>3, <2>4, <2>8, <2>9, GoesFurther
  <1> QED
    BY <1>7, <1>8, <1>9, <1>10

(* register: the module is whole.                                          *)
LEMMA RegisterComplete ==
  ASSUME Inv, LinksInv, CompleteInv, register
  PROVE  CompleteInv'
  <1>1. /\ loads # <<>> /\ Top.step = "register" /\ Top.step \in Unregistered
        /\ UNCHANGED <<installation, namespace, modules, kernelModules>>
    BY DEF register, bootVars, Unregistered
  <1>2. PICK top, name : top = Top /\ name = Last(top.path)
    OBVIOUS
  <1>3. PICK k, l : k = top.module /\ l = Replacing(top, "step", "justLoaded")
    OBVIOUS
  <1>4. /\ loads' = Append(Pop, l)
        /\ loadedModules' = Over(At(name, k), loadedModules)
    BY <1>2, <1>3 DEF register, Replacing
  <1>5. /\ {"path", "step", "module", "files", "imports"} \subseteq DOMAIN top
        /\ top.path \in DOMAIN installation.modules
        /\ k \in DOMAIN modules \ Registered /\ DOMAIN modules # {}
    BY <1>1, <1>2, <1>3, TopIs DEF LoadOK
  <1>6. l.path = top.path /\ l.step = "justLoaded" /\ l.module = k
    BY <1>3, <1>5 DEF Replacing
  <1>7. PICK loaded : loaded = loadedModules'
    OBVIOUS
  <1>8. /\ DOMAIN loaded = {name} \cup DOMAIN loadedModules /\ loaded[name] = k
        /\ \A f \in DOMAIN loadedModules : f # name => loaded[f] = loadedModules[f]
    BY <1>4, <1>7 DEF Over, At
  <1>9. PICK registered : registered = Range(loaded) \cup {Kernel}
    OBVIOUS
  <1>10. registered \subseteq Registered \cup {k}
    BY <1>8, <1>9 DEF Range, Registered
  <1>11. KernelNamed(namespace')
    BY <1>1 DEF CompleteInv
  <1>12. CASE ~Unambiguous(installation)
    BY <1>1, <1>11, <1>12 DEF CompleteInv
  <1>13. CASE Unambiguous(installation)
    <2>1. PICK mods, kernels : mods = modules /\ kernels = kernelModules
      OBVIOUS
    <2>2. /\ RegisteredWhole(mods, installation, kernels, Registered)
          /\ PathsKept(mods, loadedModules, kernels) /\ Range(kernels) \subseteq Registered
      BY <1>5, <1>13, <2>1 DEF CompleteInv
    <2>3. PICK source, module : source = installation.modules[top.path] /\ module = mods[k]
      OBVIOUS
    <2>4. /\ AsFar(module, k, source, kernels, Len(source.imports), {})
          /\ module.path = top.path /\ top.path \in Paths(installation) \ DOMAIN kernels
      BY <1>1, <1>2, <1>3, <1>13, <2>1, <2>3, StackAsFar DEF LoadAsFar
    <2>5. Whole(module, k, installation, kernels)
      BY <1>5, <2>3, <2>4 DEF Whole
    <2>6. k # Kernel
      BY <1>5 DEF Registered
    <2>7. RegisteredWhole(mods, installation, kernels, registered)
      BY <1>10, <2>2, <2>3, <2>5, <2>6 DEF RegisteredWhole
    <2>8. PathsKept(mods, loaded, kernels)
      BY <1>2, <1>8, <2>2, <2>3, <2>4 DEF PathsKept
    <2>9. ASSUME NEW p \in DOMAIN kernels PROVE kernels[p] \in registered
      <3>1. kernels[p] \in Registered /\ mods[kernels[p]].path = p
        BY <2>2, <2>9 DEF Range, PathsKept
      <3>2. CASE kernels[p] = Kernel
        BY <1>9, <3>2
      <3>3. CASE kernels[p] # Kernel
        <4>1. PICK f \in DOMAIN loadedModules : loadedModules[f] = kernels[p]
          BY <3>1, <3>3 DEF Registered, Range
        <4>2. Last(p) = f
          BY <2>2, <3>1, <4>1 DEF PathsKept
        <4>3. p \in Paths(installation)
          BY <2>2, <3>1, <3>3 DEF RegisteredWhole, Whole, Paths
        <4>4. f # name
          BY <1>2, <1>13, <2>4, <2>9, <4>2, <4>3 DEF Unambiguous
        <4>5. f \in DOMAIN loaded /\ loaded[f] = kernels[p]
          BY <1>8, <4>1, <4>4
        <4> QED
          BY <1>9, <4>5 DEF Range
      <3> QED
        BY <3>2, <3>3
    <2>10. Range(kernels) \subseteq registered
      BY <2>9 DEF Range
    <2>11. LoadAsFar(l, mods, installation, kernels)
      BY <1>6, <2>3, <2>4 DEF LoadAsFar
    <2>12. KeptBut(Top.module, modules, modules)
      BY DEF KeptBut
    <2>13. LoadsAsFar(Append(Pop, l), mods, installation, kernels)
      BY <1>1, <1>2, <1>6, <1>13, <2>1, <2>11, <2>12, TopGoesFurther
    <2>14. Registered' = registered /\ Range(kernelModules)' = Range(kernels)
      BY <1>1, <1>7, <1>9, <2>1 DEF Registered, Range
    <2>15. LoadsAsFar(loads', modules', installation', kernelModules')
      BY <1>1, <1>4, <2>1, <2>13
    <2>16. /\ RegisteredWhole(modules', installation', kernelModules', Registered')
           /\ PathsKept(modules', loadedModules', kernelModules')
           /\ Range(kernelModules)' \subseteq Registered'
      BY <1>1, <1>7, <2>1, <2>7, <2>8, <2>10, <2>14
    <2> QED
      BY <1>11, <2>15, <2>16 DEF CompleteInv
  <1> QED
    BY <1>12, <1>13

(* justLoaded: what the loads below are about has not been registered      *)
(* meanwhile, for a module that waits for its imports is not complete.     *)
LEMMA JustLoadedComplete ==
  ASSUME Inv, LinksInv, CompleteInv, justLoaded
  PROVE  CompleteInv'
  <1>1. /\ loads # <<>> /\ Top.step = "justLoaded" /\ loads' = Pop
        /\ UNCHANGED <<installation, phase, namespace, loadedModules>>
    BY DEF justLoaded
  <1>2. PICK path, k : path = Top.path /\ k = Top.module
    OBVIOUS
  <1>3. /\ path # <<"Kernel">> /\ k \in Registered
        /\ k \in DOMAIN modules /\ DOMAIN modules # {}
    BY <1>1, <1>2, TopIs, StackIs DEF LoadOK, LoadApart
  <1>4. PICK objs, mods, extensions : /\ objs = objects /\ mods = modules
                                      /\ extensions = modules[k].extensions
    OBVIOUS
  <1>5. PICK bound : bound = Folded(BindExtension, [objects |-> objs, modules |-> mods], extensions)
    OBVIOUS
  <1>6. PICK mods2, more, kernels : /\ mods2 = bound.modules /\ kernels = kernelModules
                                    /\ more = Over(At(path, k), kernelModules)
    OBVIOUS
  <1>7. modules' = mods2 /\ kernelModules' = more
    BY <1>2, <1>4, <1>5, <1>6 DEF justLoaded
  <1>8. SameNames(mods2, mods)
    <2>1. phase = "done"
      BY <1>1, Loading
    <2>2. HeapOK(objs, mods)
      BY <1>4, <2>1, DoneIs
    <2>3. Len(extensions) \in Nat
      BY <1>3, <1>4 DEF Inv, LoaderInv, ModulesOK, ModuleOK, MethodsOK, IsSeq
    <2> QED
      BY <1>5, <1>6, <2>2, <2>3, BoundLinks
  <1>9. /\ DOMAIN more = {path} \cup DOMAIN kernels /\ more[path] = k
        /\ \A p \in DOMAIN kernels : p # path => more[p] = kernels[p]
    BY <1>6 DEF Over, At
  <1>10. KernelNamed(namespace')
    BY <1>1 DEF CompleteInv
  <1>11. CASE ~Unambiguous(installation)
    BY <1>1, <1>10, <1>11 DEF CompleteInv
  <1>12. CASE Unambiguous(installation)
    <2>1. PICK registered : registered = Registered
      OBVIOUS
    <2>2. /\ RegisteredWhole(mods, installation, kernels, registered)
          /\ PathsKept(mods, loadedModules, kernels) /\ Range(kernels) \subseteq registered
      BY <1>3, <1>4, <1>6, <1>12, <2>1 DEF CompleteInv
    <2>3. mods[k].path = path /\ path \notin DOMAIN kernels
      BY <1>1, <1>2, <1>4, <1>6, <1>12, StackAsFar DEF LoadAsFar
    <2>4. Widens(more, kernels)
      BY <1>9, <2>3 DEF Widens
    <2>5. registered \subseteq DOMAIN mods
      BY <1>3, <1>4, <2>1 DEF Inv, LoaderInv, Registered
    <2>6. \A m \in DOMAIN mods : mods2[m].path = mods[m].path /\ mods2[m].namespace = mods[m].namespace
      BY <1>8 DEF SameNames
    <2>7. RegisteredWhole(mods2, installation, more, registered)
      BY <2>2, <2>4, <2>5, <2>6, StaysWhole DEF RegisteredWhole
    <2>8. Range(more) \subseteq registered
      BY <1>3, <1>9, <2>1, <2>2, <2>3 DEF Range
    <2>9. PathsKept(mods2, loadedModules, more)
      <3>1. \A f \in DOMAIN loadedModules : loadedModules[f] \in DOMAIN mods
        BY <2>1, <2>5 DEF Registered, Range
      <3>2. \A p \in DOMAIN kernels : kernels[p] \in DOMAIN mods
        BY <2>2, <2>5 DEF Range
      <3> QED
        BY <1>3, <1>4, <1>9, <2>2, <2>3, <2>6, <3>1, <3>2 DEF PathsKept
    <2>10. PICK ls : ls = Pop
      OBVIOUS
    <2>11. ASSUME NEW i \in 1 .. Len(ls) PROVE ls[i].path # path
      <3>1. PICK l, above : l = ls[i] /\ above = l.imports[1].module
        OBVIOUS
      <3>2. l.step = "import" /\ LoadOK(l, installation, DOMAIN modules, registered)
        BY <1>1, <2>1, <2>10, <2>11, <3>1, StackIs, TopIs DEF LoadsOK
      <3>3. /\ LoadAsFar(l, mods, installation, kernels) /\ l.imports # <<>>
            /\ i < Len(ls) => ls[i + 1].path = above
            /\ i = Len(ls) => path = above
        BY <1>1, <1>2, <1>4, <1>6, <1>12, <2>10, <2>11, <3>1, StackAsFar
      <3>4. above \notin DOMAIN kernels
        <4>1. Len(ls) \in Nat
          BY <1>1, <2>10, TopIs DEF LoadsOK, IsSeq
        <4>2. CASE i = Len(ls)
          BY <2>3, <3>3, <4>2
        <4>3. CASE i # Len(ls)
          <5>1. i < Len(ls) /\ i + 1 \in 1 .. Len(ls)
            BY <2>11, <4>1, <4>3
          <5>2. LoadAsFar(ls[i + 1], mods, installation, kernels)
            BY <1>1, <1>4, <1>6, <1>12, <2>10, <5>1, StackAsFar
          <5> QED
            BY <3>3, <5>1, <5>2 DEF LoadAsFar
        <4> QED
          BY <4>2, <4>3
      <3>5. SUFFICES ASSUME l.path = path PROVE FALSE
        BY <3>1
      <3>6. k # Kernel
        BY <1>3, <2>1, <2>2, <2>3 DEF RegisteredWhole
      <3>7. Whole(mods[k], k, installation, kernels)
        BY <1>3, <2>1, <2>2, <3>6 DEF RegisteredWhole
      <3>8. PICK source, imports, left : /\ source = installation.modules[path]
                                         /\ imports = source.imports /\ left = l.imports
        OBVIOUS
      <3>9. path \in DOMAIN installation.modules /\ ImportsRead(mods[k], imports, kernels, Len(imports))
        BY <2>3, <3>7, <3>8 DEF Whole, AsFar
      <3>10. left \in Seq(Import) /\ left # <<>> /\ LeftOver(left, imports)
        BY <3>2, <3>3, <3>5, <3>8 DEF LoadOK, LoadAsFar
      <3>11. imports \in Seq(Import)
        <4>1. installation \in Installations
          BY <1>1, Loading
        <4>2. ModuleSourceOK(source)
          BY <3>8, <3>9, <4>1, ModuleSource
        <4> QED
          BY <3>8, <4>2 DEF ModuleSourceOK
      <3>12. PICK n : n = Len(imports) - Len(left)
        OBVIOUS
      <3>13. n + 1 \in 1 .. Len(imports) /\ left[1] = imports[n + 1]
        BY <3>10, <3>11, <3>12, NextImport
      <3>14. imports[n + 1].module \in DOMAIN kernels
        BY <3>9, <3>13 DEF ImportsRead
      <3> QED
        BY <3>1, <3>4, <3>8, <3>13, <3>14
    <2>12. ASSUME NEW i \in 1 .. Len(ls) PROVE LoadAsFar(ls[i], mods2, installation, more)
      <3>1. ls[i].path \notin DOMAIN kernels
        BY <1>1, <1>6, <1>12, <2>10, <2>12, StackAsFar DEF LoadAsFar
      <3>2. ls[i].path \notin DOMAIN more
        BY <1>9, <2>11, <2>12, <3>1
      <3>3. KeptBut(Top.module, mods2, modules)
        BY <1>4, <2>6 DEF KeptBut
      <3> QED
        BY <1>1, <1>6, <1>12, <2>4, <2>10, <2>12, <3>2, <3>3, OthersAsFar
    <2>13. ASSUME NEW i \in 1 .. Len(ls) - 1
           PROVE  ls[i].imports # <<>> /\ ls[i + 1].path = ls[i].imports[1].module
      <3>1. Len(ls) \in Nat
        BY <1>1, <2>10, TopIs DEF LoadsOK, IsSeq
      <3>2. i \in 1 .. Len(Pop) /\ i < Len(Pop)
        BY <2>10, <2>13, <3>1
      <3> QED
        BY <1>1, <1>12, <2>10, <3>2, StackAsFar
    <2>14. LoadsAsFar(ls, mods2, installation, more)
      BY <2>12, <2>13 DEF LoadsAsFar
    <2>15. Registered' = registered /\ Range(kernelModules)' = Range(more)
      BY <1>1, <1>7, <2>1 DEF Registered, Range
    <2>16. /\ RegisteredWhole(modules', installation', kernelModules', Registered')
           /\ PathsKept(modules', loadedModules', kernelModules')
           /\ Range(kernelModules)' \subseteq Registered'
           /\ LoadsAsFar(loads', modules', installation', kernelModules')
      BY <1>1, <1>7, <2>7, <2>8, <2>9, <2>10, <2>14, <2>15
    <2> QED
      BY <1>10, <2>16 DEF CompleteInv
  <1> QED
    BY <1>11, <1>12

(* createModule: a module begins with a class of its own.                  *)
LEMMA CreateModuleComplete ==
  ASSUME Inv, LinksInv, CompleteInv, loads # <<>>,
         NEW order \in Orders(DOMAIN Source.classes), createModule(order)
  PROVE  CompleteInv'
  <1>1. loads # <<>> /\ Top.step = "create" /\ Top.path \in DOMAIN installation.modules
    BY Zenon DEF createModule
  <1>2. PICK top, k : top = Top /\ k = NewModule
    OBVIOUS
  <1>3. /\ {"path", "step", "module", "files", "imports"} \subseteq DOMAIN top
        /\ top.module = Nil /\ DOMAIN modules # {}
    BY <1>1, <1>2, TopIs DEF LoadOK
  <1>4. /\ DOMAIN modules \subseteq Nat /\ IsFiniteSet(DOMAIN modules) /\ Kernel \in DOMAIN modules
        /\ Registered \subseteq DOMAIN modules
    BY <1>3 DEF Inv, LoaderInv, Registered
  <1>5. k \in Nat \ DOMAIN modules
    <2>1. PICK D : D = DOMAIN modules
      OBVIOUS
    <2> QED
      BY <1>2, <1>4, <2>1, NewModuleIs DEF NewModule, Kernel
  <1>6. PICK source, specs : source = installation.modules[top.path] /\ specs = source.classes
    OBVIOUS
  <1>7. /\ source.imports \in Seq(Import) /\ Len(source.imports) \in Nat
        /\ IsFiniteSet(DOMAIN specs)
    BY <1>1, <1>2, <1>6, SourceIs
  <1>8. Source = source /\ Source.classes = specs /\ order \in Orders(DOMAIN specs)
    BY <1>2, <1>6 DEF Source
  <1>9. PICK name : name = ModuleClassName(specs, order)
    OBVIOUS
  <1>10. PICK s, exports : s = specs[name] /\ exports = bindKernelExports
    OBVIOUS
  <1>11. PICK super, table : /\ super = NamespaceAt(Kernel, s.supername)
                             /\ table = WithSymbols(symbolTable, NamesOf(name, s))
    OBVIOUS
  <1>12. PICK names : names = Over(At(name, ClassIn(k, name)), exports)
    OBVIOUS
  <1>13. PICK new : new = [path |-> top.path, namespace |-> names,
                           extensions |-> <<>>, overriden |-> <<>>]
    OBVIOUS
  <1>14. PICK files, imports : files = Without(name, order) /\ imports = source.imports
    OBVIOUS
  <1>15. PICK l : l = [top EXCEPT !.step = "import", !.module = k,
                                  !.files = files, !.imports = imports]
    OBVIOUS
  <1>16. \/ Fail
         \/ Stop("no Module subclass") \/ Stop("KeyNotFound") \/ Stop("MessageNotUnderstood")
         \/ name # Nil /\ Created(name, k, super, table, order)
    <2>1. \E n \in {ModuleClassName(Source.classes, order)} :
             \/ Fail
             \/ Stop("no Module subclass")
             \/ /\ n # Nil
                /\ \E above \in {NamespaceAt(Kernel, Source.classes[n].supername)},
                      known \in {WithSymbols(symbolTable, NamesOf(n, Source.classes[n]))} :
                     \/ Stop("KeyNotFound") \/ Stop("MessageNotUnderstood")
                     \/ Fail
                     \/ Created(n, NewModule, above, known, order)
      BY ZenonT(40) DEF createModule, Created
    <2> QED
      BY <1>2, <1>8, <1>9, <1>10, <1>11, <2>1, Zenon
  <1>17. CASE Fail
    BY <1>1, <1>2, <1>3, <1>4, <1>17, FailComplete, NilAssumption
  <1>18. CASE Stop("no Module subclass") \/ Stop("KeyNotFound") \/ Stop("MessageNotUnderstood")
    BY <1>1, <1>18, StopComplete, Zenon
  <1>19. CASE name # Nil /\ Created(name, k, super, table, order)
    <2>1. PICK mods, mods2 : mods = modules /\ mods2 = Over(mods, At(k, new))
      OBVIOUS
    <2>2. /\ modules' = mods2 /\ loads' = Append(Pop, l)
          /\ UNCHANGED <<installation, namespace, loadedModules, kernelModules>>
      BY <1>2, <1>8, <1>10, <1>12, <1>13, <1>14, <1>15, <1>19, <2>1 DEF Created
    <2>3. mods2[k] = new /\ \A m : KeptBut(m, mods2, mods)
      BY <1>5, <2>1 DEF Over, At, KeptBut
    <2>4. /\ l.path = top.path /\ l.step = "import" /\ l.module = k
          /\ l.files = files /\ l.imports = imports
      BY <1>3, <1>15
    <2>5. new.path = top.path /\ new.namespace = names
      BY <1>13
    <2>6. name \in DOMAIN specs
      BY <1>7, <1>8, <1>9, <1>19, ModuleClassNameIs
    <2>7. DOMAIN specs \subseteq Range(files) \cup {name}
      <3>1. order \in Seq(DOMAIN specs) /\ DOMAIN specs \subseteq Range(order)
        <4>1. PICK all : all = DOMAIN specs
          OBVIOUS
        <4> QED
          BY <1>7, <1>8, <4>1, OrderHasAll
      <3>2. IsSeq(order)
        BY <3>1, SeqIs
      <3>3. Range(order) \ {name} \subseteq Range(files)
        BY <1>14, <3>2, WithoutOne
      <3> QED
        BY <3>1, <3>3
    <2>8. ASSUME Unambiguous(installation)
          PROVE  LoadsAsFar(loads', modules', installation, kernelModules)
      <3>1. DOMAIN exports \subseteq KernelExports
        BY <1>10 DEF bindKernelExports
      <3>2. AsFar(new, k, source, kernelModules, 0, Range(files))
        <4>1. PICK rest : rest = Range(files)
          OBVIOUS
        <4>2. /\ name \in DOMAIN source.classes /\ DOMAIN source.classes \subseteq rest \cup {name}
              /\ new.namespace = Over(At(name, ClassIn(k, name)), exports)
          BY <1>6, <1>12, <2>5, <2>6, <2>7, <4>1
        <4>3. AsFar(new, k, source, kernelModules, 0, rest)
          BY <3>1, <4>2, BeginsAsFar
        <4> QED
          BY <4>1, <4>3
      <3>3. LeftOver(imports, imports) /\ Len(imports) - Len(imports) = 0
        BY <1>7, <1>14 DEF LeftOver
      <3>4. top.path \in Paths(installation) \ DOMAIN kernelModules
        BY <1>1, <1>2, <2>8, StackAsFar DEF LoadAsFar
      <3>5. LoadAsFar(l, mods2, installation, kernelModules)
        BY <1>6, <1>14, <2>3, <2>4, <2>5, <3>2, <3>3, <3>4 DEF LoadAsFar
      <3>6. LoadsAsFar(Append(Pop, l), mods2, installation, kernelModules)
        BY <1>1, <1>2, <2>1, <2>3, <2>4, <2>8, <3>5, TopGoesFurther
      <3> QED
        BY <2>2, <3>6
    <2>9. k \notin Registered /\ KeptBut(k, modules', modules)
      BY <1>4, <1>5, <2>1, <2>2, <2>3
    <2> QED
      BY <1>3, <2>2, <2>8, <2>9, GoesFurther
  <1> QED
    BY <1>16, <1>17, <1>18, <1>19, Zenon

-----------------------------------------------------------------------------
(* The bootstrap.  The namespace that it makes has every class under its   *)
(* name.                                                                   *)
LEMMA CreateKernelNamespaceNames ==
  ASSUME Inv, LinksInv, createKernelNamespace
  PROVE  KernelNamed(namespace')
  <1>1. phase = "namespace"
    BY DEF createKernelNamespace
  <1>2. PICK known : known = Interned(symbols, DOMAIN spec \cup {"WordSize", "Kernel"})
    OBVIOUS
  <1>3. PICK wordSize, kernel : /\ wordSize = [key |-> known["WordSize"], value |-> Other("WordSize")]
                                /\ kernel = [key |-> known["Kernel"], value |-> Other("Kernel")]
    OBVIOUS
  <1>4. PICK entries : entries = ClassEntries(known, DOMAIN spec) \cup {wordSize}
    OBVIOUS
  <1>5. namespace' = insertInOpenHashTable(newDictionary(entries), kernel)
    BY <1>2, <1>3, <1>4 DEF createKernelNamespace, ClassEntries
  <1>6. IsFiniteSet(entries)
    <2>1. IsFiniteSet(DOMAIN spec)
      BY <1>1 DEF LinksInv, KernelInv
    <2>2. PICK f : f = [n \in DOMAIN spec |-> [key |-> known[n], value |-> Class(n)]]
      OBVIOUS
    <2>3. ClassEntries(known, DOMAIN spec) = {f[n] : n \in DOMAIN f} /\ IsFiniteSet(DOMAIN f)
      BY <2>1, <2>2 DEF ClassEntries
    <2> QED
      BY <1>4, <2>3, FiniteImage, FS_AddElement
  <1>7. PICK all : all = entries \cup {kernel}
    OBVIOUS
  <1>8. EntriesOf(all, namespace')
    <2>1. EntriesOf(all, newDictionary(entries))
      BY <1>6, <1>7, NewDictionaryOK DEF EntriesOf
    <2> QED
      BY <1>5, <1>7, <2>1, InsertOK
  <1>9. \A n \in DOMAIN spec \cup {"WordSize", "Kernel"} : known[n].name = n
    <2>1. PICK names : names = DOMAIN spec \cup {"WordSize", "Kernel"}
      OBVIOUS
    <2>2. Named(symbols)
      BY DEF Inv, BootInv, SymbolInv, Named
    <2>3. Extended(symbols, names, known)
      BY <1>2, <2>1, <2>2, InternedOK
    <2> QED
      BY <2>1, <2>3 DEF Extended
  <1>10. ASSUME NEW e \in all
         PROVE  e.key.name \in {"WordSize", "Kernel"} \/ e.value = Class(e.key.name)
    <2>1. CASE e = wordSize \/ e = kernel
      <3>1. wordSize.key = known["WordSize"] /\ kernel.key = known["Kernel"]
        BY <1>3
      <3> QED
        BY <1>9, <2>1, <3>1
    <2>2. CASE e \in ClassEntries(known, DOMAIN spec)
      <3>1. PICK n \in DOMAIN spec : e = [key |-> known[n], value |-> Class(n)]
        BY <2>2 DEF ClassEntries
      <3>2. e.key = known[n] /\ e.value = Class(n)
        BY <3>1
      <3>3. e.key.name = n
        BY <1>9, <3>2
      <3> QED
        BY <3>2, <3>3
    <2> QED
      BY <1>4, <1>7, <2>1, <2>2
  <1> QED
    BY <1>8, <1>10 DEF KernelNamed, EntriesOf

(* Every step of the bootstrap.                                            *)
LEMMA BootstrapComplete ==
  ASSUME Inv, LinksInv, CompleteInv, BootNext, UNCHANGED loaderVars
  PROVE  CompleteInv'
  <1>1. phase # "done"
    BY DEF BootNext, loadKernelSpecs, createInitialObjects, instantiateMetaobjectsOf,
           initializeMetaobjectsOf, createKernelNamespace, loadKernelMethods,
           createRuntimeWithBootstrappedKernel, fillSymbolTable,
           switchToDynamicSymbolProvider, NewMethodDict, ConvertPair, ReplaceMethodDict
  <1>2. DOMAIN modules' = {}
    BY <1>1 DEF Inv, LoaderInv, loaderVars
  <1>3. CASE createKernelNamespace
    BY <1>2, <1>3, CreateKernelNamespaceNames DEF CompleteInv
  <1>4. CASE ~createKernelNamespace
    <2>1. namespace' = namespace
      BY <1>4 DEF BootNext, loadKernelSpecs, createInitialObjects, instantiateMetaobjectsOf,
           initializeMetaobjectsOf, loadKernelMethods,
           createRuntimeWithBootstrappedKernel, fillSymbolTable,
           switchToDynamicSymbolProvider, NewMethodDict, ConvertPair, ReplaceMethodDict
    <2> QED
      BY <1>2, <2>1 DEF CompleteInv
  <1> QED
    BY <1>3, <1>4

-----------------------------------------------------------------------------
(* At first there is nothing.                                              *)
LEMMA InitComplete ==
  ASSUME LoaderInit PROVE CompleteInv
  <1>1. DOMAIN namespace = {} /\ DOMAIN modules = {}
    BY DEF LoaderInit, BootInit
  <1> QED
    BY <1>1 DEF CompleteInv, KernelNamed

(* One lemma for each action says that it keeps the modules complete.      *)
LEMMA StepComplete ==
  ASSUME Inv, LinksInv, CompleteInv, [Next]_vars
  PROVE  CompleteInv'
  <1>1. CASE BootNext /\ UNCHANGED loaderVars
    BY <1>1, BootstrapComplete
  <1>2. CASE loadKernel
    BY <1>2, LoadKernelComplete
  <1>3. CASE \E path \in DOMAIN installation.modules : load(path)
    BY <1>3, LoadComplete
  <1>4. CASE /\ loads # <<>> /\ Top.path \in DOMAIN installation.modules
             /\ \E files \in Orders(DOMAIN Source.classes) : createModule(files)
    BY <1>4, CreateModuleComplete
  <1>5. CASE \/ moduleNotFound \/ importRequired \/ sortClasses \/ createClass
             \/ compileExtensions \/ register \/ justLoaded
    BY <1>5, ModuleNotFoundComplete, ImportRequiredComplete, SortClassesComplete,
       CreateClassComplete, CompileExtensionsComplete, RegisterComplete, JustLoadedComplete
  <1>6. CASE UNCHANGED vars
    <2>1. UNCHANGED <<installation, namespace, modules, loadedModules, kernelModules, loads>>
      BY <1>6 DEF vars
    <2>2. Range(kernelModules)' = Range(kernelModules) /\ Registered' = Registered
      BY <2>1 DEF Range, Registered
    <2> QED
      BY <2>1, <2>2 DEF CompleteInv
  <1> QED
    BY <1>1, <1>2, <1>3, <1>4, <1>5, <1>6 DEF Next, LoadNext

(* What the invariants say of the modules that are registered.             *)
LEMMA WholeMeansComplete ==
  ASSUME Inv, LinksInv, CompleteInv, Unambiguous(installation)
  PROVE  RegisteredModulesComplete
  <1>1. SUFFICES ASSUME NEW path \in LoadedPaths, NEW module, module = kernelModules[path],
                        NEW source, source = installation.modules[path]
                 PROVE  /\ modules[module].path = path
                        /\ \A name \in DOMAIN source.classes
                                       \cup {source.imports[i].name : i \in DOMAIN source.imports} :
                              /\ name \in DOMAIN modules[module].namespace
                              /\ modules[module].namespace[name] = Meant(path, name)
                              /\ Meant(path, name) \in DOMAIN objects
    BY DEF RegisteredModulesComplete
  <1>2. path \in DOMAIN kernelModules /\ path # <<"Kernel">>
    BY DEF LoadedPaths
  <1>3. module \in Range(kernelModules) /\ module \in DOMAIN modules
    BY <1>1, <1>2 DEF LinksInv, ModuleInv, Range
  <1>4. module \in Registered /\ modules[module].path = path
    BY <1>1, <1>2, <1>3 DEF CompleteInv, PathsKept
  <1>5. module # Kernel
    BY <1>2, <1>3, <1>4 DEF CompleteInv, RegisteredWhole
  <1>6. PICK m, imports, n : m = modules[module] /\ imports = source.imports /\ n = Len(imports)
    OBVIOUS
  <1>7. /\ path \in DOMAIN installation.modules
        /\ ImportsRead(m, imports, kernelModules, n) /\ ClassesMade(m, module, source, {})
    BY <1>1, <1>3, <1>4, <1>5, <1>6 DEF CompleteInv, RegisteredWhole, Whole, AsFar
  <1>8. installation \in Installations
    BY <1>3, Loading
  <1>9. imports \in Seq(Import) /\ n \in Nat /\ DOMAIN imports = 1 .. n
    <2>1. imports \in Seq(Import)
      BY <1>1, <1>6, <1>7, <1>8, ModuleSource DEF ModuleSourceOK
    <2> QED
      BY <1>6, <2>1, LenProperties
  <1>10. \A i \in 1 .. n : imports[i].name \notin DOMAIN source.classes
    BY <1>1, <1>6, <1>7 DEF Unambiguous, Plain
  <1>11. ASSUME NEW name \in DOMAIN source.classes \cup {imports[i].name : i \in 1 .. n}
         PROVE  name \in DOMAIN m.namespace /\ m.namespace[name] = Meant(path, name)
    <2>1. CASE name \in DOMAIN source.classes
      <3>1. name \in DOMAIN m.namespace /\ m.namespace[name] = ClassIn(module, name)
        BY <1>7, <2>1, SMTT(30) DEF ClassesMade
      <3>2. Meant(path, name) = ClassIn(kernelModules[path], name)
        BY <1>1, <2>1 DEF Meant
      <3> QED
        BY <1>1, <3>1, <3>2
    <2>2. CASE name \notin DOMAIN source.classes
      <3>1. PICK from : from = {i \in DOMAIN source.imports : source.imports[i].name = name}
        OBVIOUS
      <3>2. from = {i \in 1 .. n : imports[i].name = name} /\ from # {}
        BY <1>6, <1>9, <1>11, <2>2, <3>1
      <3>3. PICK j : j = Max(from)
        OBVIOUS
      <3>4. j \in from /\ \A i \in from : j >= i
        BY <1>9, <3>2, <3>3, MaxIn
      <3>5. Meant(path, name) = ClassIn(kernelModules[imports[j].module], name)
        BY <1>1, <1>6, <2>2, <3>1, <3>2, <3>3, Zenon DEF Meant
      <3>6. j \in 1 .. n /\ imports[j].name = name
        BY <3>2, <3>4
      <3>7. ~\E l \in j + 1 .. n : imports[l].name = imports[j].name
        <4> SUFFICES ASSUME NEW l \in j + 1 .. n, imports[l].name = name PROVE FALSE
          BY <3>6
        <4>1. l \in 1 .. n /\ l \in Int /\ j \in Int /\ l > j
          BY <1>9, <3>6
        <4>2. l \in from
          BY <3>2, <4>1
        <4> QED
          BY <3>4, <4>1, <4>2
      <3>8. /\ name \in DOMAIN m.namespace
            /\ m.namespace[name] = ClassIn(kernelModules[imports[j].module], name)
        BY <1>7, <3>6, <3>7 DEF ImportsRead
      <3> QED
        BY <3>5, <3>8
    <2> QED
      BY <2>1, <2>2
  <1>12. ASSUME NEW name \in DOMAIN source.classes \cup {imports[i].name : i \in 1 .. n}
         PROVE  Meant(path, name) \in DOMAIN objects
    <2>1. PICK value : value = Meant(path, name)
      BY SMTT(30)
    <2>2. IsClass(value)
      <3>1. \A k, x : IsClass(ClassIn(k, x)) /\ IsClass(Class(x))
        BY DEF IsClass, ClassIn, Class
      <3> QED
        BY <2>1, <3>1 DEF Meant
    <2>3. name \in DOMAIN m.namespace /\ m.namespace[name] = value
      BY <1>11, <1>12, <2>1
    <2>4. NamesLinked(m, objects)
      BY <1>3, <1>6 DEF LinksInv, ModuleInv, ModulesLinked
    <2> QED
      BY <2>1, <2>2, <2>3, <2>4 DEF NamesLinked
  <1> QED
    BY <1>4, <1>6, <1>9, <1>11, <1>12

(* A module that the kernel has registered (justLoaded) is complete, when   *)
(* the sources are unambiguous: it is the module of that path, it has all   *)
(* of its classes (createNewClassFrom_, in whatever order the directory     *)
(* lists the files and Sorted puts them), and its imports                   *)
(* (importRequiredModules) are the classes of the modules registered for    *)
(* them, however loads are nested, fail or go round in circles.             *)
THEOREM RegisteredAreComplete ==
  Spec => [](Unambiguous(installation) => RegisteredModulesComplete)
  <1>1. LoaderInit => Inv /\ LinksInv /\ CompleteInv
    BY InitInv, InitLinks, InitComplete
  <1>2. (Inv /\ LinksInv /\ CompleteInv) /\ [Next]_vars => (Inv /\ LinksInv /\ CompleteInv)'
    BY StepKeeps, StepLinks, StepComplete
  <1>3. Inv /\ LinksInv /\ CompleteInv => (Unambiguous(installation) => RegisteredModulesComplete)
    BY WholeMeansComplete
  <1> QED
    BY <1>1, <1>2, <1>3, PTL DEF Spec

=============================================================================
