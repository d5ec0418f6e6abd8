---------------------------- MODULE MCToolchain ----------------------------
(***************************************************************************)
(* Programs for Toolchain.  A program is a sequence of names: the blocks   *)
(* that are nested in each other, from the outside in, and what the        *)
(* innermost one does.                                                     *)
(***************************************************************************)
EXTENDS Toolchain

MCSuperclasses ==
  [k \in {"SmallInteger", "UndefinedObject", "Boolean", "Closure", "Array", "Array class", "Main",
          "ProcessorScheduler"} |-> <<k, "Object">>]
  @@ [k \in {"Object"} |-> <<k>>]
  @@ [k \in {"Other"} |-> <<k, "Main", "Object">>]
  @@ [k \in {"ActiveProcess"} |-> <<k, "Process", "Object">>]
  @@ [k \in {"ProcessVMStack"} |-> <<k, "ProcessStack", "Object">>]
  @@ [k \in {"OrderedCollection"} |-> <<k, "SequenceableCollection", "Collection", "Object">>]

(* Of a process, the variables that are used.                              *)
MCInstVars ==
  [k \in DOMAIN MCSuperclasses |->
     CASE k = "Main" -> <<"iv">> [] k = "Other" -> <<"iv", "more">>
       [] k = "Closure" -> <<"block", "homeFrame">>
       [] k = "ProcessorScheduler" -> <<"activeProcess">>
       [] k = "ActiveProcess" -> <<"nativeStack", "protectedFrames">>
       [] k = "OrderedCollection" -> <<"start", "end", "contents">>
       [] OTHER -> <<>>]

MCGlobals ==
  [n \in {"Array"} |-> Ref(2)] @@ [n \in {"Another"} |-> Ref(3)] @@ [n \in {"Processor"} |-> Ref(4)]

(* The methods of SmallInteger in src/modules/Kernel/VM.                   *)
MCOperations ==
  [s \in {"+"} |-> "SMIPlus"] @@ [s \in {"-"} |-> "SMIMinus"] @@ [s \in {"*"} |-> "SMITimes"]
  @@ [s \in {"//"} |-> "SMIIntDiv"] @@ [s \in {"\\\\"} |-> "SMIIntQuot"]
  @@ [s \in {"="} |-> "SMIEqual"] @@ [s \in {"!="} |-> "SMINotEqual"]
  @@ [s \in {">"} |-> "SMIGreaterThan"] @@ [s \in {">="} |-> "SMIGreaterEqualThan"]
  @@ [s \in {"bitAnd:"} |-> "SMIBitAnd"] @@ [s \in {"bitOr:"} |-> "SMIBitOr"]
  @@ [s \in {"bitXor:"} |-> "SMIBitXor"] @@ [s \in {"bitShift:"} |-> "SMIBitShift"]

MCLibrary ==
  LET prims == {<<"SmallInteger", <<sel>>, <<"x">>, MCOperations[sel]>> : sel \in DOMAIN MCOperations} \cup
               {<<"SmallInteger", <<"highBit">>, <<>>, "SMIHighBit">>,
                <<"Object", <<"==">>, <<"x">>, "Equal">>,
                <<"Closure", <<"value">>, <<>>, "ClosureValue">>,
                <<"Closure", <<"value:">>, <<"x">>, "ClosureValueWithArgs">>,
                <<"Array class", <<"new:">>, <<"n">>, "NewSized">>,
                <<"Array", <<"at:">>, <<"i">>, "At">>,
                <<"Array", <<"at:", "put:">>, <<"i", "x">>, "AtPut">>,
                <<"Object", <<"perform:", "withArguments:">>, <<"s", "x">>, "PerformWithArguments">>}
      plain == UnwindingMethods \cup {
                <<"Object", Method(<<"_doesNotUnderstand:", "with:">>, <<"s", "x">>, <<>>, NoPragma,
                     <<Return(Op2(Id("self"), "_error:", Id("s")))>>)>>,
                <<"Object", Method(<<"yourself">>, <<>>, <<>>, NoPragma, <<>>)>>,
                <<"Object", Method(<<"isSmallInteger">>, <<>>, <<>>, NoPragma,
                     <<Return(Unary(Id("self"), "_isSmallInteger"))>>)>>,
                <<"Boolean", Method(<<"not">>, <<>>, <<>>, NoPragma,
                     <<Return(Call2(Id("self"), "ifTrue:", Closed(<<>>, <<>>, <<Id("false")>>),
                                                "ifFalse:", Closed(<<>>, <<>>, <<Id("true")>>)))>>)>>,
                <<"Object", Method(<<"one">>, <<>>, <<>>, NoPragma, <<Return(Number(2))>>)>>,
                <<"Main", Method(<<"one">>, <<>>, <<>>, NoPragma, <<Return(Number(1))>>)>>,
                <<"Main", Method(<<"numbered">>, <<>>, <<>>, Pragma(""), <<Return(Number(4))>>)>>,
                <<"Main", Method(<<"run:">>, <<"b">>, <<"r">>, NoPragma,
                     <<Set("r", Unary(Id("b"), "value")), Return(Id("r"))>>)>>,
                <<"Main", Method(<<"add:">>, <<"x">>, <<>>, NoPragma,
                     <<Set("iv", Plus(Id("iv"), Id("x"))), Return(Id("iv"))>>)>>}
  IN [k \in {<<p[1], p[2]>> : p \in prims} |->
        LET p == CHOOSE q \in prims : <<q[1], q[2]>> = k IN PrimitiveMethod(p[2], p[3], p[4])]
     @@ [k \in {<<p[1], p[2].sel>> : p \in plain} |->
        (CHOOSE q \in plain : <<q[1], q[2].sel>> = k)[2]]

(* The innermost argument and temporary in scope after the wrappers ws.    *)
Takes == {"valueArg", "ifNotNil", "toDo"}

InnerArg(ws) ==
  IF \E i \in DOMAIN ws : ws[i] \in Takes
    THEN LET i == CHOOSE j \in DOMAIN ws : ws[j] \in Takes /\ \A h \in DOMAIN ws : h > j => ws[h] \notin Takes
         IN <<"x1", "x2", "x3", "x4">>[i]
    ELSE "a"

(* What a block does around its inner statements. Its value is t.          *)
Wrap(w, d, inner) ==
  LET x    == <<"x1", "x2", "x3", "x4">>[d]
      u    == <<"u1", "u2", "u3", "u4">>[d]
      c    == <<"c1", "c2", "c3", "c4">>[d]
      then(more) == IF inner[Len(inner)].k = "return" THEN inner ELSE inner \o more
      body == then(<<Id("t")>>)
  IN CASE w = "value"    -> Unary(Closed(<<>>, <<>>, body), "value")
       [] w = "valueArg" -> Op2(Closed(<<x>>, <<>>, body), "value:", Id("a"))
       [] w = "temp"     -> Unary(Closed(<<>>, <<u>>, <<Set(u, Id("t"))>> \o then(<<Set("t", Plus(Id("t"), Id(u)))>>)), "value")
       [] w = "operand"  -> Plus(Id("a"), Unary(Closed(<<>>, <<>>, body), "value"))
       [] w = "run"      -> Op2(Id("self"), "run:", Closed(<<>>, <<>>, body))
       [] w = "ensure"   -> Op2(Closed(<<>>, <<>>, body), "ensure:",
                                Closed(<<>>, <<>>, <<Set("t", Plus(Id("t"), Number(10)))>>))
       [] w = "ensureIv" -> Op2(Closed(<<>>, <<>>, body), "ensure:",
                                Closed(<<>>, <<>>, <<Set("iv", Plus(Id("iv"), Number(1)))>>))
       [] w = "if"       -> Op2(Op2(Id("a"), ">", Number(0)), "ifTrue:", Closed(<<>>, <<>>, body))
       [] w = "ifElse"   -> Call2(Op2(Id("t"), ">", Number(5)), "ifTrue:", Closed(<<>>, <<>>, <<Number(0)>>),
                                  "ifFalse:", Closed(<<>>, <<>>, body))
       [] w = "ifNil"    -> Op2(Id("nil"), "ifNil:", Closed(<<>>, <<>>, body))
       [] w = "ifNotNil" -> Op2(Id("a"), "ifNotNil:", Closed(<<x>>, <<>>, body))
       [] w = "toDo"     -> Call2(Number(1), "to:", Number(2), "do:", Closed(<<x>>, <<>>, body))
       [] w = "times"    -> Op2(Number(2), "timesRepeat:", Closed(<<>>, <<>>, body))
       [] w = "and"      -> Op2(Op2(Id("a"), ">", Number(0)), "and:", Closed(<<>>, <<>>, body))
       [] w = "while"    -> Op2(Closed(<<>>, <<>>, <<Op2(Id(c), ">", Number(1))>>), "whileFalse:",
                                Closed(<<>>, <<>>, then(<<Set(c, Plus(Id(c), Number(1)))>>)))

Leaf(l, ws) ==
  LET x == InnerArg(ws)
  IN CASE l = "add"   -> <<Set("t", Plus(Id("t"), Id(x)))>>
       [] l = "ret"   -> <<Return(Plus(Id("t"), Id(x)))>>
       [] l = "iv"    -> <<Set("iv", Plus(Id("iv"), Id("t"))), Set("t", Id("iv"))>>
       [] l = "self"  -> <<Set("t", Unary(Id("self"), "one"))>>
       [] l = "super" -> <<Set("t", Unary(Id("super"), "one"))>>
       [] l = "brace" -> <<Set("t", Op2(Brace(<<Id(x), Id("t")>>), "at:", Number(2)))>>
       [] l = "casc"  -> <<Set("t", Cascade(Id("self"), <<CascadeMessage(<<"add:">>, <<Id(x)>>),
                                                          CascadeMessage(<<"one">>, <<>>),
                                                          CascadeMessage(<<"add:">>, <<Id("t")>>)>>))>>
       [] l = "perf"  -> <<Set("t", Call2(Id("self"), "perform:", Literal(SymbolLit(<<"add:">>)),
                                          "withArguments:", Brace(<<Id(x)>>)))>>
       [] l = "loop"  -> <<Call2(Number(1), "to:", Number(2), "do:",
                                 Closed(<<"k">>, <<>>, <<Set("t", Plus(Id("t"), Id("k")))>>))>>
       [] l = "nilLoop" -> <<Op2(Id("a"), "ifNil:", Closed(<<>>, <<>>, <<Number(0)>>)),
                             Call2(Number(1), "to:", Number(2), "do:",
                                 Closed(<<"k">>, <<>>, <<Set("t", Plus(Id("t"), Id("k")))>>))>>
       [] l = "again" -> <<Set("t", Cascade(Op2(Id(x), "ifNil:", Id("t")),
                                            <<CascadeMessage(<<"+">>, <<Id(x)>>),
                                              CascadeMessage(<<"+">>, <<Id("t")>>)>>))>>
       [] l = "array" ->
            LET inner == ArrayLit(<<IntegerLit(-2), SymbolLit(<<"foo">>), NilLit>>)
            IN <<Literal(ArrayLit(<<NilLit, inner, SymbolLit(<<"at:", "put:">>), BooleanLit(TRUE),
                                    ByteArrayLit(<<1, 255>>), BooleanLit(FALSE)>>)),
                 Literal(ByteArrayLit(<<7>>)),
                 Set("t", Plus(Id("t"), Unary(Id("self"), "numbered")))>>
       [] l = "dnu"   -> <<Unary(Id("t"), "unknown")>>
       [] l = "other" -> <<Set("t", Plus(Op2(Id("Another"), "add:", Id("t")), Op2(Id("self"), "add:", Id(x))))>>
       [] l = "whiles" ->
            LET up == Set("t", Plus(Id("t"), Number(1)))
            IN <<Op2(Closed(<<>>, <<>>, <<Op2(Number(3), ">", Id("t"))>>), "whileTrue:", Closed(<<>>, <<>>, <<up>>)),
                 Unary(Closed(<<>>, <<>>, <<up, Op2(Id("t"), ">", Number(5))>>), "whileFalse"),
                 Unary(Closed(<<>>, <<>>, <<up, Op2(Number(8), ">", Id("t"))>>), "whileTrue")>>
       [] l = "repeat" ->
            <<Unary(Closed(<<>>, <<>>, <<Set("t", Plus(Id("t"), Id(x))),
                 Op2(Op2(Id("t"), ">", Number(3)), "ifTrue:", Closed(<<>>, <<>>, <<Return(Id("t"))>>))>>), "repeat")>>
       [] l = "nots"  ->
            LET or  == Op2(Op2(Number(0), ">", Id(x)), "orNot:", Closed(<<>>, <<>>, <<Op2(Id(x), ">", Number(5))>>))
                and == Op2(or, "andNot:", Closed(<<>>, <<>>, <<Op2(Id("t"), ">", Number(5))>>))
            IN <<Set("t", Call2(and, "ifFalse:", Closed(<<>>, <<>>, <<Number(0)>>),
                                     "ifTrue:", Closed(<<>>, <<>>, <<Plus(Id("t"), Id(x))>>)))>>
       [] l = "ands"  ->
            LET both == Call2(Op2(Id(x), ">", Number(0)), "and:", Closed(<<>>, <<>>, <<Op2(Id("t"), ">", Number(0))>>),
                                                          "and:", Closed(<<>>, <<>>, <<Op2(Id("t"), ">", Number(9))>>))
                or   == Op2(both, "or:", Closed(<<>>, <<>>, <<Unary(Id("t"), "isSmallInteger")>>))
            IN <<Op2(both, "ifFalse:", Closed(<<>>, <<>>, <<Set("t", Plus(Id("t"), Id(x)))>>)),
                 Op2(or, "ifTrue:", Closed(<<>>, <<>>, <<Set("t", Plus(Id("t"), Id(x)))>>))>>
       [] l = "nils"  ->
            <<Set("t", Call2(Id(x), "ifNil:", Closed(<<>>, <<>>, <<Number(0)>>),
                                    "ifNotNil:", Closed(<<"k">>, <<>>, <<Plus(Id("k"), Id("t"))>>))),
              Set("t", Call2(Id("nil"), "ifNotNil:", Closed(<<"j">>, <<>>, <<Id("j")>>),
                                        "ifNil:", Closed(<<>>, <<>>, <<Plus(Id("t"), Number(1))>>)))>>

RECURSIVE Nest(_, _, _)
Nest(ws, d, leaf) ==
  IF d > Len(ws) THEN leaf ELSE <<Wrap(ws[d], d, Nest(ws, d + 1, leaf))>>

(* main: a  | t |  t := 1. nest. ^t                                        *)
NestSource(p) ==
  LET ws == SubSeq(p, 1, Len(p) - 1)
      cs == SelectSeq(<<"c1", "c2", "c3", "c4">>,
                      LAMBDA c : \E i \in DOMAIN ws : ws[i] = "while" /\ c = <<"c1", "c2", "c3", "c4">>[i])
  IN Method(<<"main:">>, <<"a">>, <<"t">> \o cs, NoPragma,
            <<Set("t", Number(1))>> \o [i \in DOMAIN cs |-> Set(cs[i], Number(0))] \o Nest(ws, 1, Leaf(p[Len(p)], ws)) \o <<Return(Id("t"))>>)

(* main: a  ^x op y                                                        *)
NumberSource(p) ==
  Method(<<"main:">>, <<"a">>, <<>>, NoPragma,
         <<Return(IF Len(p) = 3 THEN Unary(Number(p[3]), p[2]) ELSE Op2(Number(p[3]), p[2], Number(p[4])))>>)

MCSource(p) == IF p[1] = "number" THEN NumberSource(p) ELSE NestSource(p)

Wrappers == {"value", "valueArg", "temp", "operand", "run", "ensure", "if", "ifElse", "ifNil", "ifNotNil",
             "toDo", "times", "and", "while"}
Leaves == {"add", "ret", "iv", "self", "super", "brace", "casc", "perf", "dnu", "other",
           "whiles", "repeat", "nots", "ands", "nils", "again", "array"}

(* Whether the block of wrapper i is a closure, and whether it needs self. *)
Closures == {"value", "valueArg", "temp", "operand", "run", "ensure"}

NeedsSelf(p, i) ==
  p[Len(p)] \in {"iv", "self", "super", "casc", "perf", "brace", "other", "array"} \/ \E j \in i + 1 .. Len(p) : p[j] = "run"

(* A closure that needs self around one that does not, as the one that is  *)
(* ensured.                                                                *)
SelfEndsAbove(p) ==
  \E i, j \in 1..(Len(p) - 1) :
    /\ i < j /\ {p[i], p[j]} \subseteq Closures
    /\ NeedsSelf(p, i) /\ (p[j] = "ensure" \/ ~NeedsSelf(p, j))

Few == {"valueArg", "run", "toDo"}

AllPrograms ==
  {<<w, l>> : w \in Wrappers, l \in Leaves}
  \cup {<<v, w, l>> : v \in Wrappers \ {"ensure"}, w \in Wrappers \ {"ensure"}, l \in {"add", "ret"}}
  \cup {<<v, w, "iv">> : v \in Few, w \in Wrappers \ {"ensure"}}
  \cup {<<"ensure", w, l>> : w \in {"ensure", "value", "run", "toDo"}, l \in {"add", "ret"}}
  \cup {<<w, "ensure", l>> : w \in {"value", "run", "toDo", "while"}, l \in {"add", "ret"}}
  \cup {<<u, v, w, l>> : u \in Few, v \in Few, w \in Few, l \in {"add", "ret"}}

(* Numbers at the ends of their range, around 0 and in between.  Left out  *)
(* is what the code does not handle: division by 0 and of the smallest     *)
(* number by -1, underprimitives that shift by less than 0, and highBit of *)
(* a negative number; and 0 shifted by a whole word, which fails and is 0  *)
(* by what the Kernel does then.  A shift by 10 is a whole word already.   *)
Edges == {SMALLINT_MIN, -5, -1, 0, 1, 3, 10, SMALLINT_MAX}

Handled(sel, a, b) ==
  /\ sel \in {"//", "\\\\", "_quotientTowardZero:", "_remainderTowardZero:"} =>
       b # 0 /\ ~(a = SMALLINT_MIN /\ b = -1)
  /\ sel \in {"_bitShiftLeft:", "_bitShiftRight:"} => b >= 0
  /\ sel \in {"bitShift:", "_bitShiftLeft:", "_bitShiftRight:"} => b \in -10 .. 10 /\ ~(a = 0 /\ b = 10)

NumberPrograms ==
  {<<"number", sel, a, b>> : sel \in DOMAIN MCOperations \cup UnderArithmetic \cup UnderComparisons, a \in Edges, b \in Edges}

MCNumbers ==
  {p \in NumberPrograms : Handled(p[2], p[3], p[4])}
  \cup {<<"number", "highBit", a>> : a \in {x \in Edges : x >= 0}}

MCPrograms == MCNumbers \cup {p \in AllPrograms : ~SelfEndsAbove(p)}

MCSelfEndsAbove == {p \in AllPrograms : Len(p) = 3 /\ SelfEndsAbove(p)}

(* A block that is left by a return, and the block that is ensured.        *)
MCEnsuring == {<<"ensureIv", l>> : l \in {"add", "ret"}} \cup {<<"if", "ensureIv", "ret">>}

MCNilThenLoop == {<<w, "nilLoop">> : w \in {"value", "run"}}
=============================================================================
