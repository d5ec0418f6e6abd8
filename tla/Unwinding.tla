----------------------------- MODULE Unwinding ------------------------------
(***************************************************************************)
(* The part of a return from a block that is written in Smalltalk:         *)
(* Closure>>return:, ensure: and what they use of ActiveProcess and the    *)
(* collection of its protected frames, as parse trees for the compiler.    *)
(* A string stands as a symbol, since only its place counts.               *)
(***************************************************************************)
EXTENDS ParseNodes

Id(n)        == Identifier(n)
Number(n)    == Literal(IntegerLit(n))
Text(t)      == Literal(SymbolLit(<<t>>))
Unary(r, m)  == Message(0, r, <<m>>, <<>>)
Op2(r, m, a) == Message(0, r, <<m>>, <<a>>)
Call2(r, m, a, m2, a2) == Message(0, r, <<m, m2>>, <<a, a2>>)
Closed(params, temps, body) == Block(0, 0, params, temps, body)
Plain0(body) == Closed(<<>>, <<>>, body)
Plus(a, b)   == Op2(a, "+", b)
Set(n, e)    == Assignment(Id(n), e)
Procedure(sel, params, temps, body) == Method(sel, params, temps, NoPragma, body)
PrimitiveMethod(sel, params, name) ==
  Method(sel, params, <<>>, Pragma(name), <<Return(Op2(Id("self"), "_error:", Number(0)))>>)

-----------------------------------------------------------------------------
(* Closure.                                                                *)

ActiveProcessNow == Unary(Id("Processor"), "activeProcess")

ensure == Procedure(<<"ensure:">>, <<"aBlock">>, <<>>,
  <<Return(Call2(ActiveProcessNow, "evaluate:", Id("self"), "ensuring:", Id("aBlock")))>>)

return == Procedure(<<"return:">>, <<"result">>, <<>>,
  <<Return(Call2(ActiveProcessNow, "nonLocalReturn:", Id("result"), "home:", Id("homeFrame")))>>)

activeProcess == Procedure(<<"activeProcess">>, <<>>, <<>>, <<Return(Id("activeProcess"))>>)

-----------------------------------------------------------------------------
(* ActiveProcess.                                                          *)

NativeBP == Unary(Unary(Id("self"), "nativeStack"), "bp")

canReturnTo == Procedure(<<"canReturnTo:">>, <<"homeFrame">>, <<"method", "env">>,
  <<Op2(Op2(Id("homeFrame"), "==", Id("nil")), "ifTrue:", Plain0(<<Return(Id("false"))>>)),
    Op2(Op2(Id("homeFrame"), "<", NativeBP), "ifTrue:", Plain0(<<Return(Id("false"))>>)),
    Return(Id("true"))>>)

evaluateEnsuring == Procedure(<<"evaluate:", "ensuring:">>, <<"aClosure", "ensuredClosure">>,
  <<"cursor", "result", "prev">>,
  <<Set("cursor", NativeBP),
    Op2(Id("protectedFrames"), "push:", Id("cursor")),
    Set("result", Unary(Id("aClosure"), "value")),
    Set("prev", Unary(Id("protectedFrames"), "pop")),
    Op2(Op2(Id("prev"), "==", Id("cursor")), "ifFalse:",
        Plain0(<<Op2(Id("self"), "_error:", Text("not the one pushed"))>>)),
    Unary(Id("ensuredClosure"), "value"),
    Return(Id("result"))>>)

evaluateEnsuredUpTo == Procedure(<<"evaluateEnsuredUpTo:">>, <<"framePointer">>, <<"ensured">>,
  <<Text("atomic"),
    Op2(Plain0(<<Op2(Unary(Id("protectedFrames"), "notEmpty"), "and:",
                   Plain0(<<Op2(Unary(Id("protectedFrames"), "last"), "<=", Id("framePointer"))>>))>>),
        "whileTrue:",
        Plain0(<<Set("ensured", Op2(Unary(Id("self"), "nativeStack"), "lastArgumentOf:",
                                    Unary(Id("protectedFrames"), "pop"))),
                 Unary(Id("ensured"), "value")>>))>>)

nonLocalReturnHome == Procedure(<<"nonLocalReturn:", "home:">>, <<"anObject", "framePointer">>, <<>>,
  <<Op2(Op2(Id("self"), "canReturnTo:", Id("framePointer")), "ifFalse:",
        Plain0(<<Op2(Id("self"), "error:", Text("outside current stack chunk"))>>)),
    Op2(Id("self"), "evaluateEnsuredUpTo:", Id("framePointer")),
    Return(Op2(Id("anObject"), "_returnTo:", Id("framePointer")))>>)

nativeStack == Procedure(<<"nativeStack">>, <<>>, <<>>,
  <<Op2(Id("nativeStack"), "ifNil:", Plain0(<<Unary(Id("self"), "initializeStack")>>)),
    Return(Id("nativeStack"))>>)

(* The slot of the last argument of a frame, counted from its base.        *)
lastArgumentOf == Procedure(<<"lastArgumentOf:">>, <<"frame">>, <<>>,
  <<Return(Op2(Id("self"), "at:", Plus(Id("frame"), Number(2))))>>)

-----------------------------------------------------------------------------
(* OrderedCollection, used as a stack.                                     *)

push == Procedure(<<"push:">>, <<"anObject">>, <<>>, <<Return(Op2(Id("self"), "add:", Id("anObject")))>>)

add == Procedure(<<"add:">>, <<"anObject">>, <<>>, <<Return(Op2(Id("self"), "basicAdd:", Id("anObject")))>>)

basicAdd == Procedure(<<"basicAdd:">>, <<"anObject">>, <<>>,
  <<Op2(Op2(Id("end"), "=", Unary(Id("contents"), "size")), "ifTrue:",
        Plain0(<<Unary(Id("self"), "makeRoomBehind")>>)),
    Set("end", Plus(Id("end"), Number(1))),
    Call2(Id("contents"), "at:", Id("end"), "put:", Id("anObject")),
    Return(Id("anObject"))>>)

pop == Procedure(<<"pop">>, <<>>, <<>>, <<Return(Unary(Id("self"), "removeLast"))>>)

removeLast == Procedure(<<"removeLast">>, <<>>, <<"last">>,
  <<Op2(Op2(Id("start"), ">", Id("end")), "ifTrue:", Plain0(<<Return(Unary(Id("self"), "absentElement"))>>)),
    Set("last", Op2(Id("contents"), "at:", Id("end"))),
    Call2(Id("contents"), "at:", Id("end"), "put:", Id("nil")),
    Set("end", Op2(Id("end"), "-", Number(1))),
    Op2(Op2(Id("end"), "<", Id("start")), "ifTrue:",
        Plain0(<<Set("start", Number(1)), Set("end", Number(0))>>)),
    Return(Id("last"))>>)

collectionSize == Procedure(<<"collectionSize">>, <<>>, <<>>,
  <<Return(Plus(Op2(Id("end"), "-", Id("start")), Number(1)))>>)

size == Procedure(<<"size">>, <<>>, <<>>, <<Return(Unary(Id("self"), "collectionSize"))>>)

objectSize == Procedure(<<"size">>, <<>>, <<>>, <<Return(Unary(Id("self"), "primitiveSize"))>>)

isEmpty == Procedure(<<"isEmpty">>, <<>>, <<>>, <<Return(Op2(Unary(Id("self"), "size"), "=", Number(0)))>>)

notEmpty == Procedure(<<"notEmpty">>, <<>>, <<>>, <<Return(Unary(Unary(Id("self"), "isEmpty"), "not"))>>)

last == Procedure(<<"last">>, <<>>, <<>>, <<Return(Op2(Id("self"), "at:", Unary(Id("self"), "size")))>>)

at == Procedure(<<"at:">>, <<"anInteger">>, <<>>,
  <<Return(Call2(Id("self"), "at:", Id("anInteger"), "ifAbsent:",
                 Plain0(<<Op2(Id("self"), "outOfBoundsIndex:", Id("anInteger"))>>)))>>)

atIfAbsent == Procedure(<<"at:", "ifAbsent:">>, <<"anInteger", "aBlock">>, <<"index">>,
  <<Set("index", Op2(Plus(Id("anInteger"), Id("start")), "-", Number(1))),
    Op2(Op2(Op2(Id("start"), "<=", Id("index")), "and:", Plain0(<<Op2(Id("index"), "<=", Id("end"))>>)),
        "ifFalse:", Plain0(<<Return(Unary(Id("aBlock"), "value"))>>)),
    Return(Op2(Id("contents"), "at:", Id("index")))>>)

-----------------------------------------------------------------------------
(* SmallInteger < and <=.                                                  *)
Ordered(sel, under, otherwise) == Procedure(<<sel>>, <<"aNumber">>, <<>>,
  <<Return(Call2(Unary(Id("aNumber"), "_isSmallInteger"),
                 "ifTrue:", Plain0(<<Op2(Id("self"), under, Id("aNumber"))>>),
                 "ifFalse:", Plain0(<<Op2(Id("aNumber"), otherwise, Id("self"))>>)))>>)

lower == Ordered("<", "_smiLowerThan:", ">")

lowerEqual == Ordered("<=", "_smiLowerEqualThan:", ">=")

(* Object>>value is the receiver; so nil has a value.                      *)
value == Procedure(<<"value">>, <<>>, <<>>, <<Return(Id("self"))>>)

-----------------------------------------------------------------------------
UnwindingMethods ==
  {<<"Closure", ensure>>, <<"Closure", return>>, <<"ProcessorScheduler", activeProcess>>,
   <<"ActiveProcess", canReturnTo>>, <<"ActiveProcess", evaluateEnsuring>>,
   <<"ActiveProcess", evaluateEnsuredUpTo>>, <<"ActiveProcess", nonLocalReturnHome>>,
   <<"Process", nativeStack>>, <<"ProcessStack", lastArgumentOf>>,
   <<"ProcessVMStack", PrimitiveMethod(<<"bp">>, <<>>, "ProcessVMStackBP")>>,
   <<"ProcessVMStack", PrimitiveMethod(<<"at:">>, <<"anInteger">>, "ProcessVMStackAt")>>,
   <<"OrderedCollection", push>>, <<"OrderedCollection", add>>, <<"OrderedCollection", basicAdd>>,
   <<"OrderedCollection", pop>>, <<"OrderedCollection", removeLast>>,
   <<"OrderedCollection", collectionSize>>, <<"OrderedCollection", size>>,
   <<"OrderedCollection", at>>, <<"OrderedCollection", atIfAbsent>>,
   <<"SequenceableCollection", last>>, <<"Collection", isEmpty>>, <<"Collection", notEmpty>>,
   <<"Object", objectSize>>, <<"Object", PrimitiveMethod(<<"primitiveSize">>, <<>>, "Size")>>,
   <<"SmallInteger", lower>>, <<"SmallInteger", lowerEqual>>, <<"Object", value>>}
=============================================================================
