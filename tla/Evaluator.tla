----------------------------- MODULE Evaluator ------------------------------
(***************************************************************************)
(* The evaluator: Evaluator and EvaluationContext running the operations   *)
(* the linearizer made.                                                    *)
(*                                                                         *)
(* The context holds the stack and the registers.  The stack of the code   *)
(* grows down; here it is a sequence that grows at its end, and a frame    *)
(* with base bp is                                                         *)
(*     bp - 1  saved PC        bp + 2  code                                *)
(*     bp      saved BP        bp + 3  environment of the caller           *)
(*     bp + 1  receiver        bp + 4  environment                         *)
(* with temporary i at bp + 4 + i, the operands after the temporaries, and *)
(* argument i of n at bp - 1 - (n - i + 1).                                *)
(* A value is a tuple that begins with its kind.  What is read outside the *)
(* frame or the environment it was meant for is Wild.                      *)
(***************************************************************************)
EXTENDS Treecodes, Linearizer, SmallIntegers

CONSTANTS StackSize,      \* STACK_SIZE
          Margin,         \* the slots a new frame must leave free: 100
          Superclasses,   \* per class, the class and its superclasses
          InstVars,       \* per class, the names of its instance variables
          Globals         \* the values of the names of the module's namespace

VARIABLES methods,  \* the compiled methods by class and selector
          context,  \* EvaluationContext: stack and registers
          regR,     \* _regR, the result
          work,     \* _work, the code whose operations are running
          objects,  \* closures, arrays and other objects, by reference
          status    \* "idle", "running", "done" or "error"

evaluatorVars == <<context, regR, work, objects, status, methods>>

Nil     == <<"nil">>
Smi(n)  == <<"int", n>>
Bool(b) == IF b THEN <<"true">> ELSE <<"false">>
Ref(i)  == <<"ref", i>>
Raw(n)  == <<"raw", n>>
Wild    == <<"wild">>
CodeRef(method, block) == <<"code", method, block>>

IsInt(v) == v[1] = "int"
IsRef(v) == v[1] = "ref"

-----------------------------------------------------------------------------
(* Compiled code. Block 0 is the method itself.                            *)

NotPrepared == [ops |-> <<>>, codes |-> <<>>]

IsBlock(code) == code[3] # 0

CompiledBlockOf(code) == methods[code[2]].literals[code[3]]

ArgumentCountOf(code) ==
  IF IsBlock(code) THEN CompiledBlockOf(code).argCount ELSE methods[code[2]].argCount

TemporaryCountOf(code) ==
  IF IsBlock(code) THEN CompiledBlockOf(code).tempCount ELSE methods[code[2]].tempCount

Operations(code) ==
  LET x == methods[code[2]].code IN IF IsBlock(code) THEN x.codes[code[3]] ELSE x.ops

(* prepareForExecution_: decode and linearize once.                        *)
Prepared(key) ==
  LET m == methods[key]
      d == [bytes |-> m.treecodes, pool |-> m.literals]
      kept(l) == [methods EXCEPT ![key].code = [ops |-> l.ops, codes |-> l.codes]]
  IN IF m.code # NotPrepared THEN methods
     ELSE kept(VisitMethod(DecodeMethod(d).x, m.literals, m.tempCount))

-----------------------------------------------------------------------------
(* EvaluationContext.                                                      *)

EmptyContext == [stack |-> <<>>, bp |-> 0, pc |-> 0, e |-> Nil,
                 m |-> CodeRef(<<"", <<>>>>, 0), s |-> Nil]

StackAt(c, i) == IF i \in DOMAIN c.stack THEN c.stack[i] ELSE Wild

Push(c, v) == [c EXCEPT !.stack = Append(@, v)]

DropOperands(c, n) == [c EXCEPT !.stack = SubSeq(@, 1, Len(@) - n)]

OperandAt(c, i) == StackAt(c, Len(c.stack) - i)

ArgumentAt(c, i) ==
  LET n == ArgumentCountOf(c.stack[c.bp + 2])
  IN StackAt(c, c.bp - 1 - (n - i + 1))

InFrame(c, i) == c.bp + 4 + i \in DOMAIN c.stack

StackTemporaryAt(c, i) == IF InFrame(c, i) THEN c.stack[c.bp + 4 + i] ELSE Wild
(* Mutant: the offset of a temporary with the sign of an argument.         *)
StackTemporaryAtPutAbove(c, i, v) == [c EXCEPT !.stack[c.bp - 1 - i] = v]

StackTemporaryAtPut(c, i, v) == [c EXCEPT !.stack[c.bp + 4 + i] = v]

(* buildFrameFor_code_environment_temps_.                                  *)
BuildFrame(c, receiver, code, environment, temps) ==
  [stack |-> c.stack \o <<Raw(c.pc), Raw(c.bp), receiver, code, c.e, environment>>
                     \o [i \in 1..temps |-> Nil],
   bp |-> Len(c.stack) + 2, pc |-> 0, e |-> environment, m |-> code, s |-> receiver]

Overflows(c) == StackSize + 1 - c.bp <= Margin
(* Mutant: the base of the caller is not restored.                         *)
PopFrameKeepingBase(c) ==
  LET bp == c.stack[c.bp][2]
  IN [stack |-> SubSeq(c.stack, 1, c.bp - 2), bp |-> c.bp, pc |-> c.stack[c.bp - 1][2],
      e |-> StackAt(c, bp + 4), m |-> StackAt(c, bp + 2), s |-> StackAt(c, bp + 1)]

PopFrame(c) ==
  LET bp == c.stack[c.bp][2]
  IN [stack |-> SubSeq(c.stack, 1, c.bp - 2), bp |-> bp, pc |-> c.stack[c.bp - 1][2],
      e |-> StackAt(c, bp + 4), m |-> StackAt(c, bp + 2), s |-> StackAt(c, bp + 1)]

(* The environment that a binding names: the current one, or the one in    *)
(* that slot of it.                                                        *)
HasSlot(env, i) == IsRef(env) /\ i \in DOMAIN objects[env[2]].slots

SlotOf(env, i) == IF HasSlot(env, i) THEN objects[env[2]].slots[i] ELSE Wild

EnvironmentNamed(c, env) == IF env = Current THEN c.e ELSE SlotOf(c.e, env)

EnvironmentAt(c, env, i) ==
  IF env = Inlined THEN StackTemporaryAt(c, i) ELSE SlotOf(EnvironmentNamed(c, env), i)

(* staticBindingFor_: a name that is looked up at run time is an instance  *)
(* variable of the receiver's class, else a name of the namespaces of the  *)
(* class or the module.                                                    *)
InstVarIndex(c, name) ==
  LET ivars == IF IsRef(c.s) THEN InstVars[objects[c.s[2]].class] ELSE <<>>
      here  == {i \in DOMAIN ivars : ivars[i] = name}
  IN IF here = {} THEN 0 ELSE CHOOSE i \in here : TRUE

StaticBindingFor(c, name) ==
  IF InstVarIndex(c, name) # 0 THEN SInstVarBinding(InstVarIndex(c, name))
  ELSE SAssociationBinding(name)

(* A dynamic binding is looked up once, with the receiver it meets first.  *)
LookupWithin(c, b) == IF b.b = "dynamic" THEN StaticBindingFor(c, b.name[1]) ELSE b

InstanceVarAt(c, i) ==
  IF IsRef(c.s) /\ i \in DOMAIN objects[c.s[2]].named THEN objects[c.s[2]].named[i] ELSE Wild

(* valueWithin_ of each class of binding.                                  *)
ValueWithin(c, b) ==
  CASE b.b = "nil"   -> Nil
    [] b.b = "true"  -> Bool(TRUE)
    [] b.b = "false" -> Bool(FALSE)
    [] b.b \in {"self", "super"} -> c.s
    [] b.b = "arg"   -> IF b.env = InStack THEN ArgumentAt(c, b.index) ELSE EnvironmentAt(c, b.env, b.index)
    [] b.b = "temp"  -> IF b.env = InStack THEN StackTemporaryAt(c, b.index) ELSE EnvironmentAt(c, b.env, b.index)
    [] b.b = "instVar" -> InstanceVarAt(c, b.index)
    [] b.b = "association" -> Globals[b.name]

LiteralValue(l) ==
  CASE l.tag = "Integer" -> Smi(l.int)
    [] l.tag = "Nil"     -> Nil
    [] l.tag = "Symbol"  -> <<"symbol", l.sym>>
    [] OTHER             -> <<"literal">>

-----------------------------------------------------------------------------
(* The fetch: nextOperation counts the PC first, so an operation runs with *)
(* the PC of the next one.                                                 *)

Fetched == [context EXCEPT !.pc = @ + 1]

HasOperation == context.pc < Len(Operations(work))

Op == Operations(work)[context.pc + 1]

Runs(k) == status = "running" /\ HasOperation /\ Op.k = k

KeepsCode == UNCHANGED <<methods, work, objects, status>>

Gives(v) == regR' = v /\ context' = Fetched /\ KeepsCode

(* The operation with what its binding was resolved to.                    *)
WithOperation(op) ==
  IF IsBlock(work) THEN [methods EXCEPT ![work[2]].code.codes[work[3]][context.pc + 1] = op]
  ELSE [methods EXCEPT ![work[2]].code.ops[context.pc + 1] = op]

VisitIdentifier ==
  LET b == LookupWithin(Fetched, Op.binding)
  IN /\ Runs("identifier")
     /\ regR' = ValueWithin(Fetched, b)
     /\ context' = Fetched
     /\ methods' = WithOperation([Op EXCEPT !.binding = b])
     /\ UNCHANGED <<work, objects, status>>

VisitLiteral == Runs("literal") /\ Gives(LiteralValue(Op.lit))

VisitOpLoadRfromFrame == Runs("loadFrame") /\ Gives(StackTemporaryAt(Fetched, Op.index))

VisitOpLoadRfromStack == Runs("loadStack") /\ Gives(OperandAt(Fetched, Op.index))

VisitOpLoadRwithNil == Runs("loadNil") /\ Gives(Nil)

VisitOpLoadRwithSelf == Runs("loadSelf") /\ Gives(Fetched.s)

Moves(c) == context' = c /\ UNCHANGED regR /\ KeepsCode

VisitOpDropToS == Runs("drop") /\ Moves(DropOperands(Fetched, Op.count))

VisitOpJump == Runs("jump") /\ Moves([context EXCEPT !.pc = Op.target])

VisitOpJumpIf(k, v) ==
  /\ Runs(k)
  /\ Moves([Fetched EXCEPT !.pc = IF regR = v THEN Op.target ELSE @])

VisitOpJumpTrue == VisitOpJumpIf("jumpTrue", Bool(TRUE))

VisitOpJumpFalse == VisitOpJumpIf("jumpFalse", Bool(FALSE))

VisitOpPushR == Runs("push") /\ Moves(Push(Fetched, regR))

VisitOpPopR ==
  /\ Runs("pop")
  /\ regR' = OperandAt(Fetched, 0)
  /\ context' = DropOperands(Fetched, 1)
  /\ KeepsCode

VisitOpStoreRintoFrame ==
  Runs("storeFrame") /\ Moves(StackTemporaryAtPut(Fetched, Op.index, regR))

(* One assignee: the compiler never writes more. The names of a module are *)
(* not assigned.                                                           *)
VisitOpAssign ==
  LET b   == LookupWithin(Fetched, Op.to[1].binding)
      env == EnvironmentNamed(Fetched, b.env)
      inFrame == b.b # "instVar" /\ b.env \in {InStack, Inlined}
  IN /\ Runs("assign")
     /\ context' = IF inFrame THEN StackTemporaryAtPut(Fetched, b.index, regR) ELSE Fetched
     /\ objects' =
          CASE inFrame -> objects
            [] b.b = "instVar" -> [objects EXCEPT ![Fetched.s[2]].named[b.index] = regR]
            [] OTHER -> IF HasSlot(env, b.index) THEN [objects EXCEPT ![env[2]].slots[b.index] = regR]
                        ELSE objects
     /\ status' = IF inFrame \/ b.b = "instVar" \/ HasSlot(env, b.index) THEN status ELSE "error"
     /\ methods' = WithOperation([Op EXCEPT !.to[1].binding = b])
     /\ UNCHANGED <<regR, work>>

-----------------------------------------------------------------------------
(* Closures.                                                               *)

(* What captureClosure_ puts in the closure: the bytes of the block's      *)
(* capture list are a kind, followed by an index for three of the kinds.   *)
RECURSIVE Captures(_, _)
Captures(c, bytes) ==
  IF bytes = <<>> THEN <<>>
  ELSE CASE bytes[1] = ClosureSelf -> <<c.s>> \o Captures(c, Tail(bytes))
         [] bytes[1] = ClosureEnvironment -> <<c.e>> \o Captures(c, Tail(bytes))
         [] OTHER ->
              <<CASE bytes[1] = EnvironmentValue -> SlotOf(c.e, bytes[2])
                  [] bytes[1] = LocalArgument    -> ArgumentAt(c, bytes[2])
                  [] bytes[1] = InlinedArgument  -> StackTemporaryAt(c, bytes[2])>>
              \o Captures(c, SubSeq(bytes, 3, Len(bytes)))

(* The number a frame has in Smalltalk, where the stack grows down, and    *)
(* back: framePointer and stackAt_.                                        *)
FrameNumber(bp) == StackSize + 1 - bp
(* Mutant: the home of a closure is the frame that makes it.               *)
HomeFrameCurrent(c) == Smi(FrameNumber(c.bp))

(* A closure made by a block has the home of the block.                    *)
HomeFrame(c) == IF IsBlock(c.m) THEN objects[c.e[2]].named[2] ELSE Smi(FrameNumber(c.bp))

CaptureClosure(c, n) ==
  LET code == CodeRef(c.m[2], n.index)
      got  == Captures(c, n.captured)
  IN [class |-> "Closure", named |-> <<code, HomeFrame(c)>>,
      slots |-> [i \in 1..CompiledBlockOf(code).envCount |-> IF i \in DOMAIN got THEN got[i] ELSE Nil]]

VisitBlockOp ==
  /\ Runs("block")
  /\ objects' = Append(objects, CaptureClosure(Fetched, Op))
  /\ regR' = Ref(Len(objects) + 1)
  /\ context' = Fetched
  /\ UNCHANGED <<methods, work, status>>

-----------------------------------------------------------------------------
(* Sends.                                                                  *)

BehaviorOf(v) ==
  CASE IsInt(v) -> "SmallInteger"
    [] v = Nil  -> "UndefinedObject"
    [] v[1] \in {"true", "false"} -> "Boolean"
    [] IsRef(v) -> objects[v[2]].class
    [] OTHER    -> "Object"

(* lookup_startingAt_: the first class up the chain that has the selector. *)
Lookup(sel, chain) ==
  LET having == SelectSeq(chain, LAMBDA k : <<k, sel>> \in DOMAIN methods)
  IN IF having = <<>> THEN <<>> ELSE <<having[1], sel>>

NewArray(slots) == [class |-> "Array", named |-> <<>>, slots |-> slots]

(* invoke_with_: a new environment when the method needs one, and a frame. *)
(* Its code is prepared too (Activation).                                  *)
Invoke(c, key, receiver) ==
  LET m     == methods[key]
      env   == IF m.hasEnvironment THEN Ref(Len(objects) + 1) ELSE Nil
      frame == BuildFrame(c, receiver, CodeRef(key, 0), env, m.tempCount)
  IN /\ objects' = IF m.hasEnvironment THEN Append(objects, NewArray([i \in 1..m.envCount |-> Nil]))
                   ELSE objects
     /\ work' = CodeRef(key, 0)
     /\ context' = frame
     /\ status' = IF Overflows(frame) THEN "error" ELSE status

Undermessages ==
  {<<"_returnTo:">>, <<"_error:">>, <<"_isSmallInteger">>}
  \cup {<<name>> : name \in UnderArithmetic \cup UnderComparisons}

StartingChain ==
  IF Op.super THEN Tail(Superclasses[Fetched.m[2][1]]) ELSE Superclasses[BehaviorOf(regR)]

DispatchToMethod ==
  /\ Runs("dispatch")
  /\ Op.sel \notin Undermessages
  /\ Lookup(Op.sel, StartingChain) # <<>>
  /\ Invoke(Fetched, Lookup(Op.sel, StartingChain), regR)
  /\ UNCHANGED regR

(* messageNotUnderstood_: selector and arguments are pushed over the       *)
(* arguments.                                                              *)
DoesNotUnderstand == <<"_doesNotUnderstand:", "with:">>

DispatchNotUnderstood ==
  LET c == Push(Push(Fetched, <<"symbol", Op.sel>>), <<"literal">>)
  IN /\ Runs("dispatch")
     /\ Op.sel \notin Undermessages
     /\ Lookup(Op.sel, StartingChain) = <<>>
     /\ Invoke(c, Lookup(DoesNotUnderstand, Superclasses[BehaviorOf(regR)]), regR)
     /\ UNCHANGED regR

(* evaluateUndermessage_with_ takes the arguments off the stack and leaves *)
(* their slots reserved.                                                   *)
UnderprimitiveIsSmallInteger ==
  Runs("dispatch") /\ Op.sel = <<"_isSmallInteger">> /\ Gives(Bool(IsInt(regR)))

UnderprimitiveSMI ==
  LET b == OperandAt(Fetched, 0)[2]
      r == Calculated(Op.sel[1], regR[2], b)
  IN /\ Runs("dispatch")
     /\ \/ /\ Op.sel[1] \in UnderArithmetic
           /\ Gives(IF r = <<>> THEN Nil ELSE Smi(r[1]))
        \/ /\ Op.sel[1] \in UnderComparisons
           /\ Gives(Bool(Compared(Op.sel[1], regR[2], b)))

UnderprimitiveError ==
  /\ Runs("dispatch")
  /\ Op.sel = <<"_error:">>
  /\ status' = "error"
  /\ UNCHANGED <<methods, context, regR, work, objects>>

(* underprimitiveReturnTo: the receiver is the value, the argument the     *)
(* frame to return from.                                                   *)
ReturnFrom(c, home) == PopFrame([c EXCEPT !.bp = home])

UnderprimitiveReturnTo ==
  /\ Runs("dispatch")
  /\ Op.sel = <<"_returnTo:">>
  /\ context' = ReturnFrom(Fetched, FrameNumber(OperandAt(Fetched, 0)[2]))
  /\ work' = context'.m
  /\ UNCHANGED <<methods, regR, objects, status>>

-----------------------------------------------------------------------------
(* Returns.                                                                *)

VisitOpReturn ==
  /\ Runs("return")
  /\ context' = PopFrame(Fetched)
  /\ work' = context'.m
  /\ UNCHANGED <<methods, regR, objects, status>>

(* The value is pushed as the argument of Closure>>return:, which is sent  *)
(* to the running closure.                                                 *)
ClosureReturnMethod == <<"Closure", <<"return:">>>>

VisitOpNonLocalReturn ==
  /\ Runs("nonLocalReturn")
  /\ Invoke(Push(Fetched, regR), ClosureReturnMethod, Fetched.e)
  /\ UNCHANGED regR

-----------------------------------------------------------------------------
(* Primitives. One that fails skips the return after it.                   *)

IsPrimitive(name) == Runs("primitive") /\ Op.name = name

FailPrimitive ==
  /\ context' = [Fetched EXCEPT !.pc = @ + 1]
  /\ UNCHANGED regR
  /\ KeepsCode

Argument == ArgumentAt(Fetched, 1)

(* The primitives on small integers. Those that do not check the argument  *)
(* read what is there as a number.                                         *)
PrimitiveSMIArithmetic ==
  LET r == Calculated(Op.name, Fetched.s[2], Argument[2])
  IN /\ Runs("primitive") /\ Op.name \in Arithmetic
     /\ CASE ~IsInt(Argument) -> IF Op.name \in ChecksArgument THEN FailPrimitive ELSE Gives(Wild)
          [] r = <<>> -> FailPrimitive
          [] OTHER -> Gives(Smi(r[1]))

PrimitiveSMIComparison ==
  /\ Runs("primitive") /\ Op.name \in Comparisons
  /\ IF IsInt(Argument) THEN Gives(Bool(Compared(Op.name, Fetched.s[2], Argument[2]))) ELSE FailPrimitive

PrimitiveSMIHighBit ==
  IsPrimitive("SMIHighBit") /\ Gives(Smi(primitiveSMIHighBit(Fetched.s[2])[1]))

PrimitiveEqual == IsPrimitive("Equal") /\ Gives(Bool(Fetched.s = Argument))

PrimitiveNewSized ==
  /\ IsPrimitive("NewSized")
  /\ objects' = Append(objects, NewArray([i \in 1..Argument[2] |-> Nil]))
  /\ regR' = Ref(Len(objects) + 1)
  /\ context' = Fetched
  /\ UNCHANGED <<methods, work, status>>

PrimitiveAt ==
  /\ IsPrimitive("At")
  /\ IF IsInt(Argument) /\ HasSlot(Fetched.s, Argument[2])
       THEN Gives(SlotOf(Fetched.s, Argument[2])) ELSE FailPrimitive

PrimitiveAtPut ==
  /\ IsPrimitive("AtPut")
  /\ objects' = [objects EXCEPT ![Fetched.s[2]].slots[Argument[2]] = ArgumentAt(Fetched, 2)]
  /\ regR' = Fetched.s
  /\ context' = Fetched
  /\ UNCHANGED <<methods, work, status>>

PrimitiveSize == IsPrimitive("Size") /\ Gives(Smi(Len(objects[Fetched.s[2]].slots)))

(* The stack as the process sees it. The frame is the one of bp itself.    *)
PrimitiveProcessBP == IsPrimitive("ProcessVMStackBP") /\ Gives(Smi(FrameNumber(Fetched.bp)))

PrimitiveProcessStackAt ==
  IsPrimitive("ProcessVMStackAt") /\ Gives(StackAt(Fetched, FrameNumber(Argument[2])))

(* evaluateClosure_withArgs_: the frame of value gives way to the one of   *)
(* the block, so the block finds the arguments of value as its own.        *)
PrimitiveClosureValue ==
  LET closure  == objects[Fetched.s[2]]
      block    == closure.named[1]
      receiver == IF CompiledBlockOf(block).capturesSelf THEN closure.slots[1] ELSE Nil
      frame    == BuildFrame(PopFrame(Fetched), receiver, block, Fetched.s,
                             TemporaryCountOf(block))
  IN /\ IsPrimitive("ClosureValue") \/ IsPrimitive("ClosureValueWithArgs")
     /\ work' = block
     /\ context' = frame
     /\ regR' = receiver
     /\ status' = IF Overflows(frame) THEN "error" ELSE status
     /\ UNCHANGED objects

(* evaluatePerform_in_withArgs_: the arguments go on top of the frame of   *)
(* perform:.                                                               *)
PrimitivePerformWithArguments ==
  LET sel  == Argument[2]
      args == objects[ArgumentAt(Fetched, 2)[2]].slots
      key  == Lookup(sel, Superclasses[BehaviorOf(Fetched.s)])
  IN /\ IsPrimitive("PerformWithArguments")
     /\ Invoke([Fetched EXCEPT !.stack = @ \o args], key, Fetched.s)
     /\ regR' = Fetched.s

-----------------------------------------------------------------------------
(* send_to_with_: a frame of a method that only sends the message, and the *)
(* evaluation until its code is over.                                      *)

Launcher == <<"", <<"launch">>>>

LaunchMethod(sel, argc) ==
  [literals |-> <<>>, selector |-> <<"launch">>, argCount |-> 0, blockCount |-> 0,
   tempCount |-> 0, envCount |-> 0, capturesSelf |-> FALSE, hasEnvironment |-> FALSE,
   hasFrame |-> TRUE, treecodes |-> <<>>,
   code |-> [ops |-> <<SOpDispatchMessage(sel, argc, FALSE)>>, codes |-> <<>>]]

SendTo(sel, receiver, args) ==
  LET frame    == BuildFrame(context, Nil, CodeRef(Launcher, 0), Nil, 0)
      operands == IF args = <<>> THEN <<>> ELSE <<receiver>> \o args
  IN /\ methods' = (Launcher :> LaunchMethod(sel, Len(args))) @@ methods
     /\ context' = [frame EXCEPT !.stack = @ \o operands]
     /\ work' = CodeRef(Launcher, 0)
     /\ regR' = receiver
     /\ status' = "running"

(* The evaluation is over when the code is: popLaunchFrame.                *)
Finish ==
  LET bp == context.stack[context.bp][2]
  IN /\ status = "running"
     /\ ~HasOperation
     /\ context' = [stack |-> SubSeq(context.stack, 1, context.bp - 2),
                    bp    |-> bp,
                    pc    |-> context.stack[context.bp - 1][2],
                    e     |-> Nil,
                    m     |-> IF bp = 0 THEN context.m ELSE StackAt(context, bp + 2),
                    s     |-> IF bp = 0 THEN context.s ELSE StackAt(context, bp + 1)]
     /\ status' = "done"
     /\ UNCHANGED <<methods, regR, work, objects>>

(* An activation, of a method or of a block, prepares the code it runs.    *)
Activation ==
  /\ \/ DispatchToMethod \/ DispatchNotUnderstood \/ VisitOpNonLocalReturn
     \/ PrimitiveClosureValue \/ PrimitivePerformWithArguments
  /\ methods' = Prepared(work'[2])

RunStep ==
  \/ VisitIdentifier \/ VisitLiteral \/ VisitBlockOp \/ VisitOpAssign
  \/ VisitOpLoadRfromFrame \/ VisitOpLoadRfromStack \/ VisitOpLoadRwithNil \/ VisitOpLoadRwithSelf
  \/ VisitOpStoreRintoFrame \/ VisitOpDropToS \/ VisitOpPushR \/ VisitOpPopR
  \/ VisitOpJump \/ VisitOpJumpTrue \/ VisitOpJumpFalse
  \/ Activation
  \/ UnderprimitiveIsSmallInteger \/ UnderprimitiveSMI \/ UnderprimitiveError \/ UnderprimitiveReturnTo
  \/ VisitOpReturn
  \/ PrimitiveSMIArithmetic \/ PrimitiveSMIComparison \/ PrimitiveSMIHighBit
  \/ PrimitiveEqual \/ PrimitiveNewSized
  \/ PrimitiveAt \/ PrimitiveAtPut \/ PrimitiveSize \/ PrimitiveProcessBP \/ PrimitiveProcessStackAt
  \/ Finish
=============================================================================
