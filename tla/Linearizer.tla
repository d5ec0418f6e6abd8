----------------------------- MODULE Linearizer -----------------------------
(***************************************************************************)
(* SExpressionLinearizer: the tree of a method becomes the operations the  *)
(* evaluator runs, one sequence for the method and one for each block that *)
(* is not inlined.                                                         *)
(*                                                                         *)
(* The visitor's state is a record:                                        *)
(*   ops      the operations of the script being visited (_operations)     *)
(*   top      the operands and temporaries in its frame (_stackTop), which *)
(*            is where a loop keeps its limit                              *)
(*   inBlock  whether the script is a block (_inBlock)                     *)
(*   codes    the operations of the blocks done, by literal                *)
(*   pool     the literals of the method, with the compiled blocks         *)
(* A jump is emitted with target 0 and patched when its target is known; a *)
(* target is the number of operations before it.                           *)
(***************************************************************************)
EXTENDS SExpressions, TLC, SequencesExt

Emit(l, op) == [l EXCEPT !.ops = Append(@, op)]

PC(l) == Len(l.ops)

BranchIf(bool, target) == IF bool THEN SOpJumpTrue(target) ELSE SOpJumpFalse(target)

(* branchTargetOf_: operation i, a jump, comes here.                       *)
BranchTargetOf(l, i) == [l EXCEPT !.ops[i].target = PC(l)]

PushR(l) == [Emit(l, SOpPushR) EXCEPT !.top = @ + 1]

PopR(l) == [Emit(l, SOpPopR) EXCEPT !.top = @ - 1]

DropToS(l, n) == [Emit(l, SOpDropToS(n)) EXCEPT !.top = @ - n]

(* The caller drops the arguments, and the receiver that was pushed with   *)
(* them.                                                                   *)
DropMessageArgs(l, argc) == IF argc = 0 THEN l ELSE DropToS(l, argc + 1)

DropCascadeMessageArgs(l, argc) == IF argc = 0 THEN l ELSE DropToS(l, argc)
(* Mutant: a return in a block leaves the block only.                      *)
ReturnOpOfBlock(l, local) == Emit(l, SOpReturn)

ReturnOp(l, local) == Emit(l, IF local /\ ~l.inBlock THEN SOpReturn ELSE SOpNonLocalReturn)

IsSuper(n) == n.k = "identifier" /\ n.binding = SSuperBinding

Dispatch(l, rcv, sel, argc) == Emit(l, SOpDispatchMessage(sel, argc, IsSuper(rcv)))

One == SLiteral(-1, [tag |-> "Integer", int |-> 1])

NilLiteral == SLiteral(-1, [tag |-> "Nil"])

IsReturn(n) == n.k = "return"

InlinedArgs(n) == IF n.k = "block" THEN n.args ELSE <<>>

-----------------------------------------------------------------------------
RECURSIVE Linearize(_, _), VisitAll(_, _), PushAll(_, _)

VisitAll(l, ns) == IF ns = <<>> THEN l ELSE VisitAll(Linearize(l, Head(ns)), Tail(ns))

PushAll(l, ns) == IF ns = <<>> THEN l ELSE PushAll(PushR(Linearize(l, Head(ns))), Tail(ns))

VisitMessage(l, rcv, sel, args) ==
  LET argc   == Len(args)
      onR    == Linearize(l, rcv)
      pushed == IF argc = 0 THEN onR
                ELSE Emit(PushAll(PushR(onR), args), SOpLoadRfromStack(argc))
  IN DropMessageArgs(Dispatch(pushed, rcv, sel, argc), argc)

(* if_, ifTrueIfFalse_: the receiver, a branch over the first block, and   *)
(* for the other case the second block or nil.                             *)
InlineIf(l, m, bool) ==
  LET rcv    == Linearize(l, m.rcv)
      branch == Emit(rcv, BranchIf(~bool, 0))
      then   == Emit(VisitAll(branch, m.args[1].body), SOpJump(0))
      other  == BranchTargetOf(then, PC(branch))
      done   == IF Len(m.args) = 1 THEN Emit(other, SOpLoadRwithNil)
                ELSE VisitAll(other, m.args[2].body)
  IN BranchTargetOf(done, PC(then))

(* The value that is compared with nil stays on the stack, and in the slot *)
(* of the argument of the block that takes it.                             *)
CompareWithNil(l, m, takes, bool) ==
  LET rcv    == Linearize(l, m.rcv)
      stored == IF Len(InlinedArgs(takes)) = 1
                  THEN Emit(rcv, SOpStoreRintoFrame(InlinedArgs(takes)[1])) ELSE rcv
      asked  == VisitMessage(PushR(stored), SOpLoadRfromStack(0), <<"==">>, <<NilLiteral>>)
  IN Emit(asked, BranchIf(~bool, 0))

VisitBranch(l, n) == IF n.k = "block" THEN VisitAll(l, n.body) ELSE Linearize(l, n)

InlineIfNil(l, m, bool) ==
  LET branch == CompareWithNil(l, m, m.args[1], bool)
      then   == Emit(DropToS(VisitBranch(branch, m.args[1]), 1), SOpJump(0))
      other  == PopR(BranchTargetOf(then, PC(branch)))
  IN BranchTargetOf(other, PC(then))

InlineIfNilIfNotNil(l, m, bool) ==
  LET branch == CompareWithNil(l, m, IF bool THEN m.args[2] ELSE m.args[1], bool)
      then   == Emit(VisitBranch(branch, m.args[1]), SOpJump(0))
      other  == VisitBranch(BranchTargetOf(then, PC(branch)), m.args[2])
  IN DropToS(BranchTargetOf(other, PC(then)), 1)

InlineUnitaryWhile(l, m, bool) ==
  Emit(VisitAll(l, m.rcv.body), BranchIf(bool, PC(l)))

InlineBinaryWhile(l, m, bool) ==
  LET branch == Emit(VisitAll(l, m.rcv.body), BranchIf(~bool, 0))
      again  == Emit(VisitAll(branch, m.args[1].body), SOpJump(PC(l)))
  IN BranchTargetOf(again, PC(branch))

InlineRepeat(l, m) == Emit(VisitAll(l, m.rcv.body), SOpJump(PC(l)))
(* Mutant: the counter is not stored after it is incremented.              *)
CountedLoopNotStored(l, counter, body, drop) ==
  LET asked  == VisitMessage(l, SOpLoadRfromFrame(counter), <<">">>, <<SOpLoadRfromFrame(l.top)>>)
      branch == Emit(asked, SOpJumpTrue(0))
      done   == VisitAll(branch, body)
      next   == VisitMessage(done, SOpLoadRfromFrame(counter), <<"+">>, <<One>>)
      again  == Emit(next, SOpJump(PC(l)))
  IN DropToS(BranchTargetOf(again, PC(branch)), drop)

(* The body of a counted loop: the counter is in one slot of the frame,    *)
(* the limit on top of the operands.                                       *)
CountedLoop(l, counter, body, drop) ==
  LET asked  == VisitMessage(l, SOpLoadRfromFrame(counter), <<">">>, <<SOpLoadRfromFrame(l.top)>>)
      branch == Emit(asked, SOpJumpTrue(0))
      done   == VisitAll(branch, body)
      next   == Emit(VisitMessage(done, SOpLoadRfromFrame(counter), <<"+">>, <<One>>),
                     SOpStoreRintoFrame(counter))
      again  == Emit(next, SOpJump(PC(l)))
  IN DropToS(BranchTargetOf(again, PC(branch)), drop)

InlineToDo(l, m) ==
  LET counter == m.args[2].args[1]
      start   == Emit(Linearize(l, m.rcv), SOpStoreRintoFrame(counter))
  IN CountedLoop(PushR(Linearize(start, m.args[1])), counter, m.args[2].body, 1)

InlineTimesRepeat(l, m) ==
  LET first == PushR(Emit(l, One))
      limit == PushR(Linearize(first, m.rcv))
  IN CountedLoop(limit, first.top, m.args[1].body, 2)

InlineNot(l, m, bool) ==
  LET branch == Emit(Linearize(l, m.rcv), BranchIf(bool, 0))
      done   == Dispatch(VisitAll(branch, m.args[1].body), NilLiteral, <<"not">>, 0)
  IN BranchTargetOf(done, PC(branch))

(* inlineAnd_, inlineOr_: a branch before each block, all to the end.      *)
InlineAll(l, m, bool) ==
  LET one(acc, a) == [code   |-> VisitAll(Emit(acc.code, BranchIf(bool, 0)), a.body),
                      jumps  |-> Append(acc.jumps, PC(acc.code) + 1)]
      all == FoldLeft(one, [code |-> Linearize(l, m.rcv), jumps |-> <<>>], m.args)
  IN FoldLeft(BranchTargetOf, all.code, all.jumps)

VisitInlinedMessage(l, m) ==
  CASE m.sel \in {<<"ifTrue:">>, <<"ifTrue:", "ifFalse:">>}  -> InlineIf(l, m, TRUE)
    [] m.sel \in {<<"ifFalse:">>, <<"ifFalse:", "ifTrue:">>} -> InlineIf(l, m, FALSE)
    [] m.sel = <<"ifNil:">>        -> InlineIfNil(l, m, TRUE)
    [] m.sel = <<"ifNotNil:">>     -> InlineIfNil(l, m, FALSE)
    [] m.sel = <<"ifNil:", "ifNotNil:">> -> InlineIfNilIfNotNil(l, m, TRUE)
    [] m.sel = <<"ifNotNil:", "ifNil:">> -> InlineIfNilIfNotNil(l, m, FALSE)
    [] m.sel = <<"whileTrue">>     -> InlineUnitaryWhile(l, m, TRUE)
    [] m.sel = <<"whileFalse">>    -> InlineUnitaryWhile(l, m, FALSE)
    [] m.sel = <<"whileTrue:">>    -> InlineBinaryWhile(l, m, TRUE)
    [] m.sel = <<"whileFalse:">>   -> InlineBinaryWhile(l, m, FALSE)
    [] m.sel = <<"repeat">>        -> InlineRepeat(l, m)
    [] m.sel = <<"to:", "do:">>    -> InlineToDo(l, m)
    [] m.sel = <<"timesRepeat:">>  -> InlineTimesRepeat(l, m)
    [] m.sel = <<"andNot:">>       -> InlineNot(l, m, FALSE)
    [] m.sel = <<"orNot:">>        -> InlineNot(l, m, TRUE)
    [] m.sel[1] = "or:"            -> InlineAll(l, m, TRUE)
    [] m.sel[1] = "and:"           -> InlineAll(l, m, FALSE)

VisitCascade(l, n) ==
  LET send(acc, msg) ==
        LET argc == Len(msg.args)
            args == PushAll(acc, msg.args)
        IN DropCascadeMessageArgs(
             Dispatch(Emit(args, SOpLoadRfromStack(argc)), n.rcv, msg.sel, argc), argc)
  IN DropToS(FoldLeft(send, PushR(Linearize(l, n.rcv)), n.msgs), 1)

(* The code of a closure: its value is the value of its last statement,    *)
(* nil when it has none.                                                   *)
VisitBlock(l, n) ==
  LET start == [Emit(l, n) EXCEPT !.ops = <<>>, !.inBlock = TRUE,
                                  !.top = IF n.inlined THEN l.top ELSE l.pool[n.index].tempCount]
      body  == VisitAll(start, n.body)
      done  == IF n.body = <<>> THEN Emit(Emit(body, SOpLoadRwithNil), SOpReturn)
               ELSE IF IsReturn(Last(n.body)) THEN body ELSE Emit(body, SOpReturn)
  IN [Emit(l, n) EXCEPT !.codes = IF n.inlined THEN done.codes
                                  ELSE (n.index :> done.ops) @@ done.codes]

Linearize(l, n) ==
  CASE n.k \in {"identifier", "literal", "loadFrame", "loadStack"} -> Emit(l, n)
    [] n.k = "assignment" -> Emit(Linearize(l, n.expr), SOpAssign(n.to))
    [] n.k = "return"     -> ReturnOp(Linearize(l, n.expr), n.local)
    [] n.k = "block"      -> VisitBlock(l, n)
    [] n.k = "cascade"    -> VisitCascade(l, n)
    [] n.k = "message"    -> IF n.inlined THEN VisitInlinedMessage(l, n)
                             ELSE VisitMessage(l, n.rcv, n.sel, n.args)

(* A primitive is tried first and returns unless it fails; then come the   *)
(* statements, and a method without a return gives the receiver.           *)
VisitMethod(m, pool, tempCount) ==
  LET empty == [ops |-> <<>>, top |-> tempCount, inBlock |-> FALSE, codes |-> <<>>,
                pool |-> pool]
      prim  == IF m.pragma = <<>> THEN empty
               ELSE Emit(Emit(empty, SOpPrimitive(m.pragma[1])), SOpReturn)
      ended(body) == IF m.body # <<>> /\ IsReturn(Last(m.body)) THEN body
                     ELSE Emit(Emit(body, SOpLoadRwithSelf), SOpReturn)
  IN ended(VisitAll(prim, m.body))
=============================================================================
