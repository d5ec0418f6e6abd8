---------------------------- MODULE SExpressions ----------------------------
(***************************************************************************)
(* What the runtime executes: the expressions the decoder reads from the   *)
(* treecodes of a method, and the operations the linearizer makes of them  *)
(* (runtime/cpp/Evaluator/S*.h).  Bindings, expressions and operations are *)
(* records; the field k names the class.                                   *)
(***************************************************************************)
EXTENDS Integers, Sequences

(* Environments of a local binding.                                        *)
InStack == -2
Inlined == -1
Current == 0

SNilBinding   == [b |-> "nil"]
STrueBinding  == [b |-> "true"]
SFalseBinding == [b |-> "false"]
SSelfBinding  == [b |-> "self"]
SSuperBinding == [b |-> "super"]
SArgumentBinding(index, env)  == [b |-> "arg", index |-> index, env |-> env]
STemporaryBinding(index, env) == [b |-> "temp", index |-> index, env |-> env]
SDynamicBinding(name) == [b |-> "dynamic", name |-> name]

(* What a dynamic binding is resolved to.                                  *)
SInstVarBinding(index)     == [b |-> "instVar", index |-> index]
SAssociationBinding(name) == [b |-> "association", name |-> name]

-----------------------------------------------------------------------------
(* Expressions. index is the place of the literal in the pool, 0 for an    *)
(* integer written in the treecodes.                                       *)

SIdentifier(binding) == [k |-> "identifier", binding |-> binding]

SLiteral(index, value) == [k |-> "literal", index |-> index, lit |-> value]

SMessage(rcv, sel, args, inlined) ==
  [k |-> "message", rcv |-> rcv, sel |-> sel, args |-> args, inlined |-> inlined]

SCascadeMessage(sel, args) == [sel |-> sel, args |-> args]

SCascade(rcv, msgs) == [k |-> "cascade", rcv |-> rcv, msgs |-> msgs]

SAssignment(assignees, expr) == [k |-> "assignment", to |-> assignees, expr |-> expr]

SReturn(local, expr) == [k |-> "return", local |-> local, expr |-> expr]

(* An inlined block has the slots of its arguments, any other one the      *)
(* literal of its code and what it captures.                               *)
SInlinedBlock(args, stmts) ==
  [k |-> "block", inlined |-> TRUE, args |-> args, index |-> 0, captured |-> <<>>,
   body |-> stmts]

SBlock(index, captured, stmts) ==
  [k |-> "block", inlined |-> FALSE, args |-> <<>>, index |-> index, captured |-> captured,
   body |-> stmts]

SMethod(pragma, stmts) == [k |-> "method", pragma |-> pragma, body |-> stmts]

-----------------------------------------------------------------------------
(* Operations. An identifier, a literal and a block are operations too.    *)

SOpAssign(assignees)  == [k |-> "assign", to |-> assignees]
SOpJump(target)       == [k |-> "jump", target |-> target]
SOpJumpTrue(target)   == [k |-> "jumpTrue", target |-> target]
SOpJumpFalse(target)  == [k |-> "jumpFalse", target |-> target]
SOpDispatchMessage(sel, argc, toSuper) ==
  [k |-> "dispatch", sel |-> sel, argc |-> argc, super |-> toSuper]
SOpDropToS(count)        == [k |-> "drop", count |-> count]
SOpLoadRfromFrame(index) == [k |-> "loadFrame", index |-> index]
SOpLoadRfromStack(index) == [k |-> "loadStack", index |-> index]
SOpLoadRwithNil       == [k |-> "loadNil"]
SOpLoadRwithSelf      == [k |-> "loadSelf"]
SOpStoreRintoFrame(index) == [k |-> "storeFrame", index |-> index]
SOpPopR               == [k |-> "pop"]
SOpPushR              == [k |-> "push"]
SOpPrimitive(name)    == [k |-> "primitive", name |-> name]
SOpReturn             == [k |-> "return"]
SOpNonLocalReturn     == [k |-> "nonLocalReturn"]
=============================================================================
