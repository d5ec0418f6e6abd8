------------------------------ MODULE Meaning -------------------------------
(***************************************************************************)
(* What a method means, read from its parse tree alone: the reference for  *)
(* the compiler, the treecodes, the linearizer and the evaluator.  Every   *)
(* block is a closure, every message a send; nothing is inlined, numbered  *)
(* or kept in frames.                                                      *)
(*                                                                         *)
(* The world w has the methods of the program by class and selector, the   *)
(* store of the variables and the count of activations so far.  An         *)
(* evaluation gives the value v, the world after it and the activation a   *)
(* return leaves: Normal when there is none, Failure after an              *)
(* error.  x is the activation: where the names in scope are kept, the     *)
(* receiver, the class of the method and the home of a return.             *)
(***************************************************************************)
EXTENDS ParseNodes, TLC

CONSTANTS Ancestors, \* per class, the class and its superclasses
          Numbers    \* the integers a sum may give

Normal == 0
Failure == -1

Done(v, w) == [v |-> v, w |-> w, exit |-> Normal]

Error(w) == [v |-> <<"nil">>, w |-> w, exit |-> Failure]

(* What is evaluated after r, if there was no return or error.             *)
After(r, Rest(_)) == IF r.exit # Normal THEN r ELSE Rest(r)

ClassOf(v) ==
  CASE v[1] = "int" -> "SmallInteger"
    [] v[1] = "nil" -> "UndefinedObject"
    [] v[1] \in {"true", "false"} -> "Boolean"
    [] v[1] = "closure" -> "Closure"
    [] v[1] = "array" -> "Array"
    [] OTHER -> IF v = <<"ref", 3>> THEN "Other" ELSE "Main"

(* Fresh variables for the names, the first ones holding the values.       *)
WithNames(x, w, names, values) ==
  [x |-> [x EXCEPT !.at = [n \in Range(names) |-> Len(w.store) + CHOOSE i \in DOMAIN names : names[i] = n] @@ @],
   w |-> [w EXCEPT !.store = @ \o [i \in DOMAIN names |-> IF i \in DOMAIN values THEN values[i] ELSE <<"nil">>]]]

RECURSIVE Eval(_, _, _), EvalAll(_, _, _), EvalEach(_, _, _), Send(_, _, _, _), Loop(_, _, _, _, _)

EvalBody(n, b) == EvalAll(n.body, b.x, b.w)

Call(closure, args, w) ==
  EvalBody(closure[2], WithNames(closure[3], w, closure[2].params \o closure[2].temps, args))

(* An argument that is not a block stands for itself.                      *)
Evaluate(v, args, w) ==
  IF v[1] = "closure" THEN Call(v, SubSeq(args, 1, Len(v[2].params)), w) ELSE Done(v, w)

EvalAll(ns, x, w) ==
  IF ns = <<>> THEN Done(<<"nil">>, w)
  ELSE After(Eval(ns[1], x, w), LAMBDA r : IF Len(ns) = 1 THEN r ELSE EvalAll(Tail(ns), x, r.w))

(* The values of the nodes, in v.                                          *)
EvalEach(ns, x, w) ==
  IF ns = <<>> THEN Done(<<>>, w)
  ELSE After(Eval(ns[1], x, w), LAMBDA r :
       After(EvalEach(Tail(ns), x, r.w), LAMBDA rest : [rest EXCEPT !.v = <<r.v>> \o @]))

(* A method that does not return has the receiver as its value.            *)
Left(r, home, rcv) ==
  CASE r.exit = home   -> [r EXCEPT !.exit = Normal]
    [] r.exit = Normal -> [r EXCEPT !.v = rcv]
    [] OTHER           -> r

Activate(key, rcv, args, w) ==
  LET m == w.sources[key]
      home == w.count + 1
      x == [at |-> [iv |-> IF rcv = <<"ref", 3>> THEN 2 ELSE 1], self |-> rcv, class |-> key[1], home |-> home]
  IN Left(EvalBody(m, WithNames(x, [w EXCEPT !.count = home], m.params \o m.temps, args)), home, rcv)

(* i runs to limit while the block is evaluated.                           *)
Loop(i, limit, block, args, w) ==
  IF i > limit THEN Done(<<"nil">>, w)
  ELSE After(Evaluate(block, IF args THEN <<<<"int", i>>>> ELSE <<>>, w),
             LAMBDA r : Loop(i + 1, limit, block, args, r.w))

RECURSIVE While(_, _, _, _)
While(test, until, block, w) ==
  After(Evaluate(test, <<>>, w), LAMBDA c :
    IF c.v = until THEN c
    ELSE After(Evaluate(block, <<>>, c.w), LAMBDA r : While(test, until, block, r.w)))

IsTrue(v) == v = <<"true">>

MethodFor(w, sel, chain) ==
  LET having == SelectSeq(chain, LAMBDA k : <<k, sel>> \in DOMAIN w.sources)
  IN IF having = <<>> THEN <<>> ELSE <<having[1], sel>>

(* Numbers, as a mathematician has them. The floor is the largest multiple *)
(* below; bits are those of an endless two's complement.                   *)
Magnitude(a) == IF a < 0 THEN -a ELSE a

Floor(a, b) ==
  CHOOSE q \in -Magnitude(a) .. Magnitude(a) :
    LET r == a - q * b IN Magnitude(r) < Magnitude(b) /\ r * b >= 0

Truncated(a, b) ==
  CHOOSE q \in -Magnitude(a) .. Magnitude(a) :
    Magnitude(q * b) <= Magnitude(a) /\ Magnitude(a - q * b) < Magnitude(b) /\ q * a * b >= 0

Bit(op, x, y) == CASE op = "and" -> x * y [] op = "or" -> x + y - x * y [] op = "xor" -> (x + y) % 2

RECURSIVE Bitwise(_, _, _)
Bitwise(op, a, b) ==
  IF {a, b} \subseteq {0, -1} THEN -Bit(op, -a, -b)
  ELSE Bit(op, a % 2, b % 2) + 2 * Bitwise(op, a \div 2, b \div 2)

Calculation ==
  [plus |-> {"+", "_smiPlus:"}, minus |-> {"-", "_smiMinus:"}, times |-> {"*", "_smiTimes:"},
   floor |-> {"//"}, mod |-> {"\\\\"}, quo |-> {"_quotientTowardZero:"}, rem |-> {"_remainderTowardZero:"},
   and |-> {"bitAnd:", "_smiBitAnd:"}, or |-> {"bitOr:", "_smiBitOr:"}, xor |-> {"bitXor:"},
   shift |-> {"bitShift:", "_bitShiftLeft:"}, right |-> {"_bitShiftRight:"}]

Exact(op, a, b) ==
  CASE op = "plus"  -> a + b
    [] op = "minus" -> a - b
    [] op = "times" -> a * b
    [] op = "floor" -> Floor(a, b)
    [] op = "mod"   -> a - b * Floor(a, b)
    [] op = "quo"   -> Truncated(a, b)
    [] op = "rem"   -> a - b * Truncated(a, b)
    [] op \in {"and", "or", "xor"} -> Bitwise(op, a, b)
    [] op = "shift" -> IF b > 0 THEN a * 2 ^ b ELSE a \div 2 ^ (-b)
    [] op = "right" -> a \div 2 ^ b

IsCalculation(sel) == \E op \in DOMAIN Calculation : sel[1] \in Calculation[op]

NilOutside == {"_smiPlus:", "_smiMinus:", "_smiTimes:", "_bitShiftLeft:"}

(* A result that is no SmallInteger is an error, the large integers of the *)
(* Kernel being left out; an undermessage has nil.                         *)
Calculate(sel, a, b, w) ==
  LET op == CHOOSE o \in DOMAIN Calculation : sel[1] \in Calculation[o]
      fitted(n) == IF n \in Numbers THEN Done(<<"int", n>>, w)
                   ELSE IF sel[1] \in NilOutside THEN Done(<<"nil">>, w) ELSE Error(w)
  IN fitted(Exact(op, a, b))

Order ==
  [eq |-> {"=", "_smiEquals:"}, ne |-> {"!="}, gt |-> {">", "_smiGreaterThan:"}, ge |-> {">=", "_smiGreaterEqualThan:"},
   lt |-> {"_smiLowerThan:"}, le |-> {"_smiLowerEqualThan:"}]

IsOrder(sel) == \E op \in DOMAIN Order : sel[1] \in Order[op]

InOrder(sel, a, b) ==
  \/ sel[1] \in Order.lt \cup Order.le \cup Order.ne /\ a < b
  \/ sel[1] \in Order.eq \cup Order.le \cup Order.ge /\ a = b
  \/ sel[1] \in Order.gt \cup Order.ge \cup Order.ne /\ a > b

Truth(b) == IF b THEN <<"true">> ELSE <<"false">>

(* What the Kernel defines for the messages that need no frame.            *)
Send(rcv, sel, args, w) ==
  CASE IsCalculation(sel) ->
         IF rcv[1] = "int" /\ args[1][1] = "int" THEN Calculate(sel, rcv[2], args[1][2], w) ELSE Error(w)
    [] IsOrder(sel) -> Done(Truth(InOrder(sel, rcv[2], args[1][2])), w)
    [] sel = <<"highBit">> -> Done(<<"int", CHOOSE k \in 0 .. rcv[2] : (IF k = 0 THEN 0 ELSE 2 ^ (k - 1)) <= rcv[2] /\ rcv[2] < 2 ^ k>>, w)
    [] sel = <<"_isSmallInteger">> -> Done(IF rcv[1] = "int" THEN <<"true">> ELSE <<"false">>, w)
    [] sel = <<"not">> -> Done(IF IsTrue(rcv) THEN <<"false">> ELSE <<"true">>, w)
    [] sel \in {<<"value">>, <<"value:">>} -> Call(rcv, args, w)
    [] sel = <<"ensure:">> ->
         LET ensured(r) == After(Call(args[1], <<>>, r.w), LAMBDA e : [r EXCEPT !.w = e.w])
             left(r)    == IF r.exit = Failure THEN r ELSE ensured(r)
         IN left(Call(rcv, <<>>, w))
    [] sel = <<"ifTrue:">> -> IF IsTrue(rcv) THEN Evaluate(args[1], <<>>, w) ELSE Done(<<"nil">>, w)
    [] sel = <<"ifFalse:">> -> IF ~IsTrue(rcv) THEN Evaluate(args[1], <<>>, w) ELSE Done(<<"nil">>, w)
    [] sel = <<"ifTrue:", "ifFalse:">> -> Evaluate(args[IF IsTrue(rcv) THEN 1 ELSE 2], <<>>, w)
    [] sel = <<"ifFalse:", "ifTrue:">> -> Evaluate(args[IF IsTrue(rcv) THEN 2 ELSE 1], <<>>, w)
    [] sel = <<"ifNil:">> -> IF rcv = <<"nil">> THEN Evaluate(args[1], <<>>, w) ELSE Done(rcv, w)
    [] sel = <<"ifNotNil:">> -> IF rcv = <<"nil">> THEN Done(rcv, w) ELSE Evaluate(args[1], <<rcv>>, w)
    [] sel = <<"ifNil:", "ifNotNil:">> ->
         IF rcv = <<"nil">> THEN Evaluate(args[1], <<>>, w) ELSE Evaluate(args[2], <<rcv>>, w)
    [] sel = <<"ifNotNil:", "ifNil:">> ->
         IF rcv = <<"nil">> THEN Evaluate(args[2], <<>>, w) ELSE Evaluate(args[1], <<rcv>>, w)
    [] sel = <<"and:">> -> IF IsTrue(rcv) THEN Evaluate(args[1], <<>>, w) ELSE Done(rcv, w)
    [] sel = <<"and:", "and:">> ->
         IF ~IsTrue(rcv) THEN Done(rcv, w)
         ELSE After(Evaluate(args[1], <<>>, w),
                    LAMBDA r : IF IsTrue(r.v) THEN Evaluate(args[2], <<>>, r.w) ELSE r)
    [] sel = <<"or:">> -> IF IsTrue(rcv) THEN Done(rcv, w) ELSE Evaluate(args[1], <<>>, w)
    [] sel = <<"andNot:">> ->
         IF ~IsTrue(rcv) THEN Done(rcv, w)
         ELSE After(Evaluate(args[1], <<>>, w), LAMBDA r : Send(r.v, <<"not">>, <<>>, r.w))
    [] sel = <<"orNot:">> ->
         IF IsTrue(rcv) THEN Done(rcv, w)
         ELSE After(Evaluate(args[1], <<>>, w), LAMBDA r : Send(r.v, <<"not">>, <<>>, r.w))
    [] sel = <<"to:", "do:">> -> Loop(rcv[2], args[1][2], args[2], TRUE, w)
    [] sel = <<"timesRepeat:">> -> Loop(1, rcv[2], args[1], FALSE, w)
    [] sel = <<"whileFalse:">> -> While(rcv, <<"true">>, args[1], w)
    [] sel = <<"whileTrue:">> -> While(rcv, <<"false">>, args[1], w)
    [] sel = <<"whileFalse">> -> While(rcv, <<"true">>, <<"nil">>, w)
    [] sel = <<"whileTrue">> -> While(rcv, <<"false">>, <<"nil">>, w)
    [] sel = <<"repeat">> -> While(rcv, <<"never">>, <<"nil">>, w)
    [] sel = <<"at:">> -> Done(rcv[2][args[1][2]], w)
    [] sel = <<"perform:", "withArguments:">> -> Send(rcv, args[1][2], args[2][2], w)
    [] OTHER -> LET key == MethodFor(w, sel, Ancestors[ClassOf(rcv)])
                IN IF key = <<>> THEN Error(w) ELSE Activate(key, rcv, args, w)

SuperSend(rcv, sel, args, x, w) == Activate(MethodFor(w, sel, Tail(Ancestors[x.class])), rcv, args, w)

IsSuperName(n) == n.k = "identifier" /\ n.name = "super"

(* The receiver of a cascade gets each message; the value is the last one. *)
RECURSIVE CascadeOn(_, _, _, _)
CascadeOn(rcv, msgs, x, w) ==
  After(EvalEach(msgs[1].args, x, w), LAMBDA args :
  After(Send(rcv, msgs[1].sel, args.v, args.w), LAMBDA r :
    IF Len(msgs) = 1 THEN r ELSE CascadeOn(rcv, Tail(msgs), x, r.w)))

ValueOfName(name, x, w) ==
  CASE name = "nil" -> <<"nil">>
    [] name = "true" -> <<"true">>
    [] name = "false" -> <<"false">>
    [] name \in {"self", "super"} -> x.self
    [] name = "Another" -> <<"ref", 3>>
    [] OTHER -> w.store[x.at[name]]

ValueOfLiteral(l) ==
  CASE l.tag = "Integer" -> <<"int", l.int>>
    [] l.tag = "Symbol"  -> <<"symbol", l.sym>>
    [] OTHER             -> <<"literal">>

Eval(n, x, w) ==
  CASE n.k = "identifier" -> Done(ValueOfName(n.name, x, w), w)
    [] n.k = "literal" -> Done(ValueOfLiteral(n.lit), w)
    [] n.k = "block" -> Done(<<"closure", n, x>>, w)
    [] n.k = "assignment" ->
         After(Eval(n.expr, x, w), LAMBDA r : [r EXCEPT !.w.store[x.at[n.to.name]] = r.v])
    [] n.k = "return" -> After(Eval(n.expr, x, w), LAMBDA r : [r EXCEPT !.exit = x.home])
    [] n.k = "brace" -> After(EvalEach(n.els, x, w), LAMBDA r : [r EXCEPT !.v = <<"array", r.v>>])
    [] n.k = "cascade" -> After(Eval(n.rcv, x, w), LAMBDA r : CascadeOn(r.v, n.msgs, x, r.w))
    [] n.k = "message" ->
         After(EvalEach(<<n.rcv>> \o n.args, x, w), LAMBDA r :
           IF IsSuperName(n.rcv) THEN SuperSend(r.v[1], n.sel, Tail(r.v), x, r.w)
           ELSE Send(r.v[1], n.sel, Tail(r.v), r.w))

(* The outcome of sending a message to the main object, whose variable iv  *)
(* is 0; the one of the other object is 3.                                 *)
Outcome(sources, sel, args) ==
  LET start == [sources |-> sources, store |-> <<<<"int", 0>>, <<"int", 3>>>>, count |-> 0]
      seen(r) == IF r.exit = Normal THEN [status |-> "done", v |-> r.v, iv |-> r.w.store[1]]
                 ELSE [status |-> "error", v |-> <<"nil">>, iv |-> <<"nil">>]
  IN seen(Send(<<"ref", 1>>, sel, args, start))
=============================================================================
