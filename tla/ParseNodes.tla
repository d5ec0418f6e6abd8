----------------------------- MODULE ParseNodes -----------------------------
(***************************************************************************)
(* The nodes of the parse tree of a method (runtime/cpp/Compiler/AST), the *)
(* literals they carry, and the walks over them that the compiler uses.    *)
(*                                                                         *)
(* A node is a record whose field k names its class.  What the C++ code    *)
(* tells apart by the address of a node is told apart here by the place of *)
(* its first token in the source: a block is named by its pos, the method  *)
(* by 0.  A selector is the sequence of its parts, <<"at:", "put:">>.      *)
(***************************************************************************)
EXTENDS Integers, Sequences, FiniteSets, SequencesExt

(* The elements of the sequences, which are evaluated once.                *)
Flat(seqs) == FlattenSeq(seqs \o <<>>)

-----------------------------------------------------------------------------
(* Literals. Two integers, symbols or arrays are equal by their contents,  *)
(* two blocks by their number.                                             *)

IntegerLit(n) == [tag |-> "Integer", int |-> n]

SymbolLit(sel) == [tag |-> "Symbol", sym |-> sel]

ArrayLit(els) == [tag |-> "Array", els |-> els]

ByteArrayLit(bytes) == [tag |-> "ByteArray", bytes |-> bytes]

NilLit == [tag |-> "Nil"]

BooleanLit(b) == [tag |-> "Boolean", bool |-> b]

BlockLit(id, argCount, tempCount, envCount, capturesSelf, capturesHome) ==
  [tag |-> "Block", id |-> id, argCount |-> argCount, tempCount |-> tempCount,
   envCount |-> envCount, capturesSelf |-> capturesSelf, capturesHome |-> capturesHome]

(* An integer in this range is written into the treecodes and takes no     *)
(* place in the pool of literals.                                          *)
IsSmallLiteral(l) == l.tag = "Integer" /\ l.int >= -16384 /\ l.int <= 16383

-----------------------------------------------------------------------------
(* Nodes.                                                                  *)

Identifier(name) == [k |-> "identifier", name |-> name]

Literal(l) == [k |-> "literal", lit |-> l]

Message(pos, rcv, sel, args) ==
  [k |-> "message", pos |-> pos, rcv |-> rcv, sel |-> sel, args |-> args]

(* A cascade keeps its receiver once; each message is a selector with its  *)
(* arguments.                                                              *)
CascadeMessage(sel, args) == [sel |-> sel, args |-> args]

Cascade(rcv, msgs) == [k |-> "cascade", rcv |-> rcv, msgs |-> msgs]

Assignment(assignee, expr) == [k |-> "assignment", to |-> assignee, expr |-> expr]

Return(expr) == [k |-> "return", expr |-> expr]

Brace(els) == [k |-> "brace", els |-> els]

Block(pos, parent, params, temps, body) ==
  [k |-> "block", pos |-> pos, parent |-> parent, params |-> params,
   temps |-> temps, body |-> body]

(* A method has no pragma or one, which has a name, "" when the primitive  *)
(* is given by a number.                                                   *)
NoPragma == <<>>
Pragma(name) == <<name>>

Method(sel, params, temps, pragma, body) ==
  [k |-> "method", pos |-> 0, sel |-> sel, params |-> params, temps |-> temps,
   pragma |-> pragma, body |-> body]

(* { a. b } is compiled as (Array new: 2) at: 1 put: a; at: 2 put: b;      *)
(* yourself.                                                               *)
Expanded(brace) ==
  Cascade(Message(0, Identifier("Array"), <<"new:">>, <<Literal(IntegerLit(Len(brace.els)))>>),
          [i \in DOMAIN brace.els |->
             CascadeMessage(<<"at:", "put:">>, <<Literal(IntegerLit(i)), brace.els[i]>>)]
          \o <<CascadeMessage(<<"yourself">>, <<>>)>>)

-----------------------------------------------------------------------------
(* isEvaluable. An identifier is evaluable once it is bound to something   *)
(* that has a value by itself: its name is in bound.                       *)
RECURSIVE IsEvaluable(_, _)
IsEvaluable(n, bound) ==
  CASE n.k = "literal" -> TRUE
    [] n.k = "identifier" -> n.name \in bound
    [] n.k = "block" -> n.params = <<>>
    [] n.k = "brace" -> \A i \in DOMAIN n.els : IsEvaluable(n.els[i], bound)
    [] OTHER -> FALSE

(* nodesDo_: the nodes below n with the script each one is in, n first, in *)
(* the order in which the code visits them without the declarations. The   *)
(* messages of a cascade visit its receiver again, which adds nothing.     *)
RECURSIVE NodesOf(_, _)
NodesOf(n, s) ==
  LET all(ns) == Flat([i \in DOMAIN ns |-> NodesOf(ns[i], s)])
  IN <<[node |-> n, in |-> s]>> \o
     CASE n.k = "message" -> NodesOf(n.rcv, s) \o all(n.args)
       [] n.k = "cascade" ->
            NodesOf(n.rcv, s) \o
            Flat([i \in DOMAIN n.msgs |->
                          <<[node |-> [k |-> "send", sel |-> n.msgs[i].sel], in |-> s]>>
                          \o all(n.msgs[i].args)])
       [] n.k = "assignment" -> <<[node |-> n.to, in |-> s]>> \o NodesOf(n.expr, s)
       [] n.k = "return" -> NodesOf(n.expr, s)
       [] n.k = "brace" -> all(n.els)
       [] n.k \in {"block", "method"} ->
            Flat([i \in DOMAIN n.body |-> NodesOf(n.body[i], n.pos)])
       [] OTHER -> <<>>

(* The blocks of a method, outermost first: a block is created, and added  *)
(* to its parent, when its bracket is read.                                *)
BlocksOf(m) ==
  LET found == SelectSeq(NodesOf(m, 0), LAMBDA x : x.node.k = "block")
  IN [i \in DOMAIN found |-> found[i].node]
=============================================================================
