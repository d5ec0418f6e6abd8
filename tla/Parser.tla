------------------------------- MODULE Parser -------------------------------
(***************************************************************************)
(* SSmalltalkParser: recursive descent over the tokens of a method.        *)
(*                                                                         *)
(* A parse operator takes the place p of the current token (_token) and    *)
(* the script being parsed (activeScript), and gives the node with the     *)
(* place after it.  Place 0 is where an error leaves the parser: the       *)
(* callers do not go on from there (Then), as with the exception.          *)
(* Comments are dropped by the scanner.                                    *)
(***************************************************************************)
EXTENDS ParseNodes

VARIABLE tokens  \* the tokens the scanner delivers, the last one is End

Name(v)      == [t |-> "name", v |-> v]
Keyword(v)   == [t |-> "keyword", v |-> v]
Adjacent(v)  == [t |-> "keyword", v |-> v, adjacent |-> TRUE]  \* begins where another one ends
Binary(v)    == [t |-> "binary", v |-> v]
Delimiter(v) == [t |-> "delimiter", v |-> v]
Lit(l)       == [t |-> "literal", v |-> "", lit |-> l]
End          == [t |-> "end", v |-> ""]

Token(p) == IF p \in DOMAIN tokens THEN tokens[p] ELSE [t |-> "none", v |-> ""]

Step(p) == IF p = 0 THEN 0 ELSE p + 1

(* A literal never matches a delimiter. *)
Is(p, v) == Token(p).t # "literal" /\ Token(p).v = v

IsA(p, t) == Token(p).t = t

EndsExpression(p) == IsA(p, "end") \/ \E v \in {"]", ")", "}", "."} : Is(p, v)

At(n, p) == [n |-> n, p |-> p]

Failed(n) == At(n, 0)

(* What the parser goes on to read after r.                                *)
Then(r, Next(_)) == IF r.p = 0 THEN r ELSE Next(r)

Prefixed(x, rest) == IF rest.p = 0 THEN rest ELSE At(<<x>> \o rest.n, rest.p)

Expect(r, v) == At(r.n, IF Is(r.p, v) THEN Step(r.p) ELSE 0)

HasUnarySelector(p) == IsA(p, "name")

HasBinarySelector(p) == IsA(p, "binary") \/ Is(p, "^") \/ Is(p, ":")

HasKeywordSelector(p) == IsA(p, "keyword")

RECURSIVE SkipDots(_)
SkipDots(p) == IF Is(p, ".") THEN SkipDots(Step(p)) ELSE p

-----------------------------------------------------------------------------
(* Declarations.                                                           *)

RECURSIVE Names(_)
Names(p) ==
  IF IsA(p, "name")
    THEN Prefixed(Token(p).v, Names(Step(p)))
    ELSE At(<<>>, p)

Temporaries(p) ==
  CASE Is(p, "||") -> At(<<>>, Step(p))
    [] Is(p, "|")  -> Expect(Names(Step(p)), "|")
    [] OTHER       -> At(<<>>, p)

RECURSIVE BlockArguments(_)
BlockArguments(p) ==
  LET name == Step(p)
      next == Step(name)
  IN CASE ~Is(p, ":")        -> At(<<>>, p)
       [] ~IsA(name, "name") -> Failed(<<>>)
       [] Is(next, ":")      -> Prefixed(Token(name).v, BlockArguments(next))
       [] OTHER -> At(<<Token(name).v>>, IF Is(next, "|") \/ Is(next, "||") THEN Step(next) ELSE 0)

-----------------------------------------------------------------------------
(* Literal arrays: everything up to the closing parenthesis is an element. *)
(* A bare name is a symbol, but for nil, true and false; keywords that     *)
(* follow each other without a space are one.                              *)

NegativeNumber(p) == Is(p, "-") /\ IsA(Step(p), "literal") /\ Token(Step(p)).lit.tag = "Integer"

PseudoLiteral(name) ==
  CASE name = "nil" -> NilLit
    [] name \in {"true", "false"} -> BooleanLit(name = "true")
    [] OTHER -> SymbolLit(<<name>>)

RECURSIVE LiteralKeyword(_)
LiteralKeyword(p) ==
  LET next == Step(p)
  IN IF IsA(next, "keyword") /\ "adjacent" \in DOMAIN Token(next)
       THEN Prefixed(Token(p).v, LiteralKeyword(next)) ELSE At(<<Token(p).v>>, next)

RECURSIVE Bytes(_)
Bytes(p) ==
  CASE Is(p, "]") -> At(<<>>, Step(p))
    [] IsA(p, "literal") /\ Token(p).lit.tag = "Integer" ->
         Prefixed(Token(p).lit.int % 256, Bytes(Step(p)))
    [] OTHER -> Failed(<<>>)

RECURSIVE ArrayElements(_)
ArrayElements(p) ==
  CASE Is(p, ")") -> At(<<>>, Step(p))
    [] IsA(p, "literal") -> Prefixed(Token(p).lit, ArrayElements(Step(p)))
    [] NegativeNumber(p) ->
         Prefixed(IntegerLit(-Token(Step(p)).lit.int), ArrayElements(Step(Step(p))))
    [] Is(p, "(") \/ Is(p, "#(") ->
         Then(ArrayElements(Step(p)), LAMBDA inner : Prefixed(ArrayLit(inner.n), ArrayElements(inner.p)))
    [] Is(p, "#[") ->
         Then(Bytes(Step(p)), LAMBDA inner : Prefixed(ByteArrayLit(inner.n), ArrayElements(inner.p)))
    [] IsA(p, "name") -> Prefixed(PseudoLiteral(Token(p).v), ArrayElements(Step(p)))
    [] IsA(p, "keyword") ->
         Then(LiteralKeyword(p), LAMBDA key : Prefixed(SymbolLit(key.n), ArrayElements(key.p)))
    [] IsA(p, "binary") -> Prefixed(SymbolLit(<<Token(p).v>>), ArrayElements(Step(p)))
    [] OTHER -> Failed(<<>>)

-----------------------------------------------------------------------------
(* Expressions.                                                            *)

RECURSIVE Primary(_, _), Operand(_, _), UnarySequence(_), BinarySequence(_, _), KeywordParts(_, _), 
          Cascaded(_, _), Expression(_, _), Elements(_, _), Statements(_, _)

BlockNode(p, a) ==
  Then(BlockArguments(Step(p)), LAMBDA args :
  Then(Temporaries(args.p), LAMBDA temps :
  Then(Expect(Statements(temps.p, p), "]"), LAMBDA body :
    At(Block(p, a, args.n, temps.n, body.n), body.p))))

ParenthesizedExpression(p, a) == Expect(Expression(Step(p), a), ")")

BracedArray(p, a) ==
  Then(Expect(Elements(Step(p), a), "}"), LAMBDA els : At(Brace(els.n), els.p))

LiteralByteArray(p) == Then(Bytes(Step(p)), LAMBDA r : At(Literal(ByteArrayLit(r.n)), r.p))

LiteralArray(p) == Then(ArrayElements(Step(p)), LAMBDA r : At(Literal(ArrayLit(r.n)), r.p))

Primary(p, a) ==
  CASE IsA(p, "name")    -> At(Identifier(Token(p).v), Step(p))
    [] IsA(p, "literal") -> At(Literal(Token(p).lit), Step(p))
    [] Is(p, "[")        -> BlockNode(p, a)
    [] Is(p, "(")        -> ParenthesizedExpression(p, a)
    [] Is(p, "#(")       -> LiteralArray(p)
    [] Is(p, "#[")       -> LiteralByteArray(p)
    [] Is(p, "{")        -> BracedArray(p, a)
    [] NegativeNumber(p) -> At(Literal(IntegerLit(-Token(Step(p)).lit.int)), Step(Step(p)))
    [] OTHER             -> Failed(Identifier(""))

UnaryMessage(r) == At(Message(r.p, r.n, <<Token(r.p).v>>, <<>>), Step(r.p))
(* Mutant: the argument of a binary message is read without its unary      *)
(* messages.                                                               *)
BinaryMessageOfPrimary(r, a) ==
  Then(Primary(Step(r.p), a), LAMBDA arg : At(Message(r.p, r.n, <<Token(r.p).v>>, <<arg.n>>), arg.p))

BinaryMessage(r, a) ==
  Then(Operand(Step(r.p), a), LAMBDA arg : At(Message(r.p, r.n, <<Token(r.p).v>>, <<arg.n>>), arg.p))

KeywordMessage(r, a) ==
  Then(KeywordParts(r.p, a), LAMBDA parts :
    At(Message(r.p, r.n, [i \in DOMAIN parts.n |-> parts.n[i].key],
                         [i \in DOMAIN parts.n |-> parts.n[i].arg]), parts.p))

(* A primary with its unary messages.                                      *)
Operand(p, a) ==
  Then(Primary(p, a), UnarySequence)

UnarySequence(r) == IF HasUnarySelector(r.p) THEN UnarySequence(UnaryMessage(r)) ELSE r

BinarySequence(r, a) ==
  IF HasBinarySelector(r.p) THEN BinarySequence(BinaryMessage(r, a), a) ELSE r

KeywordParts(p, a) ==
  IF ~HasKeywordSelector(p) THEN At(<<>>, p)
  ELSE Then(Then(Operand(Step(p), a), LAMBDA operand : BinarySequence(operand, a)), LAMBDA arg :
         Prefixed([key |-> Token(p).v, arg |-> arg.n], KeywordParts(arg.p, a)))

KeywordSequence(r, a) == IF HasKeywordSelector(r.p) THEN KeywordMessage(r, a) ELSE r

(* One message after a semicolon, to the receiver of the cascade.          *)
CascadeMessageNode(r, a) ==
  CASE HasUnarySelector(r.p)   -> UnaryMessage(r)
    [] HasBinarySelector(r.p)  -> BinaryMessage(r, a)
    [] HasKeywordSelector(r.p) -> KeywordMessage(r, a)
    [] OTHER                   -> Failed(Message(0, r.n, <<"">>, <<>>))

Cascaded(r, a) ==
  IF ~Is(r.p, ";") THEN At(<<CascadeMessage(r.n.sel, r.n.args)>>, r.p)
  ELSE Then(CascadeMessageNode(At(r.n.rcv, Step(r.p)), a), LAMBDA next :
         Prefixed(CascadeMessage(r.n.sel, r.n.args), Cascaded(next, a)))

CascadeSequence(r, a) ==
  IF ~Is(r.p, ";") THEN r
  ELSE Then(Cascaded(r, a), LAMBDA msgs : At(Cascade(r.n.rcv, msgs.n), msgs.p))

AssignmentNode(p, a) ==
  Then(Expression(Step(Step(p)), a), LAMBDA e : At(Assignment(Identifier(Token(p).v), e.n), e.p))

(* Only a message that was read here can start a cascade: not one in       *)
(* parentheses.                                                            *)
Expression(p, a) ==
  IF IsA(p, "name") /\ Is(Step(p), ":=") THEN AssignmentNode(p, a)
  ELSE Then(Primary(p, a), LAMBDA prim :
       Then(Then(UnarySequence(prim), LAMBDA un :
            Then(BinarySequence(un, a), LAMBDA bin : KeywordSequence(bin, a))), LAMBDA msg :
       Then(IF msg.n # prim.n /\ msg.n.k = "message" THEN CascadeSequence(msg, a) ELSE msg, LAMBDA expr :
         At(expr.n, IF EndsExpression(expr.p) THEN expr.p ELSE 0))))

Elements(p, a) ==
  IF Is(p, "}") \/ ~(p \in DOMAIN tokens) \/ IsA(p, "end") THEN At(<<>>, p)
  ELSE Then(Expression(p, a), LAMBDA e :
         Prefixed(e.n, Elements(IF Is(e.p, ".") THEN Step(e.p) ELSE e.p, a)))

-----------------------------------------------------------------------------
(* Statements. A return skips the dots after it, so no statement is read   *)
(* after a return.                                                         *)

ReturnNode(p, a) == Then(Expression(Step(p), a), LAMBDA e : At(Return(e.n), SkipDots(e.p)))

Statement(p, a) == IF Is(p, "^") THEN ReturnNode(p, a) ELSE Expression(p, a)

Statements(p, a) ==
  IF EndsExpression(p) THEN At(<<>>, p)
  ELSE Then(Statement(p, a), LAMBDA s :
         IF Is(s.p, ".") THEN Prefixed(s.n, Statements(SkipDots(s.p), a)) ELSE At(<<s.n>>, s.p))

-----------------------------------------------------------------------------
(* Methods.                                                                *)

RECURSIVE KeywordSignature(_)
KeywordSignature(p) ==
  CASE ~HasKeywordSelector(p)   -> At([sel |-> <<>>, params |-> <<>>], p)
    [] ~IsA(Step(p), "name")    -> Failed([sel |-> <<>>, params |-> <<>>])
    [] OTHER -> Then(KeywordSignature(Step(Step(p))), LAMBDA rest :
                  At([sel    |-> <<Token(p).v>> \o rest.n.sel,
                      params |-> <<Token(Step(p)).v>> \o rest.n.params], rest.p))

BinarySignature(p) ==
  At([sel |-> <<Token(p).v>>, params |-> <<Token(Step(p)).v>>],
     IF IsA(Step(p), "name") THEN Step(Step(p)) ELSE 0)

UnarySignature(p) == At([sel |-> <<Token(p).v>>, params |-> <<>>], Step(p))

MethodSignature(p) ==
  CASE HasKeywordSelector(p) -> KeywordSignature(p)
    [] HasBinarySelector(p)  -> BinarySignature(p)
    [] HasUnarySelector(p)   -> UnarySignature(p)
    [] OTHER                 -> Failed([sel |-> <<>>, params |-> <<>>])

(* <primitive: Name>, <primitive: Number> or <Symbol>, which is whatever   *)
(* token is there; the text of a literal is not modelled.                  *)
PragmaNode(p) ==
  LET first == Step(p)
      value == Step(first)
  IN CASE ~Is(first, "primitive:") -> At(Pragma(Token(first).v), value)
       [] IsA(value, "name")       -> At(Pragma(Token(value).v), Step(value))
       [] IsA(value, "literal") /\ Token(value).lit.tag = "Integer" -> At(Pragma(""), Step(value))
       [] OTHER                    -> Failed(NoPragma)

AttachPragma(p) ==
  IF Is(p, "<") THEN Then(PragmaNode(p), LAMBDA r : Expect(r, ">")) ELSE At(NoPragma, p)

(* addBodyTo_: temporaries, a pragma and statements.                       *)
MethodBody(p) ==
  Then(Temporaries(p), LAMBDA temps :
  Then(AttachPragma(temps.p), LAMBDA pragma :
  Then(Statements(pragma.p, 0), LAMBDA body :
    At([temps |-> temps.n, pragma |-> pragma.n, statements |-> body.n], body.p))))

(* parseMethod: the method the tokens spell, or an error.                  *)
ParseMethod ==
  Then(MethodSignature(1), LAMBDA sig :
  Then(MethodBody(sig.p), LAMBDA body :
    At(Method(sig.n.sel, sig.n.params, body.n.temps, body.n.pragma, body.n.statements),
       IF IsA(body.p, "end") THEN body.p ELSE 0)))
=============================================================================
