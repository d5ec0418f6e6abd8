------------------------------ MODULE Treecodes ------------------------------
(***************************************************************************)
(* From a parse tree to a compiled method and back: SMethodNode builds the *)
(* pool of literals and the format, TreecodeEncoder writes the tree as     *)
(* bytes, and in the runtime TreecodeDecoder reads them into expressions.  *)
(*                                                                         *)
(* The encoder works on a record c with the parse tree's analysis (st, see *)
(* Scopes) and the pool; s is the script whose code is being written       *)
(* (script_).  The decoder works on the bytes and the pool of a method.    *)
(***************************************************************************)
EXTENDS Scopes, SExpressions

MethodId == 101
BlockId == 102
IdentifierId == 103
LiteralId == 104
MessageId == 105
CascadeId == 106
AssignmentId == 108
ReturnId == 109
PragmaId == 110

NilId == 1
TrueId == 2
FalseId == 3
ArgumentId == 4
TemporaryId == 5
SelfId == 6
SuperId == 7
DynamicVarId == 14

(* The bytes that tell what a closure captures.                            *)
LocalArgument == 1
ClosureSelf == 0
EnvironmentValue == 3
InlinedArgument == 4
ClosureEnvironment == 2

-----------------------------------------------------------------------------
(* The pool.                                                               *)

(* The names that are looked up at run time.                               *)
IsDynamic(st, s, n) == Resolve(st, s, n) = Unbound /\ n \notin Pseudo

CompiledBlock(st, s) ==
  BlockLit(st.index[s], Len(st.scripts[s].params), st.stack[s], st.env[s], st.self[s],
           CapturesHome(st, s))

LiteralsOf(st, x) ==
  CASE x.node.k = "literal" ->
         IF IsSmallLiteral(x.node.lit) THEN <<>> ELSE <<x.node.lit>>
    [] x.node.k \in {"message", "send"} -> <<SymbolLit(x.node.sel)>>
    [] x.node.k = "brace" ->
         <<SymbolLit(<<"Array">>), SymbolLit(<<"new:">>), SymbolLit(<<"at:", "put:">>),
           SymbolLit(<<"yourself">>)>>
    [] x.node.k = "identifier" ->
         IF IsDynamic(st, x.in, x.node.name) THEN <<SymbolLit(<<x.node.name>>)>> ELSE <<>>
    [] x.node.k = "block" ->
         IF x.node.pos \in st.inlined THEN <<>> ELSE <<CompiledBlock(st, x.node.pos)>>
    [] OTHER -> <<>>

(* Each literal once, where it is met first.                               *)
AddUnique(ls) ==
  LET first == SelectSeq([i \in DOMAIN ls |-> <<i, ls[i]>>],
                         LAMBDA x : \A j \in 1..(x[1] - 1) : ls[j] # x[2])
  IN [i \in DOMAIN first |-> first[i][2]]

Literals(m, st) ==
  LET nodes == NodesOf(m, 0)
      found == Flat([i \in DOMAIN nodes |-> LiteralsOf(st, nodes[i])])
      named == IF m.pragma \in {NoPragma, Pragma("")} THEN <<>> ELSE <<SymbolLit(m.pragma)>>
  IN AddUnique(named \o found)

(* The place of a literal in the pool, 0 when it is not there.             *)
IndexOf(pool, l) ==
  IF \E i \in DOMAIN pool : pool[i] = l THEN CHOOSE i \in DOMAIN pool : pool[i] = l ELSE 0

-----------------------------------------------------------------------------
(* Bytes.                                                                  *)

PutBool(b) == <<IF b THEN 1 ELSE 0>>

(* Byte i of the two's complement of v, 0 the lowest.                      *)
ByteAt(v, i) ==
  LET shifted[k \in 0..7] == IF k = 0 THEN v ELSE shifted[k - 1] \div 256
  IN shifted[i] % 256

PutInt(v) == IF v \in -127..127 THEN <<v % 256>> ELSE <<128>> \o [i \in 1..8 |-> ByteAt(v, 8 - i)]

Counted(bytes) == PutInt(Len(bytes)) \o bytes

EncodeSymbol(c, sel) == PutInt(IndexOf(c.pool, SymbolLit(sel)))

-----------------------------------------------------------------------------
(* TreecodeEncoder.                                                        *)

EncodedEnvironment(b) ==
  CASE b.env \in {"arg", "stack"} -> InStack
    [] b.env = "inlined" -> Inlined
    [] OTHER -> IF b.envIndex = -1 THEN Current ELSE b.envIndex

EncodeBinding(c, s, n) ==
  LET at == Resolve(c.st, s, n)
      b  == c.st.bindings[at]
  IN CASE at # Unbound /\ b.kind = "arg"  -> <<ArgumentId>> \o PutInt(b.index) \o PutInt(EncodedEnvironment(b))
       [] at # Unbound /\ b.kind = "temp" -> <<TemporaryId>> \o PutInt(b.index) \o PutInt(EncodedEnvironment(b))
       [] n = "nil"   -> <<NilId>>
       [] n = "true"  -> <<TrueId>>
       [] n = "false" -> <<FalseId>>
       [] n = "self"  -> <<SelfId>>
       [] n = "super" -> <<SuperId>>
       [] OTHER       -> <<DynamicVarId>> \o EncodeSymbol(c, <<n>>)

CaptureType(b) ==
  CASE b.env = "arg" -> LocalArgument
    [] b.env = "inlined" -> InlinedArgument
    [] OTHER -> EnvironmentValue

CapturedArguments(st, s) ==
  SelectSeq(SetToSeq(DOMAIN st.captured[s]), LAMBDA n : st.bindings[<<s, n>>].kind = "arg")
(* Mutant: the environment of the script around the block is looked up in  *)
(* a slot too.                                                             *)
EncodeClosureElementsBySlot(st, s) ==
  LET env(e) == <<EnvironmentValue, CapturedEnvironmentIndexOf(st, s, e) % 256>>
      arg(n) == LET b == st.bindings[Resolve(st, Parent(st, s), n)]
                IN <<CaptureType(b), b.index % 256>>
      args   == CapturedArguments(st, s)
  IN (IF st.self[s] THEN <<ClosureSelf>> ELSE <<>>)
     \o Flat([i \in DOMAIN st.envs[s] |-> env(st.envs[s][i])])
     \o Flat([i \in DOMAIN args |-> arg(args[i])])

(* What the new closure of block s is filled with. An environment that is  *)
(* not the one of the script around the block is taken from the place it   *)
(* has in the block's own closure.                                         *)
EncodeClosureElements(st, s) ==
  LET parent == RealScript(st, Parent(st, s))
      env(e) == IF e = parent THEN <<ClosureEnvironment>>
                ELSE <<EnvironmentValue, CapturedEnvironmentIndexOf(st, s, e) % 256>>
      arg(n) == LET b == st.bindings[Resolve(st, Parent(st, s), n)]
                IN <<CaptureType(b), b.index % 256>>
      args   == CapturedArguments(st, s)
  IN (IF st.self[s] THEN <<ClosureSelf>> ELSE <<>>)
     \o Flat([i \in DOMAIN st.envs[s] |-> env(st.envs[s][i])])
     \o Flat([i \in DOMAIN args |-> arg(args[i])])

CompiledBlockIndexOf(c, s) ==
  CHOOSE i \in DOMAIN c.pool : c.pool[i].tag = "Block" /\ c.pool[i].id = c.st.index[s]

EncodeBlockHeader(c, n) ==
  IF n.pos \in c.st.inlined
    THEN PutBool(TRUE) \o
         Counted([i \in DOMAIN n.params |-> c.st.bindings[<<n.pos, n.params[i]>>].index % 256])
    ELSE PutBool(FALSE) \o <<CompiledBlockIndexOf(c, n.pos) % 256>>
         \o Counted(EncodeClosureElements(c.st, n.pos))

EncodeLiteral(c, n) ==
  LET i == IndexOf(c.pool, n.lit) IN PutInt(i) \o (IF i = 0 THEN PutInt(n.lit.int) ELSE <<>>)

RECURSIVE Encode(_, _, _)
Encode(c, s, n) ==
  LET array(ns) == PutInt(Len(ns)) \o Flat([i \in DOMAIN ns |-> Encode(c, s, ns[i])])
  IN CASE n.k = "identifier" -> <<IdentifierId>> \o EncodeBinding(c, s, n.name)
       [] n.k = "literal"    -> <<LiteralId>> \o EncodeLiteral(c, n)
       [] n.k = "message"    ->
            <<MessageId>> \o PutBool(n.pos \in c.st.sends) \o EncodeSymbol(c, n.sel)
            \o Encode(c, s, n.rcv) \o array(n.args)
       [] n.k = "cascade"    ->
            <<CascadeId>> \o Encode(c, s, n.rcv) \o PutInt(Len(n.msgs)) \o
            Flat([i \in DOMAIN n.msgs |->
                          EncodeSymbol(c, n.msgs[i].sel) \o array(n.msgs[i].args)])
       [] n.k = "assignment" -> <<AssignmentId>> \o array(<<n.to>>) \o Encode(c, s, n.expr)
       [] n.k = "return"     ->
            <<ReturnId>> \o PutBool(RealScript(c.st, s) = 0) \o Encode(c, s, n.expr)
       [] n.k = "brace"      -> Encode(c, s, Expanded(n))
       [] n.k = "block"      ->
            <<BlockId>> \o EncodeBlockHeader(c, n) \o PutInt(Len(n.body)) \o
            Flat([i \in DOMAIN n.body |-> Encode(c, n.pos, n.body[i])])

EncodeMethod(c, m) ==
  <<MethodId>>
  \o (CASE m.pragma = NoPragma   -> <<>>
         [] m.pragma = Pragma("") -> <<PragmaId, 0>>
         [] OTHER                 -> <<PragmaId>> \o EncodeSymbol(c, m.pragma))
  \o PutInt(Len(m.body)) \o Flat([i \in DOMAIN m.body |-> Encode(c, 0, m.body[i])])

(* SMethodNode::buildMethod. The counts are fields of a few bits of the    *)
(* format.                                                                 *)
BuildMethod(m, st) ==
  LET pool == Literals(m, st)
  IN [literals       |-> pool,
      selector       |-> m.sel,
      argCount       |-> Len(m.params) % 64,
      blockCount     |-> st.blocks % 128,
      tempCount      |-> st.stack[0] % 256,
      envCount       |-> st.env[0] % 64,
      capturesSelf   |-> st.self[0],
      hasEnvironment |-> NeedsEnvironment(st),
      hasFrame       |-> st.stack[0] > 0 \/ Len(m.params) > 16 \/ ~st.leaf \/ st.blocks > 0,
      treecodes      |-> EncodeMethod([st |-> st, pool |-> pool], m)]

-----------------------------------------------------------------------------
(* TreecodeDecoder. d has the bytes and the pool; a read gives what it     *)
(* found and the place after it.                                           *)

Found(x, p) == [x |-> x, p |-> p]

NextByte(d, p) == Found(IF p \in DOMAIN d.bytes THEN d.bytes[p] ELSE 0, p + 1)

NextBoolean(d, p) == Found(NextByte(d, p).x = 1, p + 1)

Signed(byte) == IF byte <= 127 THEN byte ELSE byte - 256

NextInteger(d, p) ==
  IF NextByte(d, p).x # 128 THEN Found(Signed(NextByte(d, p).x), p + 1)
  ELSE LET value[i \in 0..7] == IF i = 0 THEN Signed(NextByte(d, p + 1).x)
                                ELSE value[i - 1] * 256 + NextByte(d, p + 1 + i).x
       IN Found(value[7], p + 9)

NextSymbol(d, p) == LET i == NextInteger(d, p) IN Found(d.pool[i.x].sym, i.p)

NextArray(d, p) ==
  LET n == NextInteger(d, p)
  IN Found([i \in 1..n.x |-> NextByte(d, n.p + i - 1).x], n.p + n.x)

DecodeBinding(d, p) ==
  LET id == NextInteger(d, p)
      i  == NextInteger(d, id.p)
      e  == NextInteger(d, i.p)
  IN CASE id.x = NilId   -> Found(SNilBinding, id.p)
       [] id.x = TrueId  -> Found(STrueBinding, id.p)
       [] id.x = FalseId -> Found(SFalseBinding, id.p)
       [] id.x = SelfId  -> Found(SSelfBinding, id.p)
       [] id.x = SuperId -> Found(SSuperBinding, id.p)
       [] id.x = ArgumentId   -> Found(SArgumentBinding(i.x, e.x), e.p)
       [] id.x = TemporaryId  -> Found(STemporaryBinding(i.x, e.x), e.p)
       [] id.x = DynamicVarId -> Found(SDynamicBinding(NextSymbol(d, id.p).x), NextSymbol(d, id.p).p)

DecodeLiteral(d, p) ==
  LET i == NextInteger(d, p)
      v == NextInteger(d, i.p)
  IN IF i.x = 0 THEN Found(SLiteral(0, IntegerLit(v.x)), v.p)
     ELSE Found(SLiteral(i.x, d.pool[i.x]), i.p)

RECURSIVE NextExpression(_, _), NextExpressions(_, _, _), NextCascadeMessages(_, _, _)

NextExpressionArray(d, p) ==
  LET next(n) == NextExpressions(d, n.p, n.x) IN next(NextInteger(d, p))

DecodeBlock(d, p) ==
  LET inlined == NextBoolean(d, p)
      args    == NextArray(d, inlined.p)
      index   == NextInteger(d, inlined.p)
      capts   == NextArray(d, index.p)
      body    == NextExpressionArray(d, IF inlined.x THEN args.p ELSE capts.p)
  IN Found(IF inlined.x THEN SInlinedBlock(args.x, body.x)
           ELSE SBlock(index.x, capts.x, body.x), body.p)

DecodeMessage(d, p) ==
  LET inlined == NextBoolean(d, p)
      sel     == NextSymbol(d, inlined.p)
      rcv     == NextExpression(d, sel.p)
      args    == NextExpressionArray(d, rcv.p)
  IN Found(SMessage(rcv.x, sel.x, args.x, inlined.x), args.p)

DecodeCascade(d, p) ==
  LET rcv  == NextExpression(d, p)
      n    == NextInteger(d, rcv.p)
      msgs == NextCascadeMessages(d, n.p, n.x)
  IN Found(SCascade(rcv.x, msgs.x), msgs.p)

DecodeAssignment(d, p) ==
  LET to   == NextExpressionArray(d, p)
      expr == NextExpression(d, to.p)
  IN Found(SAssignment(to.x, expr.x), expr.p)

DecodeReturn(d, p) ==
  LET local == NextBoolean(d, p)
      expr  == NextExpression(d, local.p)
  IN Found(SReturn(local.x, expr.x), expr.p)

NextExpression(d, p) ==
  LET id == NextByte(d, p)
  IN CASE id.x = IdentifierId -> LET b == DecodeBinding(d, id.p) IN Found(SIdentifier(b.x), b.p)
       [] id.x = LiteralId    -> DecodeLiteral(d, id.p)
       [] id.x = BlockId      -> DecodeBlock(d, id.p)
       [] id.x = MessageId    -> DecodeMessage(d, id.p)
       [] id.x = CascadeId    -> DecodeCascade(d, id.p)
       [] id.x = AssignmentId -> DecodeAssignment(d, id.p)
       [] id.x = ReturnId     -> DecodeReturn(d, id.p)
(* Mutant: the loop over the expressions of an array ends one too early.   *)
NextExpressionsButLast(d, p, n) ==
  IF n <= 1 THEN Found(<<>>, p)
  ELSE LET e    == NextExpression(d, p)
           rest == NextExpressions(d, e.p, n - 1)
       IN Found(<<e.x>> \o rest.x, rest.p)

NextExpressions(d, p, n) ==
  IF n <= 0 THEN Found(<<>>, p)
  ELSE LET e    == NextExpression(d, p)
           rest == NextExpressions(d, e.p, n - 1)
       IN Found(<<e.x>> \o rest.x, rest.p)

NextCascadeMessages(d, p, n) ==
  IF n <= 0 THEN Found(<<>>, p)
  ELSE LET sel  == NextSymbol(d, p)
           args == NextExpressionArray(d, sel.p)
           rest == NextCascadeMessages(d, args.p, n - 1)
       IN Found(<<SCascadeMessage(sel.x, args.x)>> \o rest.x, rest.p)

(* A pragma is recognized by the next byte alone.                          *)
DecodeMethod(d) ==
  LET pragma == NextByte(d, 2).x = PragmaId
      name   == NextInteger(d, 3)
      prim   == IF pragma /\ name.x # 0 THEN d.pool[name.x].sym ELSE <<>>
      found(body) == Found(SMethod(prim, body.x), body.p)
  IN found(NextExpressionArray(d, IF pragma THEN name.p ELSE 2))
=============================================================================
