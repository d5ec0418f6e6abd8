----------------------------- MODULE Toolchain ------------------------------
(***************************************************************************)
(* From source to result: the methods of a program are compiled one after  *)
(* the other (SSmalltalkCompiler), then a message is sent to the main      *)
(* object and evaluated.  Parser, Scopes, Treecodes, Linearizer and        *)
(* Evaluator are composed as the runtime composes them; Meaning says what  *)
(* the result has to be.                                                   *)
(***************************************************************************)
EXTENDS Parser, Evaluator, Unwinding

CONSTANTS Library,   \* the methods every program has: key and parse tree
          Programs,  \* the names of the programs
          Source(_)  \* the parse tree of the main method of a program

VARIABLES program,    \* the program that runs, <<>> while the library is compiled
          compiling   \* the class and selector of the method being compiled

vars == <<tokens, compiling, program, evaluatorVars>>

-----------------------------------------------------------------------------
(* The tokens of a parse tree, with the parentheses that are needed.       *)

BinarySelectors == {"+", "-", "*", "//", "\\\\", "=", "!=", "<", "<=", ">", ">=", "=="}

Precedence(n) ==
  CASE n.k = "message" -> IF n.args = <<>> THEN 1
                          ELSE IF Len(n.args) = 1 /\ n.sel[1] \in BinarySelectors THEN 2 ELSE 3
    [] n.k \in {"cascade", "assignment"} -> 3
    [] OTHER -> 0

(* An element of a literal array.                                          *)
RECURSIVE SpellElement(_)
SpellElement(l) ==
  CASE l.tag = "Nil"       -> <<Name("nil")>>
    [] l.tag = "Boolean"   -> <<Name(IF l.bool THEN "true" ELSE "false")>>
    [] l.tag = "Symbol"    -> IF Len(l.sym) = 1 THEN <<Name(l.sym[1])>>
                              ELSE [i \in DOMAIN l.sym |-> IF i = 1 THEN Keyword(l.sym[i]) ELSE Adjacent(l.sym[i])]
    [] l.tag = "Integer"   -> IF l.int < 0 THEN <<Binary("-"), Lit(IntegerLit(-l.int))>> ELSE <<Lit(l)>>
    [] l.tag = "Array"     -> <<Delimiter("(")>> \o Flat([i \in DOMAIN l.els |-> SpellElement(l.els[i])])
                              \o <<Delimiter(")")>>
    [] l.tag = "ByteArray" -> <<Delimiter("#[")>> \o [i \in DOMAIN l.bytes |-> Lit(IntegerLit(l.bytes[i]))]
                              \o <<Delimiter("]")>>

RECURSIVE Spell(_)

SpellWithin(n, p) ==
  IF Precedence(n) > p THEN <<Delimiter("(")>> \o Spell(n) \o <<Delimiter(")")>> ELSE Spell(n)

Separated(parts, by) ==
  Flat([i \in DOMAIN parts |-> IF i = 1 THEN parts[i] ELSE <<Delimiter(by)>> \o parts[i]])

SpellSend(sel, args) ==
  CASE args = <<>> -> <<Name(sel[1])>>
    [] Len(args) = 1 /\ sel[1] \in BinarySelectors -> <<Binary(sel[1])>> \o SpellWithin(args[1], 1)
    [] OTHER -> Flat([i \in DOMAIN args |-> <<Keyword(sel[i])>> \o SpellWithin(args[i], 2)])

SpellTemps(temps) ==
  IF temps = <<>> THEN <<>>
  ELSE <<Delimiter("|")>> \o [i \in DOMAIN temps |-> Name(temps[i])] \o <<Delimiter("|")>>

SpellStatements(ns) == Separated([i \in DOMAIN ns |-> Spell(ns[i])], ".")

Spell(n) ==
  CASE n.k = "identifier" -> <<Name(n.name)>>
    [] n.k = "literal" ->
         CASE n.lit.tag = "Symbol" -> <<Lit(n.lit)>>
           [] n.lit.tag = "Array"  -> <<Delimiter("#(")>> \o Tail(SpellElement(n.lit))
           [] OTHER                -> SpellElement(n.lit)
    [] n.k = "message" ->
         SpellWithin(n.rcv, IF Precedence(n) = 1 THEN 1 ELSE 2) \o SpellSend(n.sel, n.args)
    [] n.k = "cascade" ->
         SpellWithin(n.rcv, 0) \o
         Separated([i \in DOMAIN n.msgs |-> SpellSend(n.msgs[i].sel, n.msgs[i].args)], ";")
    [] n.k = "assignment" -> <<Name(n.to.name), Delimiter(":=")>> \o Spell(n.expr)
    [] n.k = "return" -> <<Delimiter("^")>> \o Spell(n.expr)
    [] n.k = "brace" -> <<Delimiter("{")>> \o SpellStatements(n.els) \o <<Delimiter("}")>>
    [] n.k = "block" ->
         <<Delimiter("[")>>
         \o Flat([i \in DOMAIN n.params |-> <<Delimiter(":"), Name(n.params[i])>>])
         \o (IF n.params = <<>> THEN <<>> ELSE <<Delimiter("|")>>)
         \o SpellTemps(n.temps) \o SpellStatements(n.body) \o <<Delimiter("]")>>

SpellMethod(m) ==
  (CASE m.params = <<>> -> <<Name(m.sel[1])>>
     [] m.sel[1] \in BinarySelectors -> <<Binary(m.sel[1]), Name(m.params[1])>>
     [] OTHER -> Flat([i \in DOMAIN m.params |-> <<Keyword(m.sel[i]), Name(m.params[i])>>]))
  \o SpellTemps(m.temps)
  \o (IF m.pragma = NoPragma THEN <<>>
      ELSE <<Binary("<"), Keyword("primitive:"),
             IF m.pragma = Pragma("") THEN Lit(IntegerLit(1)) ELSE Name(m.pragma[1]), Binary(">")>>)
  \o SpellStatements(m.body) \o <<End>>

(* A parse tree without the places of its nodes.                           *)
RECURSIVE Plain(_)
Plain(n) ==
  LET each(ns) == [i \in DOMAIN ns |-> Plain(ns[i])]
  IN CASE n.k = "message" -> Message(0, Plain(n.rcv), n.sel, each(n.args))
       [] n.k = "cascade" ->
            Cascade(Plain(n.rcv),
                    [i \in DOMAIN n.msgs |-> CascadeMessage(n.msgs[i].sel, each(n.msgs[i].args))])
       [] n.k = "assignment" -> Assignment(n.to, Plain(n.expr))
       [] n.k = "return" -> Return(Plain(n.expr))
       [] n.k = "brace" -> Brace(each(n.els))
       [] n.k = "block" -> Block(0, 0, n.params, n.temps, each(n.body))
       [] n.k = "method" -> [n EXCEPT !.body = each(@)]
       [] OTHER -> n

-----------------------------------------------------------------------------
MainKey == <<"Main", <<"main:">>>>

(* The objects of the program, and those of Kernel that it reaches: the    *)
(* scheduler, its process with the stack and the protected frames.         *)
Object(class, named, slots) == [class |-> class, named |-> named, slots |-> slots]

InitialObjects ==
  <<Object("Main", <<Smi(0)>>, <<>>), Object("Array class", <<>>, <<>>),
    Object("Other", <<Smi(3), Smi(5)>>, <<>>),
    Object("ProcessorScheduler", <<Ref(5)>>, <<>>),
    Object("ActiveProcess", <<Ref(6), Ref(7)>>, <<>>),
    Object("ProcessVMStack", <<>>, <<>>),
    Object("OrderedCollection", <<Smi(1), Smi(0), Ref(8)>>, <<>>),
    NewArray([i \in 1..20 |-> Nil])>>

Init ==
  /\ tokens = <<>>
  /\ program = <<>>
  /\ compiling = MainKey
  /\ methods = <<>>
  /\ context = EmptyContext
  /\ regR = Nil
  /\ work = CodeRef(<<"", <<>>>>, 0)
  /\ objects = InitialObjects
  /\ status = "idle"

Compiled == DOMAIN methods

(* The scanner delivers the tokens of the next method.                     *)
FeedLibrary ==
  /\ status = "idle" /\ tokens = <<>>
  /\ Compiled # DOMAIN Library /\ program = <<>>
  /\ compiling' = CHOOSE k \in DOMAIN Library \ Compiled : TRUE
  /\ tokens' = SpellMethod(Library[compiling'])
  /\ UNCHANGED <<program, evaluatorVars>>

FeedMain ==
  /\ status = "idle" /\ tokens = <<>>
  /\ Compiled = DOMAIN Library /\ program = <<>>
  /\ program' \in Programs
  /\ compiling' = MainKey
  /\ tokens' = SpellMethod(Source(program'))
  /\ UNCHANGED evaluatorVars

(* compileMethod: parse, resolve, encode. An error leaves no method.       *)
CompileMethod ==
  /\ status = "idle"
  /\ tokens # <<>>
  /\ \E parsed \in {ParseMethod} :
       IF parsed.p = 0 \/ Redefines(ScriptsOf(parsed.n))
         THEN status' = "error" /\ UNCHANGED methods
         ELSE /\ methods' = (compiling :> (BuildMethod(parsed.n, ResolveSemantics(parsed.n))
                                            @@ [code |-> NotPrepared])) @@ methods
              /\ UNCHANGED status
  /\ tokens' = <<>>
  /\ UNCHANGED <<program, compiling, context, regR, work, objects>>

Launch ==
  /\ status = "idle"
  /\ MainKey \in Compiled
  /\ SendTo(MainKey[2], Ref(1), <<Smi(1)>>)
  /\ UNCHANGED <<tokens, program, compiling, objects>>

Run == RunStep /\ UNCHANGED <<tokens, program, compiling>>

Ended == status \in {"done", "error"} /\ UNCHANGED vars

Next == FeedLibrary \/ FeedMain \/ CompileMethod \/ Launch \/ Run \/ Ended

(* The runtime is one thread that runs until the program has ended: a step *)
(* is enabled in every other state, so this is WF_vars(Next).              *)
Fairness == []<>(status \in {"done", "error"}) \/ []<><<TRUE>>_vars

Spec == Init /\ [][Next]_vars /\ Fairness

-----------------------------------------------------------------------------
(* Properties.                                                             *)

M == INSTANCE Meaning WITH Ancestors <- Superclasses, Numbers <- SmallInts

SourceOf(key) == IF key = MainKey THEN Source(program) ELSE Library[key]

Expected == M!Outcome((MainKey :> Source(program)) @@ Library, MainKey[2], <<Smi(1)>>)

TypeOK ==
  /\ status \in {"idle", "running", "done", "error"}
  /\ DOMAIN methods \subseteq DOMAIN Library \cup {MainKey, Launcher}
  /\ context.bp \in 0..Len(context.stack) /\ context.pc \in Nat

(* A program ends as its parse tree says, with the same value or with an   *)
(* error: what is inlined, captured, numbered, encoded, decoded,           *)
(* linearized and kept in frames on the way makes no difference.           *)
ResultIsMeaning ==
  status \in {"done", "error"} =>
    LET agrees(o) == status = o.status /\ (status = "done" => regR = o.v) IN agrees(Expected)

(* A program leaves in the variables of its objects what its parse tree    *)
(* says: in particular, a return from a block evaluates every block that   *)
(* was ensured between the return and its home.                            *)
EnsuredEvaluated == status = "done" => objects[1].named[1] = Expected.iv

(* The parser reads the tree that the tokens were written from: messages   *)
(* bind as unary, binary and keyword ones should, cascades keep their      *)
(* receiver, statements and declarations end where they should.            *)
ParsedAsWritten ==
  tokens # <<>> =>
    LET same(parsed) == parsed.p # 0 /\ Plain(parsed.n) = SourceOf(compiling) IN same(ParseMethod)

(* What a tree of either side of the treecodes has: its messages with      *)
(* their selectors, its blocks, assignments and returns.                   *)
RECURSIVE Skeleton(_)
Skeleton(n) ==
  LET each(ns) == [i \in DOMAIN ns |-> Skeleton(ns[i])]
  IN CASE n.k = "message" -> <<"message", n.sel, Skeleton(n.rcv), each(n.args)>>
       [] n.k = "cascade" ->
            <<"cascade", Skeleton(n.rcv),
              [i \in DOMAIN n.msgs |-> <<n.msgs[i].sel, each(n.msgs[i].args)>>]>>
       [] n.k \in {"assignment", "return"} -> <<n.k, Skeleton(n.expr)>>
       [] n.k \in {"block", "method"} -> <<n.k, each(n.body)>>
       [] n.k = "brace" -> Skeleton(Expanded(n))
       [] OTHER -> <<n.k>>

(* The decoder reads all the bytes the encoder wrote for a method, no more *)
(* and no less, and finds the tree that was compiled.                      *)
TreecodesKeepTree ==
  status = "idle" /\ tokens = <<>> /\ compiling \in Compiled =>
    LET m == methods[compiling]
        same(d) == d.p = Len(m.treecodes) + 1 /\ Skeleton(d.x) = Skeleton(SourceOf(compiling))
    IN same(DecodeMethod([bytes |-> m.treecodes, pool |-> m.literals]))

(* No operation reads an argument, a temporary, an operand or a captured   *)
(* variable where there is none or where a frame keeps a register, and no  *)
(* closure keeps such a value.                                             *)
NothingWild ==
  LET sound(v) == v[1] \notin {"wild", "raw"}
  IN /\ sound(regR)
     /\ \A i \in DOMAIN objects : \A j \in DOMAIN objects[i].slots : sound(objects[i].slots[j])

(* A block that returns leaves an activation of the method it was written  *)
(* in, however deep it is nested and whoever evaluates it, and that        *)
(* activation is below the frame of Closure>>return:.                      *)
NonLocalReturnsHome ==
  status = "running" /\ context.m[2] = ClosureReturnMethod =>
    LET closure == objects[context.s[2]]
        home    == FrameNumber(closure.named[2][2])
    IN home < context.bp /\ context.stack[home + 2] = CodeRef(closure.named[1][2], 0)

(* A step changes the stack only in the frame that is running: what the    *)
(* callers hold is as they left it when control comes back to them.        *)
CallersKept ==
  [][LET below == Min({context.bp - 2, Len(context'.stack)})
     IN SubSeq(context'.stack, 1, below) = SubSeq(context.stack, 1, below)]_vars

(* Every program ends: no jump of the linearizer and no return leads back  *)
(* to code that is done.                                                   *)
Terminates == <>(status \in {"done", "error"})
=============================================================================
