------------------------------- MODULE Scopes -------------------------------
(***************************************************************************)
(* What the compiler finds out about the names of a method before it       *)
(* writes code: SemanticVisitor with MessageInliner, the scopes of methods *)
(* and blocks, and their bindings.                                         *)
(*                                                                         *)
(* A script is the method, 0, or a block, named by its place.  A binding   *)
(* object is named <<s, n>>: the binding of name n that script s defines,  *)
(* or the copy that s keeps of a binding it captures.  An inlined block    *)
(* keeps no copy, it shares the object of the script around it.            *)
(* The analysis threads one record through the tree:                       *)
(*   scripts   the node of each script                                     *)
(*   inlined   the blocks whose code goes into the script around them      *)
(*   sends     the messages that are inlined, by place                     *)
(*   captured  per script, the bindings it captured, by name               *)
(*   envs      per script, the scripts whose environment it needs          *)
(*   self      per script, whether it needs the receiver                   *)
(*   bindings  per binding object: its kind, where its value lives ("arg", *)
(*             "inlined", "stack" or "array"), the environment that holds  *)
(*             it (-1 the current one) and its index there                 *)
(*   index, blocks, leaf   the numbering of the blocks and the sends       *)
(*   stack, env            per script, the slots given out so far          *)
(***************************************************************************)
EXTENDS ParseNodes

Unbound == <<-1, "">>

Pseudo == {"self", "super", "nil", "true", "false"}

IsInArray(b) == b.env = "array"

TemporaryBinding == [kind |-> "temp", env |-> "stack", envIndex |-> -1, index |-> -1]

ArgumentBinding == [kind |-> "arg", env |-> "arg", envIndex |-> -1, index |-> -1]

(* beInArray_: a fresh environment in the heap.                            *)
BeInArray(b) == [b EXCEPT !.env = "array", !.envIndex = -1]

-----------------------------------------------------------------------------
Defines(st, s, n) == n \in Range(st.scripts[s].params) \cup Range(st.scripts[s].temps)

Parent(st, s) == st.scripts[s].parent

ResolveLocal(st, s, n) ==
  CASE Defines(st, s, n) -> <<s, n>>
    [] ~Defines(st, s, n) /\ n \in DOMAIN st.captured[s] -> st.captured[s][n]
    [] OTHER -> Unbound

RECURSIVE Resolve(_, _, _)
Resolve(st, s, n) ==
  IF ResolveLocal(st, s, n) # Unbound \/ s = 0 THEN ResolveLocal(st, s, n)
  ELSE Resolve(st, Parent(st, s), n)

(* The names known in a script.                                            *)
RECURSIVE Visible(_, _)
Visible(scripts, s) ==
  Range(scripts[s].params) \cup Range(scripts[s].temps) \cup
  (IF s = 0 THEN Pseudo ELSE Visible(scripts, scripts[s].parent))

RECURSIVE ScriptDefining(_, _, _)
ScriptDefining(st, s, n) == IF Defines(st, s, n) THEN s ELSE ScriptDefining(st, Parent(st, s), n)

RECURSIVE RealScript(_, _)
RealScript(st, s) == IF s \in st.inlined THEN RealScript(st, Parent(st, s)) ELSE s

-----------------------------------------------------------------------------
(* Capturing.                                                              *)

(* copyLocal_, and the entry of the result in _captured.                   *)
CopyLocal(st, s, n, b) ==
  IF s \in st.inlined
    THEN [st EXCEPT !.captured[s] = (n :> b) @@ @]
    ELSE [st EXCEPT !.captured[s] = (n :> <<s, n>>) @@ @,
                    !.bindings = (<<s, n>> :> BeInArray(st.bindings[b])) @@ @]

RECURSIVE TransferLocal(_, _, _)
TransferLocal(st, s, n) ==
  IF ResolveLocal(st, s, n) # Unbound \/ s = 0 THEN st
  ELSE LET above == TransferLocal(st, Parent(st, s), n)
       IN CopyLocal(above, s, n, ResolveLocal(above, Parent(st, s), n))

RECURSIVE CaptureEnvironment(_, _, _)
CaptureEnvironment(st, s, e) ==
  IF s = 0 \/ s = e \/ e \in Range(st.envs[s]) THEN st
  ELSE LET above == CaptureEnvironment(st, RealScript(st, Parent(st, s)), e)
       IN [above EXCEPT !.envs[s] = IF e = 0 THEN <<e>> \o @ ELSE Append(@, e)]

RECURSIVE CaptureSelf(_, _)
CaptureSelf(st, s) ==
  IF s = 0 THEN [st EXCEPT !.self[s] = TRUE]
  ELSE IF st.self[s] THEN st
  ELSE CaptureSelf([st EXCEPT !.self[s] = TRUE], Parent(st, s))

CaptureArgument(st, s, n) ==
  LET above == TransferLocal(st, Parent(st, s), n)
  IN CopyLocal(above, s, n, ResolveLocal(above, Parent(st, s), n))

(* The environment of the declaring script is needed all the way up, and   *)
(* the variable moves to it when the copy lives there.                     *)
CaptureTemporary(st, s, n) ==
  LET b     == Resolve(st, s, n)
      decl  == ScriptDefining(st, Parent(st, s), n)
      above == TransferLocal(CaptureEnvironment(st, RealScript(st, s), RealScript(st, decl)),
                             Parent(st, s), n)
      done  == CopyLocal(above, s, n, ResolveLocal(above, Parent(st, s), n))
  IN IF IsInArray(done.bindings[done.captured[s][n]])
       THEN [done EXCEPT !.bindings[b] = BeInArray(@)]
       ELSE done

CaptureLocal(st, s, n) ==
  IF s = 0 \/ ResolveLocal(st, s, n) # Unbound THEN st
  ELSE IF st.bindings[Resolve(st, s, n)].kind = "temp" THEN CaptureTemporary(st, s, n)
  ELSE CaptureArgument(st, s, n)

(* analyzeIdentifier_assignee_: self, super and the names that are looked  *)
(* up at run time need the receiver, a local is captured.                  *)
AnalyzeIdentifier(st, s, n) ==
  IF Resolve(st, s, n) # Unbound THEN CaptureLocal(st, s, n)
  ELSE IF n \in {"nil", "true", "false"} THEN st
  ELSE CaptureSelf(st, s)

-----------------------------------------------------------------------------
(* MessageInliner. The receiver is not bound when it is asked whether it   *)
(* is super, so that question stops nothing.                               *)

Conditionals ==
  {<<"ifTrue:">>, <<"ifFalse:">>, <<"or:">>, <<"and:">>, <<"timesRepeat:">>, <<"andNot:">>,
   <<"orNot:">>, <<"ifNil:">>, <<"ifTrue:", "ifFalse:">>, <<"ifFalse:", "ifTrue:">>}

AllAre(sel, key) == \A i \in DOMAIN sel : sel[i] = key

(* and:and:... or:or:..., also with a last ifTrue: or ifFalse:.            *)
IsConditional(sel) ==
  \/ sel \in Conditionals
  \/ \E key \in {"and:", "or:"} :
       \/ AllAre(sel, key)
       \/ Len(sel) > 1 /\ AllAre(Front(sel), key) /\ Last(sel) \in {"ifTrue:", "ifFalse:"}

IsUnaryBlock(n) == n.k = "block" /\ Len(n.params) = 1

NullaryOrUnary(n, bound) == IsEvaluable(n, bound) \/ IsUnaryBlock(n)

(* Whether a message is inlined. The arity a selector has is the arity the *)
(* code tests.                                                             *)
IsInlined(m, bound) ==
  CASE m.sel = <<"ifNotNil:">> -> NullaryOrUnary(m.args[1], bound)
    [] m.sel = <<"ifNil:", "ifNotNil:">> ->
         IsEvaluable(m.args[1], bound) /\ NullaryOrUnary(m.args[2], bound)
    [] m.sel = <<"ifNotNil:", "ifNil:">> ->
         IsEvaluable(m.args[2], bound) /\ NullaryOrUnary(m.args[1], bound)
    [] m.sel \in {<<"whileTrue:">>, <<"whileFalse:">>} ->
         IsEvaluable(m.rcv, bound) /\ m.args[1].k = "block" /\ m.args[1].params = <<>>
    [] m.sel \in {<<"whileTrue">>, <<"whileFalse">>, <<"repeat">>} ->
         m.rcv.k = "block" /\ m.rcv.params = <<>>
    [] m.sel = <<"to:", "do:">> -> IsUnaryBlock(m.args[2])
    [] IsConditional(m.sel) -> \A i \in DOMAIN m.args : IsEvaluable(m.args[i], bound)
    [] OTHER -> FALSE

(* The blocks that go inline with it: a loop takes its receiver too, and   *)
(* to:do: only its body.                                                   *)
InlinedBlocks(m) ==
  LET loop  == m.sel[1] \in {"whileTrue:", "whileFalse:", "whileTrue", "whileFalse", "repeat"}
      parts == (IF m.sel = <<"to:", "do:">> THEN {m.args[2]} ELSE Range(m.args))
               \cup (IF loop THEN {m.rcv} ELSE {})
  IN {n.pos : n \in {x \in parts : x.k = "block"}}

(* beInlined_: the arguments of an inlined block are slots of the frame.   *)
BeInlined(st, bs) ==
  [st EXCEPT !.inlined = @ \cup bs,
             !.bindings = [b \in DOMAIN @ |->
                IF b[1] \in bs /\ @[b].kind = "arg" /\ b[2] \in Range(st.scripts[b[1]].params)
                  THEN [@[b] EXCEPT !.env = "inlined", !.envIndex = -1] ELSE @[b]]]

(* The names of arguments, temporaries, nil, true and false. They are     *)
(* bound below a message that is analyzed again, as part of the receiver   *)
(* of a cascade, and not yet when it is analyzed first.                    *)
LiteralNames(st, u) ==
  IF u.again THEN Visible(st.scripts, u.in) \ {"self", "super"} ELSE {}

AnalyzeMessage(st, u, m) ==
  IF IsInlined(m, LiteralNames(st, u))
    THEN [BeInlined(st, InlinedBlocks(m)) EXCEPT !.sends = @ \cup {m.pos}]
    ELSE [st EXCEPT !.leaf = FALSE]

-----------------------------------------------------------------------------
(* SemanticVisitor. The uses of a tree, with the script each one is in, in *)
(* the order in which the visitor meets them: a message is analyzed before *)
(* its receiver and arguments, an assignee before the expression, and a    *)
(* return asks for the home of its script once its expression is done. The *)
(* messages of a cascade are not inlined and visit the receiver again.     *)

RECURSIVE UsesOf(_, _, _)
UsesOf(n, s, again) ==
  LET all(ns, in) == Flat([i \in DOMAIN ns |-> UsesOf(ns[i], in, again)])
      use == <<[node |-> n, in |-> s, again |-> again]>>
  IN CASE n.k = "identifier" -> use
       [] n.k = "message"    -> use \o all(<<n.rcv>> \o n.args, s)
       [] n.k = "assignment" -> all(<<n.to, n.expr>>, s)
       [] n.k = "return"     -> UsesOf(n.expr, s, again) \o use
       [] n.k = "cascade"    ->
            UsesOf(n.rcv, s, again) \o
            Flat([i \in DOMAIN n.msgs |-> use \o UsesOf(n.rcv, s, TRUE) \o all(n.msgs[i].args, s)])
       [] n.k = "brace"      -> UsesOf(Expanded(n), s, again)
       [] n.k = "block"      -> use \o all(n.body, n.pos)
       [] OTHER -> <<>>

(* A block that is not inlined gets the next number.                       *)
VisitBlockScope(st, n) ==
  IF n.pos \in st.inlined THEN st
  ELSE [st EXCEPT !.index[n.pos] = st.blocks, !.blocks = @ + 1]

VisitUse(st, u) ==
  CASE u.node.k = "identifier" -> AnalyzeIdentifier(st, u.in, u.node.name)
    [] u.node.k = "message"    -> AnalyzeMessage(st, u, u.node)
    [] u.node.k = "cascade"    -> [st EXCEPT !.leaf = FALSE]
    [] u.node.k = "return"     -> CaptureEnvironment(st, RealScript(st, u.in), 0)
    [] u.node.k = "block"      -> VisitBlockScope(st, u.node)

(* One use after the other. In halves, and with the result of the first    *)
(* half bound as the element of a set, so that TLC has it before it goes   *)
(* on and the evaluation is not deep.                                      *)
RECURSIVE VisitUses(_, _)
VisitUses(st, us) ==
  LET half == Len(us) \div 2
  IN CASE Len(us) = 0 -> st
       [] Len(us) = 1 -> VisitUse(st, us[1])
       [] OTHER -> CHOOSE done \in {VisitUses(mid, SubSeq(us, half + 1, Len(us))) :
                                       mid \in {VisitUses(st, SubSeq(us, 1, half))}} : TRUE

-----------------------------------------------------------------------------
(* Positions.                                                              *)

(* The place of the environment of script e among the slots of the closure *)
(* of s: the receiver comes first; -1 for the environment of s itself.     *)
CapturedEnvironmentIndexOf(st, s, e) ==
  IF RealScript(st, e) = RealScript(st, s) THEN -1
  ELSE (CHOOSE i \in DOMAIN st.envs[s] : st.envs[s][i] = e) + (IF st.self[s] THEN 1 ELSE 0)

GrowStack(st, s, b) ==
  [st EXCEPT !.stack[s] = @ + 1, !.bindings[b].index = st.stack[s] + 1]

GrowEnvironment(st, s, b) ==
  [st EXCEPT !.env[s] = @ + 1, !.bindings[b].index = st.env[s] + 1]

PositionCaptured(st, s, n) ==
  LET b    == <<s, n>>
      decl == ScriptDefining(st, s, n)
  IN IF st.bindings[b].kind = "arg" THEN GrowEnvironment(st, s, b)
     ELSE [st EXCEPT !.bindings[b].envIndex =
                          CapturedEnvironmentIndexOf(st, s, RealScript(st, decl)),
                     !.bindings[b].index = st.bindings[<<decl, n>>].index]

(* The environment of a closure begins with the receiver and the           *)
(* environments it captures, then come the arguments it captures.          *)
PositionCapturedLocals(st, s) ==
  IF s = 0 \/ s \in st.inlined THEN st
  ELSE FoldLeft(LAMBDA acc, n : PositionCaptured(acc, s, n),
                [st EXCEPT !.env[s] = Len(st.envs[s]) + (IF st.self[s] THEN 1 ELSE 0)],
                SetToSeq(DOMAIN st.captured[s]))

(* What an inlined block defines lives in the real script around it.       *)
PositionDefinedLocals(st, s) ==
  LET real  == RealScript(st, s)
      place(acc, n) == IF IsInArray(acc.bindings[<<s, n>>])
                         THEN GrowEnvironment(acc, real, <<s, n>>)
                         ELSE GrowStack(acc, real, <<s, n>>)
      params == st.scripts[s].params
      temps  == FoldLeft(place, st, SetToSeq(Range(st.scripts[s].temps)))
  IN IF s \in st.inlined THEN FoldLeft(place, temps, SetToSeq(Range(params)))
     ELSE [temps EXCEPT !.bindings = [b \in DOMAIN @ |->
             IF b[1] = s /\ b[2] \in Range(params)
               THEN [@[b] EXCEPT !.index = CHOOSE i \in DOMAIN params : params[i] = b[2]]
               ELSE @[b]]]

PositionLocals(st, order) ==
  FoldLeft(LAMBDA acc, s : PositionDefinedLocals(PositionCapturedLocals(acc, s), s), st, order)

-----------------------------------------------------------------------------
(* bindLocals: an argument may not hide a name that is known where it is   *)
(* declared, a temporary only not one of its own script.                   *)

Redefines(scripts) ==
  \E s \in DOMAIN scripts :
    LET params == scripts[s].params
        temps  == scripts[s].temps
        above  == IF s = 0 THEN Pseudo ELSE Visible(scripts, scripts[s].parent)
    IN \/ \E i \in DOMAIN params : params[i] \in above \cup Range(SubSeq(params, 1, i - 1))
       \/ \E i \in DOMAIN temps : temps[i] \in Range(SubSeq(temps, 1, i - 1))

ScriptsOf(m) ==
  LET bs == BlocksOf(m)
  IN [s \in {0} \cup {bs[i].pos : i \in DOMAIN bs} |->
        IF s = 0 THEN m ELSE bs[CHOOSE i \in DOMAIN bs : bs[i].pos = s]]

BindLocals(m) ==
  LET scripts == ScriptsOf(m)
      S == DOMAIN scripts
      names(s) == Range(scripts[s].params) \cup Range(scripts[s].temps)
  IN [scripts  |-> scripts,
      inlined  |-> {}, sends |-> {},
      captured |-> [s \in S |-> <<>>],
      envs     |-> [s \in S |-> <<>>],
      self     |-> [s \in S |-> FALSE],
      bindings |-> [b \in UNION {{s} \X names(s) : s \in S} |->
                      IF b[2] \in Range(scripts[b[1]].temps) THEN TemporaryBinding
                      ELSE ArgumentBinding],
      index    |-> [s \in S |-> 0], blocks |-> 0, leaf |-> TRUE,
      stack    |-> [s \in S |-> 0], env |-> [s \in S |-> 0]]

(* visitMethod_: declarations, uses, positions.                            *)
ResolveSemantics(m) ==
  LET bound == BindLocals(m)
      used  == VisitUses(bound, Flat([i \in DOMAIN m.body |-> UsesOf(m.body[i], 0, FALSE)]))
      bs    == BlocksOf(m)
  IN PositionLocals(used, <<0>> \o [i \in DOMAIN bs |-> bs[i].pos])

(* Whether a closure needs the frame of its method: for a return, or       *)
(* because it captures a variable of the method.                           *)
CapturesHome(st, s) == 0 \in Range(st.envs[s])

(* needsEnvironment, needsFrame.                                           *)
RECURSIVE UsesHome(_, _)
UsesHome(st, s) ==
  IF s \in st.inlined
    THEN \E c \in DOMAIN st.scripts \ {0} : Parent(st, c) = s /\ UsesHome(st, c)
    ELSE CapturesHome(st, s)

NeedsEnvironment(st) ==
  st.env[0] > 0 \/ \E s \in DOMAIN st.scripts \ {0} : Parent(st, s) = 0 /\ UsesHome(st, s)
=============================================================================
