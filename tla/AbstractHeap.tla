---------------------------- MODULE AbstractHeap ----------------------------
(***************************************************************************)
(* What the program sees of the heap: objects with an identity, their      *)
(* fields, and the variables (roots) through which it reaches them.  There *)
(* are no addresses and there is no collection: an object exists for as    *)
(* long as it can be reached.  The one thing a collector may do that the   *)
(* program notices is to rescue ephemerons whose keys would otherwise be   *)
(* garbage.                                                                *)
(***************************************************************************)
EXTENDS Integers, FiniteSets

CONSTANTS
  Id,        \* identities of objects
  Root,      \* variables of the program
  Field,     \* fields of an object; 0 is its behavior, 1 the key of an ephemeron
  Nil

VARIABLES
  roots,     \* what each variable refers to
  graph      \* the objects that can be reached

vars == <<roots, graph>>

Key == 1

Refs(g) == DOMAIN g \union {Nil}

(* The fields that keep what they refer to alive by themselves: of an      *)
(* active ephemeron, only its behavior.                                    *)
Strong(object) == IF object.special THEN {0} ELSE Field

(* The least set that contains what start refers to and is closed under    *)
(* following, in g, the fields that Followed(i, set) allows for object i.  *)
Closure(start, g, Followed(_, _)) ==
  {i \in DOMAIN g :
     \A S \in SUBSET DOMAIN g :
       /\ start \ {Nil} \subseteq S
       /\ \A j \in S, f \in Field :
            f \in Followed(j, S) => g[j].fields[f] \in S \union {Nil}
       => i \in S}

(* Everything the program can get at, through any field.                   *)
Reachable(rts, g) ==
  Closure({rts[r] : r \in Root}, g, LAMBDA i, S : Field)

(* Everything that is alive: an ephemeron keeps what it refers to only     *)
(* while its key is alive.                                                 *)
KeyIn(object, S) == object.fields[Key] \in S \union {Nil}

Alive(g) ==
  Closure({roots[r] : r \in Root}, g,
          LAMBDA i, S : IF KeyIn(g[i], S) THEN Field ELSE Strong(g[i]))

(* The program sees the part of g that it can reach.                       *)
Sees(g) == graph' = [i \in Reachable(roots', g) |-> g[i]]

Blank(ephemeron) ==
  [special |-> ephemeron, fields |-> [f \in Field |-> Nil]]

WithNew(i, ephemeron) ==
  [j \in DOMAIN graph \union {i} |-> IF j = i THEN Blank(ephemeron) ELSE graph[j]]

NewInRoot(i, ephemeron, r) ==
  /\ i \notin DOMAIN graph
  /\ roots' = [roots EXCEPT ![r] = i]
  /\ Sees(WithNew(i, ephemeron))

NewInField(i, ephemeron, j, f) ==
  /\ i \notin DOMAIN graph
  /\ j \in DOMAIN graph
  /\ roots' = roots
  /\ Sees([WithNew(i, ephemeron) EXCEPT ![j].fields[f] = i])

SetRoot(r, ref) ==
  /\ roots' = [roots EXCEPT ![r] = ref]
  /\ Sees(graph)

Store(j, f, ref) ==
  /\ roots' = roots
  /\ Sees([graph EXCEPT ![j].fields[f] = ref])

(* Ephemerons are rescued: all of those that are alive while their key is  *)
(* not, and perhaps some that only come alive through those, but none      *)
(* whose key is alive.                                                     *)
Rescue(rescued) ==
  LET alive == Alive(graph)
      dying == {i \in DOMAIN graph : graph[i].special /\ ~KeyIn(graph[i], alive)}
  IN  /\ dying \intersect alive \subseteq rescued
      /\ rescued \subseteq dying
      /\ roots' = roots
      /\ Sees([i \in DOMAIN graph |->
                 IF i \in rescued THEN [graph[i] EXCEPT !.special = FALSE] ELSE graph[i]])

Init ==
  /\ roots = [r \in Root |-> Nil]
  /\ graph = [i \in {} |-> Nil]

(* A step that changes nothing is left to the stuttering of Spec.          *)
Next ==
  /\ vars' # vars
  /\ \/ \E i \in Id, ephemeron \in BOOLEAN :
          \/ \E r \in Root : NewInRoot(i, ephemeron, r)
          \/ \E j \in DOMAIN graph, f \in Field : NewInField(i, ephemeron, j, f)
     \/ \E r \in Root, ref \in Refs(graph) : SetRoot(r, ref)
     \/ \E j \in DOMAIN graph, f \in Field, ref \in Refs(graph) : Store(j, f, ref)
     \/ \E rescued \in SUBSET DOMAIN graph : Rescue(rescued)

Spec == Init /\ [][Next]_vars
=============================================================================
