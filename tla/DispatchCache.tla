--------------------------- MODULE DispatchCache ----------------------------
(***************************************************************************)
(* How a message finds its method: the inline cache of the send site       *)
(* (SAbstractMessage.h), the global cache and the lookup through the       *)
(* behaviors (Runtime.cpp), and how installing or removing a method, in    *)
(* Smalltalk, flushes both (MethodDictionary.st and the primitives         *)
(* FlushDispatchCaches and FlushFromCaches).  Selectors and behaviors are  *)
(* known to the caches by their hashes, which are taken to be different.   *)
(***************************************************************************)
EXTENDS Integers, Sequences, FiniteSets

CONSTANTS
  Behavior,       \* hashes of the behaviors
  Lineage,        \* each behavior and what behaviorNext_ leads to from it
  Selector,       \* hashes of the selectors
  Undermessage,   \* the selectors that the evaluator implements itself
  Site,           \* send sites (SAbstractMessage)
  SelectorOf,     \* the selector of each site
  Version,        \* versions of a method that may be installed
  Nil

ASSUME HashAssumption == Behavior \subseteq Nat /\ Selector \subseteq Nat
ASSUME HierarchyAssumption ==
  /\ Lineage \in [Behavior -> Seq(Behavior)]
  /\ \A b \in Behavior : Lineage[b] # <<>> /\ Lineage[b][1] = b
ASSUME SiteAssumption == SelectorOf \in [Site -> Selector] /\ Undermessage \subseteq Selector

VARIABLES
  methodDictionary,  \* the methods of each behavior
  inlineCache,       \* SAbstractMessage::_cache of each site
  inlineCaches,      \* Runtime::_inlineCaches: lists of sites, by selector
  globalCache,       \* Runtime::_globalCache
  removing           \* the method that is being removed, or Nil

vars == <<methodDictionary, inlineCache, inlineCaches, globalCache, removing>>

(* A method knows its selector, and where it is installed.                 *)
Method == [selector : Selector, behavior : Behavior, version : Version]

(* What an inline cache holds: pairs of behavior and method, or one        *)
(* undermessage.                                                           *)
Pair == [behavior : Behavior, method : Method]
CachedUndermessage == [undermessage |-> TRUE]

Init ==
  /\ methodDictionary = [b \in Behavior |-> [s \in Selector |-> Nil]]
  /\ inlineCache = [site \in Site |-> <<>>]
  /\ inlineCaches = {}
  /\ globalCache = {}
  /\ removing = Nil

-----------------------------------------------------------------------------
(* GCedRef::Comparator, with which the two std::maps are ordered.          *)
precedesStrictly(a, b) == a < b   \* mutant: a strict order

precedes(a, b) == a <= b

pairPrecedes(a, b) == a[1] < b[1] \/ (a[1] = b[1] /\ precedes(a[2], b[2]))

(* std::map::find takes the first entry that does not precede the key, and *)
(* finds it unless the key precedes it: the entries that are equivalent.   *)
findSelector(selector) ==
  {e \in inlineCaches :
     ~precedes(e.selector, selector) /\ ~precedes(selector, e.selector)}

findPair(selector, behavior) ==
  LET key == <<selector, behavior>> IN
  {e \in globalCache : ~pairPrecedes(e.key, key) /\ ~pairPrecedes(key, e.key)}

-----------------------------------------------------------------------------
(* doLookup_startingAt_: the first method on the way up.                   *)
doLookup(selector, behavior) ==
  LET line    == Lineage[behavior]
      holders == {k \in DOMAIN line : methodDictionary[line[k]][selector] # Nil}
  IN  IF holders = {} THEN Nil
      ELSE methodDictionary[line[CHOOSE k \in holders : \A j \in holders : k <= j]][selector]

(* lookup_startingAt_: through the global cache.                           *)
lookup(selector, behavior) ==
  LET found == findPair(selector, behavior) IN
  IF found # {} THEN (CHOOSE e \in found : TRUE).method
  ELSE doLookup(selector, behavior)

hasUndermessage(site) == inlineCache[site] = <<CachedUndermessage>>

(* methodFor_: the pair for the behavior, if there is one.                 *)
pairsFor(site, behavior) ==
  IF hasUndermessage(site) THEN {}
  ELSE {k \in DOMAIN inlineCache[site] : inlineCache[site][k].behavior = behavior}

(* Mutant: the site is registered after its cache was filled.              *)
registeredTooLate(site) == inlineCaches

(* registerCacheWith_: a site whose cache is empty is added to the list of *)
(* its selector, or to a new one when none is found.                       *)
registered(site) ==
  LET selector == SelectorOf[site]
      found    == findSelector(selector)
  IN  IF inlineCache[site] # <<>> THEN inlineCaches
      ELSE IF found = {}
      THEN inlineCaches \union {[selector |-> selector, sites |-> {site}]}
      ELSE {IF e \in found THEN [e EXCEPT !.sites = @ \union {site}] ELSE e :
              e \in inlineCaches}

-----------------------------------------------------------------------------
(* visitOpDispatchMessage, when the inline cache of the site does not      *)
(* answer it: an undermessage ...                                          *)
SendUndermessage(site, behavior) ==
  /\ ~hasUndermessage(site)
  /\ pairsFor(site, behavior) = {}
  /\ SelectorOf[site] \in Undermessage
  /\ inlineCache' = [inlineCache EXCEPT ![site] = Append(@, CachedUndermessage)]
  /\ UNCHANGED <<methodDictionary, inlineCaches, globalCache, removing>>

(* Mutant: what was not found is cached, too.                              *)
SendMethodUnchecked(site, behavior) ==
  /\ pairsFor(site, behavior) = {}
  /\ SelectorOf[site] \notin Undermessage
  /\ inlineCaches' = registered(site)
  /\ inlineCache' = [inlineCache EXCEPT ![site] =
       Append(@, [behavior |-> behavior, method |-> lookup(SelectorOf[site], behavior)])]
  /\ UNCHANGED <<methodDictionary, globalCache, removing>>

(* ... or a method, which is cached on the way (lookup_startingAt_ and     *)
(* lookup_startingAt_sendSite_).                                           *)
SendMethod(site, behavior) ==
  LET selector == SelectorOf[site]
      method   == lookup(selector, behavior)
  IN
  /\ ~hasUndermessage(site)
  /\ pairsFor(site, behavior) = {}
  /\ selector \notin Undermessage
  /\ method # Nil
  /\ globalCache' =
       IF findPair(selector, behavior) # {} THEN globalCache
       ELSE globalCache \union {[key |-> <<selector, behavior>>, method |-> method]}
  /\ inlineCaches' = registered(site)
  /\ inlineCache' = [inlineCache EXCEPT
       ![site] = Append(@, [behavior |-> behavior, method |-> method])]
  /\ UNCHANGED <<methodDictionary, removing>>

(* Both flushes clear the inline caches of the sites they find.            *)
flushInlineCaches(selector) ==
  LET sites == UNION {e.sites : e \in findSelector(selector)} IN
  inlineCache' = [site \in Site |-> IF site \in sites THEN <<>> ELSE inlineCache[site]]

(* MethodDictionary>>at:put: of a method that can be installed, and then   *)
(* flushDispatchCache_in_, which knows of one key of the global cache.     *)
Install(behavior, selector, version) ==
  LET method == [selector |-> selector, behavior |-> behavior, version |-> version] IN
  /\ removing = Nil
  /\ methodDictionary' = [methodDictionary EXCEPT ![behavior][selector] = method]
  /\ flushInlineCaches(selector)
  /\ globalCache' = globalCache \ findPair(selector, behavior)
  /\ UNCHANGED <<inlineCaches, removing>>

(* MethodDictionary>>basicRemoveKey:ifAbsent: copies the dictionary and    *)
(* calls flushDispatchCache_ when it meets the method, which collects the  *)
(* keys of the selector and erases what it finds by them ...               *)
FlushRemoved(behavior, selector) ==
  LET cached == {e.key : e \in {g \in globalCache : g.key[1] = selector}} IN
  /\ removing = Nil
  /\ methodDictionary[behavior][selector] # Nil
  /\ removing' = <<behavior, selector>>
  /\ flushInlineCaches(selector)
  /\ globalCache' = globalCache \ UNION {findPair(key[1], key[2]) : key \in cached}
  /\ UNCHANGED <<methodDictionary, inlineCaches>>

(* ... and only replaces the table by the copy after the loop, which sends *)
(* messages of its own.                                                    *)
Remove ==
  /\ removing # Nil
  /\ methodDictionary' = [methodDictionary EXCEPT ![removing[1]][removing[2]] = Nil]
  /\ removing' = Nil
  /\ UNCHANGED <<inlineCache, inlineCaches, globalCache>>

Next ==
  \/ \E site \in Site, behavior \in Behavior :
       SendUndermessage(site, behavior) \/ SendMethod(site, behavior)
  \/ \E behavior \in Behavior, selector \in Selector, version \in Version :
       Install(behavior, selector, version)
  \/ \E behavior \in Behavior, selector \in Selector : FlushRemoved(behavior, selector)
  \/ Remove

Spec == Init /\ [][Next]_vars

-----------------------------------------------------------------------------
(* An inline cache has the shape by which the code reads it: pairs whose   *)
(* method is there, at a site of a method, and at most one undermessage,   *)
(* which SAbstractMessage::cachedUndermessage tells by the size, at a site *)
(* of an undermessage.                                                     *)
TypeOK ==
  /\ methodDictionary \in [Behavior -> [Selector -> Method \union {Nil}]]
  /\ inlineCache \in [Site -> Seq(Pair) \union {<<CachedUndermessage>>}]
  /\ \A site \in Site : SelectorOf[site] \in Undermessage
       => inlineCache[site] \in {<<>>, <<CachedUndermessage>>}
  /\ \A site \in Site : SelectorOf[site] \notin Undermessage
       => inlineCache[site] \in Seq(Pair)
  /\ inlineCaches \subseteq [selector : Selector, sites : SUBSET Site]
  /\ globalCache \subseteq [key : Selector \X Behavior, method : Method]
  /\ removing \in (Behavior \X Selector) \union {Nil}

(* Every site that has cached a method is on a list that flushing its      *)
(* selector goes through (registerCacheWith_, called before cache_when_):  *)
(* a site filled without being registered would be out of reach of every   *)
(* flush.                                                                  *)
CachedSitesRegistered ==
  \A site \in Site :
    inlineCache[site] # <<>> /\ ~hasUndermessage(site)
      => \E e \in inlineCaches : e.selector = SelectorOf[site] /\ site \in e.sites

(* A site that meets a behavior for the first time gets the method that    *)
(* the dictionaries hold at that moment, whatever was cached before for    *)
(* the same selector and behavior (lookup_startingAt_sendSite_).           *)
NewPairsCurrent ==
  [][\A site \in Site :
       /\ Len(inlineCache'[site]) > Len(inlineCache[site])
       /\ SelectorOf[site] \notin Undermessage
       => LET pair == inlineCache'[site][Len(inlineCache'[site])] IN
          pair.method = doLookup(SelectorOf[site], pair.behavior)]_vars

(* A method that was replaced or removed is in no inline cache             *)
(* (MethodDictionary>>at:put: ends with "aSymbol flushCacheFor: self       *)
(* classBinding").                                                         *)
InlineCachesCurrent ==
  \A site \in Site :
    ~hasUndermessage(site) =>
      \A k \in DOMAIN inlineCache[site] :
        LET pair == inlineCache[site][k] IN
        pair.method = doLookup(SelectorOf[site], pair.behavior)
=============================================================================
