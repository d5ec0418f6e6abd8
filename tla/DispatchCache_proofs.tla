------------------------ MODULE DispatchCache_proofs ------------------------
(***************************************************************************)
(* Proofs about the dispatch caches, for every set of behaviors, whatever  *)
(* they inherit, every set of selectors with different hashes, and any     *)
(* number of send sites.                                                   *)
(***************************************************************************)
EXTENDS DispatchCache, WellFoundedInduction, TLAPS

-----------------------------------------------------------------------------
(* GCedRef::Comparator is reflexive: of two keys, one precedes the other,  *)
(* even when they are the same key.  So std::map::find finds nothing.      *)
LEMMA SelectorsNotFound ==
  ASSUME TypeOK, NEW selector \in Selector
  PROVE  findSelector(selector) = {}
  <1>1. \A e \in inlineCaches : e.selector \in Nat /\ selector \in Nat
    BY HashAssumption DEF TypeOK
  <1> QED
    BY <1>1 DEF findSelector, precedes

LEMMA PairsNotFound ==
  ASSUME TypeOK, NEW selector \in Selector, NEW behavior \in Behavior
  PROVE  findPair(selector, behavior) = {}
  <1>1. \A e \in globalCache : e.key[1] \in Nat /\ e.key[2] \in Nat
    BY HashAssumption DEF TypeOK
  <1>2. selector \in Nat /\ behavior \in Nat
    BY HashAssumption
  <1> QED
    BY <1>1, <1>2 DEF findPair, pairPrecedes, precedes

(* A set of natural numbers that is not empty has a smallest element.      *)
LEMMA Smallest ==
  ASSUME NEW S \in SUBSET Nat, S # {}
  PROVE  \E k \in S : \A j \in S : k <= j
  <1>1. IsWellFoundedOn(OpToRel(<, Nat), Nat)
    BY NatLessThanWellFounded
  <1>2. PICK k \in S : \A j \in S : ~(<<j, k>> \in OpToRel(<, Nat))
    BY <1>1, WFMin
  <1>3. \A j \in S : ~(j < k)
    BY <1>2 DEF OpToRel
  <1> QED
    BY <1>3

(* What the lookup through the behaviors answers is a method, or nothing.  *)
LEMMA LookupFindsMethods ==
  ASSUME TypeOK, NEW selector \in Selector, NEW behavior \in Behavior
  PROVE  doLookup(selector, behavior) \in Method \union {Nil}
  <1> DEFINE line    == Lineage[behavior]
             holders == {k \in DOMAIN line : methodDictionary[line[k]][selector] # Nil}
             first   == CHOOSE k \in holders : \A j \in holders : k <= j
  <1>1. line \in Seq(Behavior)
    BY HierarchyAssumption
  <1>2. \A k \in DOMAIN line : methodDictionary[line[k]][selector] \in Method \union {Nil}
    BY <1>1 DEF TypeOK
  <1>3. CASE holders = {}
    BY <1>3 DEF doLookup
  <1>4. CASE holders # {}
    <2>1. holders \in SUBSET Nat
      BY <1>1
    <2>2. first \in holders
      <3> HIDE DEF holders
      <3> QED BY <1>4, <2>1, Smallest
    <2>3. doLookup(selector, behavior) = methodDictionary[line[first]][selector]
      BY <1>4 DEF doLookup
    <2> QED
      BY <2>2, <2>3, <1>2
  <1> QED
    BY <1>3, <1>4

(* The global cache never answers, so every lookup goes through the        *)
(* behaviors.                                                              *)
LEMMA LookupIsCurrent ==
  ASSUME TypeOK, NEW selector \in Selector, NEW behavior \in Behavior
  PROVE  lookup(selector, behavior) = doLookup(selector, behavior)
  BY PairsNotFound DEF lookup

-----------------------------------------------------------------------------
(* No flush finds a site, so flushing changes no inline cache.             *)
LEMMA FlushFindsNoSite ==
  ASSUME TypeOK, NEW selector \in Selector, flushInlineCaches(selector)
  PROVE  inlineCache' = inlineCache
  BY SelectorsNotFound DEF flushInlineCaches, TypeOK

(* A site that has nothing cached is added to the lists.                   *)
LEMMA RegisteredSites ==
  ASSUME TypeOK, NEW site \in Site
  PROVE  /\ registered(site) \subseteq [selector : Selector, sites : SUBSET Site]
         /\ inlineCaches \subseteq registered(site)
         /\ inlineCache[site] = <<>> =>
              [selector |-> SelectorOf[site], sites |-> {site}] \in registered(site)
  <1>1. SelectorOf[site] \in Selector
    BY SiteAssumption
  <1>2. findSelector(SelectorOf[site]) = {}
    BY <1>1, SelectorsNotFound
  <1> QED
    BY <1>1, <1>2 DEF registered, TypeOK

-----------------------------------------------------------------------------
(* Every cache has the shape by which the code reads it, in every state.   *)
THEOREM CacheShapes == Spec => []TypeOK
<1>1. Init => TypeOK
  BY SiteAssumption DEF Init, TypeOK
<1>2. TypeOK /\ [Next]_vars => TypeOK'
  <2> SUFFICES ASSUME TypeOK, [Next]_vars PROVE TypeOK'
    OBVIOUS
  <2>1. ASSUME NEW site \in Site, NEW behavior \in Behavior,
               SendUndermessage(site, behavior)
        PROVE  TypeOK'
    <3>1. inlineCache[site] = <<>>
      BY <2>1 DEF SendUndermessage, TypeOK, hasUndermessage
    <3>2. inlineCache' = [inlineCache EXCEPT ![site] = <<CachedUndermessage>>]
      BY <2>1, <3>1 DEF SendUndermessage, TypeOK
    <3> QED
      BY <2>1, <3>2 DEF SendUndermessage, TypeOK
  <2>2. ASSUME NEW site \in Site, NEW behavior \in Behavior, SendMethod(site, behavior)
        PROVE  TypeOK'
    <3> DEFINE selector == SelectorOf[site]
               method   == lookup(selector, behavior)
    <3>1. selector \in Selector
      BY SiteAssumption
    <3>2. method \in Method
      BY <2>2, <3>1, LookupIsCurrent, LookupFindsMethods DEF SendMethod
    <3>3. globalCache' \subseteq [key : Selector \X Behavior, method : Method]
      <4> HIDE DEF method
      <4>1. [key |-> <<selector, behavior>>, method |-> method]
              \in [key : Selector \X Behavior, method : Method]
        BY <3>1, <3>2
      <4> QED
        BY <2>2, <4>1 DEF SendMethod, TypeOK, method
    <3>4. inlineCaches' \subseteq [selector : Selector, sites : SUBSET Site]
      BY <2>2, RegisteredSites DEF SendMethod
    <3>5. [behavior |-> behavior, method |-> method] \in Pair
      BY <3>2 DEF Pair
    <3>6. inlineCache[site] \in Seq(Pair) /\ selector \notin Undermessage
      BY <2>2 DEF SendMethod, TypeOK
    <3>7. Append(inlineCache[site], [behavior |-> behavior, method |-> method]) \in Seq(Pair)
      BY <3>5, <3>6
    <3>8. inlineCache' = [inlineCache EXCEPT ![site] =
            Append(inlineCache[site], [behavior |-> behavior, method |-> method])]
      BY <2>2 DEF SendMethod
    <3> QED
      <4> HIDE DEF method
      <4> QED BY <2>2, <3>3, <3>4, <3>6, <3>7, <3>8 DEF SendMethod, TypeOK
  <2>3. ASSUME NEW behavior \in Behavior, NEW selector \in Selector, NEW version \in Version,
               Install(behavior, selector, version)
        PROVE  TypeOK'
    <3>1. inlineCache' = inlineCache
      BY <2>3, FlushFindsNoSite DEF Install
    <3>2. [selector |-> selector, behavior |-> behavior, version |-> version] \in Method
      BY DEF Method
    <3>3. methodDictionary' \in [Behavior -> [Selector -> Method \union {Nil}]]
      BY <2>3, <3>2 DEF Install, TypeOK
    <3> QED
      BY <2>3, <3>1, <3>3 DEF Install, TypeOK
  <2>4. ASSUME NEW behavior \in Behavior, NEW selector \in Selector,
               FlushRemoved(behavior, selector)
        PROVE  TypeOK'
    <3>1. inlineCache' = inlineCache
      BY <2>4, FlushFindsNoSite DEF FlushRemoved
    <3> QED
      BY <2>4, <3>1 DEF FlushRemoved, TypeOK
  <2>5. CASE Remove
    <3>1. removing \in Behavior \X Selector
      BY <2>5 DEF Remove, TypeOK
    <3>2. methodDictionary' \in [Behavior -> [Selector -> Method \union {Nil}]]
      BY <2>5, <3>1 DEF Remove, TypeOK
    <3> QED
      BY <2>5, <3>2 DEF Remove, TypeOK
  <2>6. CASE UNCHANGED vars
    BY <2>6 DEF vars, TypeOK
  <2>7. QED
    BY <2>1, <2>2, <2>3, <2>4, <2>5, <2>6 DEF Next
<1>3. QED
  BY <1>1, <1>2, PTL DEF Spec

-----------------------------------------------------------------------------
(* Every site with a cached method is on a list of its selector: a site    *)
(* is registered when its cache is empty, before the first pair is added,  *)
(* and no list ever loses a site.                                          *)
THEOREM SitesStayRegistered == Spec => []CachedSitesRegistered
<1>1. Init => CachedSitesRegistered
  BY DEF Init, CachedSitesRegistered
<1>2. TypeOK /\ CachedSitesRegistered /\ [Next]_vars => CachedSitesRegistered'
  <2> SUFFICES ASSUME TypeOK, CachedSitesRegistered, [Next]_vars
               PROVE  CachedSitesRegistered'
    OBVIOUS
  <2>1. ASSUME NEW site \in Site, NEW behavior \in Behavior,
               SendUndermessage(site, behavior)
        PROVE  CachedSitesRegistered'
    <3>1. inlineCache[site] = <<>>
      BY <2>1 DEF SendUndermessage, TypeOK, hasUndermessage
    <3>2. inlineCache' = [inlineCache EXCEPT ![site] = <<CachedUndermessage>>]
      BY <2>1, <3>1 DEF SendUndermessage, TypeOK
    <3> QED
      BY <2>1, <3>2 DEF SendUndermessage, TypeOK, CachedSitesRegistered, hasUndermessage
  <2>2. ASSUME NEW site \in Site, NEW behavior \in Behavior, SendMethod(site, behavior)
        PROVE  CachedSitesRegistered'
    <3>1. inlineCaches' = registered(site)
      BY <2>2 DEF SendMethod
    <3>2. inlineCaches \subseteq inlineCaches'
      BY <3>1, RegisteredSites
    <3>3. inlineCache[site] = <<>> =>
            [selector |-> SelectorOf[site], sites |-> {site}] \in inlineCaches'
      BY <3>1, RegisteredSites
    <3>4. \E e \in inlineCaches' : e.selector = SelectorOf[site] /\ site \in e.sites
      <4>1. CASE inlineCache[site] = <<>>
        BY <4>1, <3>3
      <4>2. CASE inlineCache[site] # <<>>
        BY <2>2, <4>2, <3>2 DEF SendMethod, CachedSitesRegistered
      <4> QED
        BY <4>1, <4>2
    <3>5. \A other \in Site \ {site} : inlineCache'[other] = inlineCache[other]
      BY <2>2 DEF SendMethod, TypeOK
    <3> SUFFICES ASSUME NEW other \in Site \ {site},
                        inlineCache'[other] # <<>>, ~hasUndermessage(other)'
                 PROVE  \E e \in inlineCaches' :
                          e.selector = SelectorOf[other] /\ other \in e.sites
      BY <3>4 DEF CachedSitesRegistered
    <3> QED
      BY <3>2, <3>5 DEF CachedSitesRegistered, hasUndermessage
  <2>3. ASSUME NEW behavior \in Behavior, NEW selector \in Selector, NEW version \in Version,
               Install(behavior, selector, version)
        PROVE  CachedSitesRegistered'
    <3>1. inlineCache' = inlineCache
      BY <2>3, FlushFindsNoSite DEF Install
    <3> QED
      BY <2>3, <3>1 DEF Install, CachedSitesRegistered, hasUndermessage
  <2>4. ASSUME NEW behavior \in Behavior, NEW selector \in Selector,
               FlushRemoved(behavior, selector)
        PROVE  CachedSitesRegistered'
    <3>1. inlineCache' = inlineCache
      BY <2>4, FlushFindsNoSite DEF FlushRemoved
    <3> QED
      BY <2>4, <3>1 DEF FlushRemoved, CachedSitesRegistered, hasUndermessage
  <2>5. CASE Remove \/ UNCHANGED vars
    BY <2>5 DEF Remove, vars, CachedSitesRegistered, hasUndermessage
  <2>6. QED
    BY <2>1, <2>2, <2>3, <2>4, <2>5 DEF Next
<1>3. QED
  BY <1>1, <1>2, CacheShapes, PTL DEF Spec

(* What a site adds to its cache is the method that the behaviors hold at  *)
(* that moment: the global cache could answer with one that was replaced   *)
(* in a superior behavior, and never answers.                              *)
THEOREM NewPairsStayCurrent == Spec => NewPairsCurrent
<1> DEFINE Current ==
      \A site \in Site :
        /\ Len(inlineCache'[site]) > Len(inlineCache[site])
        /\ SelectorOf[site] \notin Undermessage
        => LET pair == inlineCache'[site][Len(inlineCache'[site])] IN
           pair.method = doLookup(SelectorOf[site], pair.behavior)
<1>1. TypeOK /\ [Next]_vars => [Current]_vars
  <2> SUFFICES ASSUME TypeOK, Next PROVE Current
    OBVIOUS
  <2> SUFFICES ASSUME NEW site \in Site, SelectorOf[site] \notin Undermessage,
                      Len(inlineCache'[site]) > Len(inlineCache[site])
               PROVE  LET pair == inlineCache'[site][Len(inlineCache'[site])] IN
                      pair.method = doLookup(SelectorOf[site], pair.behavior)
    OBVIOUS
  <2>1. inlineCache[site] \in Seq(Pair) /\ inlineCache'[site] # inlineCache[site]
    BY DEF TypeOK
  <2>2. PICK behavior \in Behavior : SendMethod(site, behavior)
    <3>1. ASSUME NEW other \in Site, NEW b \in Behavior, SendUndermessage(other, b)
          PROVE  FALSE
      BY <3>1, <2>1 DEF SendUndermessage, TypeOK
    <3>2. ASSUME NEW other \in Site \ {site}, NEW b \in Behavior, SendMethod(other, b)
          PROVE  FALSE
      BY <3>2, <2>1 DEF SendMethod, TypeOK
    <3>3. ASSUME NEW b \in Behavior, NEW selector \in Selector, NEW version \in Version,
                 Install(b, selector, version)
          PROVE  FALSE
      BY <3>3, <2>1, FlushFindsNoSite DEF Install
    <3>4. ASSUME NEW b \in Behavior, NEW selector \in Selector, FlushRemoved(b, selector)
          PROVE  FALSE
      BY <3>4, <2>1, FlushFindsNoSite DEF FlushRemoved
    <3>5. CASE Remove
      BY <3>5, <2>1 DEF Remove
    <3> QED
      BY <3>1, <3>2, <3>3, <3>4, <3>5 DEF Next
  <2> DEFINE method == lookup(SelectorOf[site], behavior)
             pair   == [behavior |-> behavior, method |-> method]
  <2>3. method = doLookup(SelectorOf[site], behavior)
    BY LookupIsCurrent, SiteAssumption
  <2>4. inlineCache'[site] = Append(inlineCache[site], pair)
    BY <2>2 DEF SendMethod, TypeOK
  <2>5. inlineCache'[site][Len(inlineCache'[site])] = pair
    <3> HIDE DEF pair
    <3> QED BY <2>1, <2>4
  <2> QED
    BY <2>3, <2>5
<1>2. QED
  BY <1>1, CacheShapes, PTL DEF Spec, NewPairsCurrent
=============================================================================
