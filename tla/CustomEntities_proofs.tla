------------------------ MODULE CustomEntities_proofs ------------------------
(***************************************************************************)
(* Proofs about custom entities, from the collections they become back to  *)
(* the form they are written in.                                           *)
(*                                                                         *)
(*   - EntityConfig: what a server serves, for any catalogue and program,  *)
(*     any folder and any number of saves and boots.  The order in which   *)
(*     definitions are sorted comes first, then one definition applied,    *)
(*     all of them, the filter of the fields, a boot, the server.          *)
(*   - CustomEntities: the files follow the documents, and only a delete   *)
(*     makes a load fail, for any documents, slugs, enablers and servers,  *)
(*     any number of requests, losses and loads.                           *)
(*   - EntityEditor: what the form holds, for any documents and            *)
(*     collections.                                                        *)
(***************************************************************************)
EXTENDS EntityConfig, CustomEntities, EntityEditor, Subsequences_proofs

-----------------------------------------------------------------------------
(* The order of the definitions *)

\* What the sort is compared with is what it is said to be: the least set that has
\* every definition whose relations are in it or in the program, for any definitions
\* and any program (ConfigUtils.ts, GetRelationsForCollection, traverse).
THEOREM ResolvableIsLeast ==
    ASSUME NEW config, NEW D
    PROVE  /\ Resolvable(config, D) \subseteq D
           /\ Closed(config, Resolvable(config, D), D)
           /\ \A ds \in SUBSET D : Closed(config, ds, D) => Resolvable(config, D) \subseteq ds
<1> DEFINE least == Resolvable(config, D)
           SlugsIn(ds) == {e.slug : e \in ds}
<1>1. least \subseteq D  BY DEF Resolvable
<1>2. ASSUME NEW ds \in SUBSET D, Closed(config, ds, D) PROVE least \subseteq ds
      BY <1>2 DEF Resolvable
<1>3. ASSUME NEW d \in D, GetRelationsForCollection(d) \subseteq config \cup SlugsIn(least)
      PROVE  d \in least
  <2>1. ASSUME NEW ds \in SUBSET D, Closed(config, ds, D) PROVE d \in ds
    <3>1. least \subseteq ds  BY <1>2, <2>1
    <3> HIDE DEF least
    <3>2. SlugsIn(least) \subseteq SlugsIn(ds)  BY <3>1
    <3>3. GetRelationsForCollection(d) \subseteq config \cup SlugsIn(ds)  BY <1>3, <3>2
    <3> QED  BY <2>1, <3>3 DEF Closed
  <2> QED  BY <2>1 DEF Resolvable
<1>4. Closed(config, least, D)
  <2> HIDE DEF least
  <2> QED  BY <1>3 DEF Closed
<1> QED  BY <1>1, <1>2, <1>4

\* What is left of a list of which no two elements are the same.
LEMMA RemoveAtIs ==
    ASSUME NEW S, NEW s \in Seq(S), IsInjective(s), NEW i \in DOMAIN s
    PROVE  /\ RemoveAt(s, i) \in Seq(S) /\ Len(RemoveAt(s, i)) = Len(s) - 1
           /\ ToSet(RemoveAt(s, i)) = ToSet(s) \ {s[i]}
           /\ IsInjective(RemoveAt(s, i))
<1> DEFINE n == Len(s)
           t == RemoveAt(s, i)
           u == SubSeq(s, 1, i - 1)
           v == SubSeq(s, i + 1, n)
<1>1. n \in Nat /\ i \in 1 .. n /\ DOMAIN s = 1 .. n  OBVIOUS
<1>2. u \in Seq(S) /\ Len(u) = i - 1 /\ \A k \in 1 .. i - 1 : u[k] = s[k]  BY <1>1
<1>3. v \in Seq(S) /\ Len(v) = n - i /\ \A k \in 1 .. n - i : v[k] = s[i + k]  BY <1>1
<1>4. t = u \o v  BY DEF RemoveAt
<1> HIDE DEF u, v, t
<1>5. t \in Seq(S) /\ Len(t) = n - 1 /\ DOMAIN t = 1 .. n - 1
  <2>0. u \in Seq(S) /\ v \in Seq(S)  BY <1>2, <1>3
  <2>1. u \o v \in Seq(S) /\ Len(u \o v) = Len(u) + Len(v)  BY <2>0
  <2>a. Len(t) = (i - 1) + (n - i)  BY <2>1, <1>2, <1>3, <1>4
  <2>2. t \in Seq(S) /\ Len(t) = n - 1  BY <2>1, <2>a, <1>1, <1>4
  <2>3. DOMAIN t = 1 .. Len(t)  BY <2>2
  <2> QED  BY <2>2, <2>3
<1>6. \A k \in 1 .. n - 1 : t[k] = IF k < i THEN s[k] ELSE s[k + 1]
  <2> TAKE k \in 1 .. n - 1
  <2>1. CASE k < i
    <3>1. k \in 1 .. Len(u) /\ k \in 1 .. i - 1  BY <2>1, <1>1, <1>2
    <3> QED  BY <3>1, <2>1, <1>2, <1>3, <1>4
  <2>2. CASE ~(k < i)
    <3>1. k \in Len(u) + 1 .. Len(u) + Len(v) /\ k - Len(u) = k - i + 1 /\ k - i + 1 \in 1 .. n - i
          BY <2>2, <1>1, <1>2, <1>3
    <3>2. t[k] = v[k - i + 1]
      <4>1. \A j \in 1 .. Len(u) + Len(v) : (u \o v)[j] = IF j <= Len(u) THEN u[j] ELSE v[j - Len(u)]
      <5>1. u \in Seq(S) /\ v \in Seq(S)  BY <1>2, <1>3
      <5> QED  BY <5>1, ConcatProperties
      <4>2. k \in 1 .. Len(u) + Len(v) /\ ~(k <= Len(u))  BY <3>1, <1>1, <1>2, <1>3
      <4>3. t[k] = v[k - Len(u)]  BY <4>1, <4>2, <1>4
      <4> QED  BY <4>3, <3>1
    <3>3. i + (k - i + 1) = k + 1  BY <1>1
    <3> QED  BY <3>1, <3>2, <3>3, <2>2, <1>3
  <2> QED  BY <2>1, <2>2
<1>7. ASSUME NEW k \in 1 .. n, k # i PROVE s[k] \in ToSet(t)
  <2>1. CASE k < i
    <3>1. k \in 1 .. n - 1 /\ t[k] = s[k]  BY <2>1, <1>1, <1>6
    <3> QED  BY <3>1, <1>5 DEF ToSet
  <2>2. CASE k > i
    <3>1. k - 1 \in 1 .. n - 1 /\ ~(k - 1 < i) /\ (k - 1) + 1 = k  BY <2>2, <1>1
    <3>2. t[k - 1] = s[k]  BY <3>1, <1>6
    <3> QED  BY <3>1, <3>2, <1>5 DEF ToSet
  <2> QED  BY <2>1, <2>2, <1>7, <1>1
<1>8. ASSUME NEW k \in 1 .. n - 1 PROVE t[k] \in ToSet(s) \ {s[i]}
  <2>1. PICK j \in 1 .. n : t[k] = s[j] /\ j # i
    <3>1. CASE k < i  BY <3>1, <1>1, <1>6
    <3>2. CASE ~(k < i)
      <4>1. k + 1 \in 1 .. n /\ k + 1 # i  BY <3>2, <1>1
      <4> QED  BY <3>2, <4>1, <1>6
    <3> QED  BY <3>1, <3>2
  <2> QED  BY <2>1, <1>1 DEF ToSet, IsInjective
<1>9. ToSet(t) = ToSet(s) \ {s[i]}
  <2>1. ToSet(t) \subseteq ToSet(s) \ {s[i]}  BY <1>5, <1>8 DEF ToSet
  <2>2. ToSet(s) \ {s[i]} \subseteq ToSet(t)
    <3> SUFFICES ASSUME NEW x \in ToSet(s), x # s[i] PROVE x \in ToSet(t)  OBVIOUS
    <3>1. PICK k \in 1 .. n : x = s[k]  BY <1>1 DEF ToSet
    <3> QED  BY <3>1, <1>7
  <2> QED  BY <2>1, <2>2
<1>10. IsInjective(t)
  <2> SUFFICES ASSUME NEW k \in 1 .. n - 1, NEW j \in 1 .. n - 1, t[k] = t[j] PROVE k = j
      BY <1>5 DEF IsInjective
  <2> DEFINE p == IF k < i THEN k ELSE k + 1
             q == IF j < i THEN j ELSE j + 1
  <2>1. p \in 1 .. n /\ q \in 1 .. n /\ t[k] = s[p] /\ t[j] = s[q]  BY <1>1, <1>6
  <2>2. p = q  BY <2>1, <1>1 DEF IsInjective
  <2> QED  BY <2>2, <1>1
<1> QED  BY <1>1, <1>5, <1>9, <1>10 DEF t

LEMMA AppendIs ==
    ASSUME NEW S, NEW s \in Seq(S), NEW x \in S
    PROVE  /\ Append(s, x) \in Seq(S) /\ Len(Append(s, x)) = Len(s) + 1
           /\ ToSet(Append(s, x)) = ToSet(s) \cup {x}
<1>1. /\ Append(s, x) \in Seq(S) /\ Len(Append(s, x)) = Len(s) + 1
      /\ \A i \in 1 .. Len(s) : Append(s, x)[i] = s[i]
      /\ Append(s, x)[Len(s) + 1] = x
      OBVIOUS
<1> DEFINE t == Append(s, x)
<1> HIDE DEF t
<1>2. DOMAIN t = 1 .. Len(s) + 1 /\ DOMAIN s = 1 .. Len(s) /\ Len(s) \in Nat  BY <1>1 DEF t
<1>3. \A y : y \in ToSet(t) <=> y \in ToSet(s) \/ y = x
  <2> TAKE y
  <2>1. ASSUME y \in ToSet(t) PROVE y \in ToSet(s) \/ y = x
    <3>1. PICK i \in 1 .. Len(s) + 1 : y = t[i]  BY <2>1, <1>2 DEF ToSet
    <3>2. CASE i \in 1 .. Len(s)  BY <3>1, <3>2, <1>1, <1>2 DEF ToSet, t
    <3>3. CASE i = Len(s) + 1  BY <3>1, <3>3, <1>1 DEF t
    <3> QED  BY <3>2, <3>3, <1>2
  <2>2. ASSUME y \in ToSet(s) PROVE y \in ToSet(t)
    <3>1. PICK i \in 1 .. Len(s) : y = s[i]  BY <2>2, <1>2 DEF ToSet
    <3>2. i \in DOMAIN t /\ t[i] = s[i]  BY <1>1, <1>2 DEF t
    <3> QED  BY <3>1, <3>2 DEF ToSet
  <2>3. x \in ToSet(t)
    <3>1. Len(s) + 1 \in DOMAIN t /\ t[Len(s) + 1] = x  BY <1>1, <1>2 DEF t
    <3> QED  BY <3>1 DEF ToSet
  <2> QED  BY <2>1, <2>2, <2>3
<1>4. ToSet(t) = ToSet(s) \cup {x}  BY <1>3
<1> QED  BY <1>1, <1>4 DEF t

-----------------------------------------------------------------------------
\* The state of a sort of the definitions D.
GraphsOf(D) == [none : Seq(D), base : Seq(D), custom : Seq(D)]
CallsOf(D) == [at : Nat \ {0}, length : Nat, related : SUBSET {d.slug : d \in D}]
WorksOf(D) == [left : Seq(D), graph : GraphsOf(D), calls : Seq(CallsOf(D))]

Placed(work) == ToSet(Sorted(work.graph))
PlacedSlugs(work) == SlugsOf(Sorted(work.graph))

LEMMA SortedIs ==
    ASSUME NEW D, NEW graph \in GraphsOf(D)
    PROVE  /\ Sorted(graph) \in Seq(D)
           /\ ToSet(Sorted(graph)) = ToSet(graph.none) \cup ToSet(graph.base) \cup ToSet(graph.custom)
           /\ SlugsOf(Sorted(graph)) = {d.slug : d \in ToSet(Sorted(graph))}
           /\ SlugsOf(Sorted(graph)) \subseteq {d.slug : d \in D}
<1>1. graph.none \in Seq(D) /\ graph.base \in Seq(D) /\ graph.custom \in Seq(D)  BY DEF GraphsOf
<1>2. /\ graph.none \o graph.base \in Seq(D)
      /\ ToSet(graph.none \o graph.base) = ToSet(graph.none) \cup ToSet(graph.base)
      BY <1>1, ToSetConcat
<1> DEFINE s == graph.none \o graph.base
           t == s \o graph.custom
<1>3. Sorted(graph) = t  BY DEF Sorted
<1>4. t \in Seq(D) /\ ToSet(t) = ToSet(s) \cup ToSet(graph.custom)
  <2>1. s \in Seq(D)  BY <1>2
  <2> HIDE DEF s
  <2> QED  BY <1>1, <2>1, ToSetConcat
<1> HIDE DEF s, t
<1>5. SlugsOf(t) = {d.slug : d \in ToSet(t)}  BY DEF SlugsOf, ToSet
<1>6. ToSet(t) \subseteq D  BY <1>4 DEF ToSet
<1>7. SlugsOf(t) \subseteq {d.slug : d \in D}  BY <1>5, <1>6
<1> QED  BY <1>2, <1>3, <1>4, <1>5, <1>7 DEF s

\* To place a definition adds it and takes nothing away.
LEMMA PlacingAdds ==
    ASSUME NEW D, NEW graph \in GraphsOf(D), NEW d \in D, NEW place \in {"none", "base", "custom"}
    PROVE  /\ Put(graph, place, d) \in GraphsOf(D)
           /\ ToSet(Sorted(Put(graph, place, d))) = ToSet(Sorted(graph)) \cup {d}
           /\ SlugsOf(Sorted(Put(graph, place, d))) = SlugsOf(Sorted(graph)) \cup {d.slug}
<1> DEFINE placed == Put(graph, place, d)
<1>0. placed = [graph EXCEPT ![place] = Append(@, d)]  BY DEF Put
<1> HIDE DEF placed
<1>1. graph.none \in Seq(D) /\ graph.base \in Seq(D) /\ graph.custom \in Seq(D)  BY DEF GraphsOf
<1>2. /\ Append(graph.none, d) \in Seq(D) /\ ToSet(Append(graph.none, d)) = ToSet(graph.none) \cup {d}
      /\ Append(graph.base, d) \in Seq(D) /\ ToSet(Append(graph.base, d)) = ToSet(graph.base) \cup {d}
      /\ Append(graph.custom, d) \in Seq(D)
      /\ ToSet(Append(graph.custom, d)) = ToSet(graph.custom) \cup {d}
      BY <1>1, AppendIs
<1>3. /\ placed \in GraphsOf(D)
      /\ ToSet(placed.none) \cup ToSet(placed.base) \cup ToSet(placed.custom)
           = ToSet(graph.none) \cup ToSet(graph.base) \cup ToSet(graph.custom) \cup {d}
  <2>1. PICK a, b, c : graph = [none |-> a, base |-> b, custom |-> c]  BY DEF GraphsOf
  <2>2. CASE place = "none"
    <3>1. placed = [none |-> Append(graph.none, d), base |-> graph.base, custom |-> graph.custom]
          BY <1>0, <2>1, <2>2
    <3> QED  BY <3>1, <1>1, <1>2 DEF GraphsOf
  <2>3. CASE place = "base"
    <3>1. placed = [none |-> graph.none, base |-> Append(graph.base, d), custom |-> graph.custom]
          BY <1>0, <2>1, <2>3
    <3> QED  BY <3>1, <1>1, <1>2 DEF GraphsOf
  <2>4. CASE place = "custom"
    <3>1. placed = [none |-> graph.none, base |-> graph.base, custom |-> Append(graph.custom, d)]
          BY <1>0, <2>1, <2>4
    <3> QED  BY <3>1, <1>1, <1>2 DEF GraphsOf
  <2> QED  BY <2>2, <2>3, <2>4
<1>4. ToSet(Sorted(placed)) = ToSet(Sorted(graph)) \cup {d}  BY <1>3, SortedIs
<1>5. /\ SlugsOf(Sorted(placed)) = {e.slug : e \in ToSet(Sorted(placed))}
      /\ SlugsOf(Sorted(graph)) = {e.slug : e \in ToSet(Sorted(graph))}
      BY <1>3, SortedIs
<1>6. SlugsOf(Sorted(placed)) = SlugsOf(Sorted(graph)) \cup {d.slug}  BY <1>4, <1>5
<1> QED  BY <1>3, <1>4, <1>6 DEF placed

\* What is placed follows what it relates to.
Ordered(config, graph) ==
    /\ \A d \in ToSet(graph.none) : GetRelationsForCollection(d) = {}
    /\ \A d \in ToSet(graph.base) : GetRelationsForCollection(d) \subseteq config
    /\ \A p \in DOMAIN graph.custom : GetRelationsForCollection(graph.custom[p]) \subseteq
            config \cup {d.slug : d \in ToSet(graph.none) \cup ToSet(graph.base)}
                   \cup {graph.custom[q].slug : q \in 1 .. p - 1}

\* A definition may go where Place puts it.
Fits(config, graph, d, place) ==
    \/ place = "none" /\ GetRelationsForCollection(d) = {}
    \/ place = "base" /\ GetRelationsForCollection(d) \subseteq config
    \/ place = "custom" /\ GetRelationsForCollection(d) \subseteq config \cup SlugsOf(Sorted(graph))

LEMMA PlacingOrders ==
    ASSUME NEW D, NEW graph \in GraphsOf(D), NEW d \in D, NEW place \in {"none", "base", "custom"},
           NEW config, Ordered(config, graph), Fits(config, graph, d, place)
    PROVE  Ordered(config, Put(graph, place, d))
<1> DEFINE placed == Put(graph, place, d)
<1>0. placed = [graph EXCEPT ![place] = Append(@, d)]  BY DEF Put
<1> SUFFICES Ordered(config, placed)  OBVIOUS
<1> HIDE DEF placed
<1>1. graph.none \in Seq(D) /\ graph.base \in Seq(D) /\ graph.custom \in Seq(D)  BY DEF GraphsOf
<1>2. PICK a, b, c : graph = [none |-> a, base |-> b, custom |-> c]  BY DEF GraphsOf
<1>3. CASE place = "none"
  <2>1. placed.none = Append(graph.none, d) /\ placed.base = graph.base /\ placed.custom = graph.custom
        BY <1>0, <1>2, <1>3
  <2>2. ToSet(placed.none) = ToSet(graph.none) \cup {d}  BY <1>1, <2>1, AppendIs
  <2>3. GetRelationsForCollection(d) = {}  BY <1>3 DEF Fits
  <2> QED  BY <2>1, <2>2, <2>3 DEF Ordered
<1>4. CASE place = "base"
  <2>1. placed.none = graph.none /\ placed.base = Append(graph.base, d) /\ placed.custom = graph.custom
        BY <1>0, <1>2, <1>4
  <2>2. ToSet(placed.base) = ToSet(graph.base) \cup {d}  BY <1>1, <2>1, AppendIs
  <2>3. GetRelationsForCollection(d) \subseteq config  BY <1>4 DEF Fits
  <2> QED  BY <2>1, <2>2, <2>3 DEF Ordered
<1>5. CASE place = "custom"
  <2>1. placed.none = graph.none /\ placed.base = graph.base /\ placed.custom = Append(graph.custom, d)
        BY <1>0, <1>2, <1>5
  <2> DEFINE before == {e.slug : e \in ToSet(graph.none) \cup ToSet(graph.base)}
             n == Len(graph.custom)
  <2>2. /\ n \in Nat /\ DOMAIN graph.custom = 1 .. n /\ DOMAIN placed.custom = 1 .. n + 1
        /\ \A q \in 1 .. n : placed.custom[q] = graph.custom[q]
        /\ placed.custom[n + 1] = d
        BY <1>1, <2>1
  <2>3. GetRelationsForCollection(d) \subseteq config \cup before \cup {graph.custom[q].slug : q \in 1 .. n}
    <3>1. GetRelationsForCollection(d) \subseteq config \cup SlugsOf(Sorted(graph))  BY <1>5 DEF Fits
    <3>2. SlugsOf(Sorted(graph)) = {e.slug : e \in ToSet(graph.none) \cup ToSet(graph.base) \cup ToSet(graph.custom)}
          BY SortedIs
    <3>3. ToSet(graph.custom) = {graph.custom[q] : q \in 1 .. n}  BY <2>2 DEF ToSet
    <3> QED  BY <3>1, <3>2, <3>3
  <2> HIDE DEF n
  <2>4. ASSUME NEW p \in DOMAIN placed.custom
        PROVE  GetRelationsForCollection(placed.custom[p]) \subseteq
                   config \cup before \cup {placed.custom[q].slug : q \in 1 .. p - 1}
    <3>1. {placed.custom[q].slug : q \in 1 .. p - 1} = {graph.custom[q].slug : q \in 1 .. p - 1}
      <4>1. \A q \in 1 .. p - 1 : placed.custom[q] = graph.custom[q]  BY <2>2
      <4> QED  BY <4>1
    <3>2. CASE p = n + 1
      <4>1. p - 1 = n  BY <3>2, <2>2
      <4> QED  BY <4>1, <3>1, <3>2, <2>2, <2>3
    <3>3. CASE p # n + 1
      <4>1. p \in DOMAIN graph.custom /\ placed.custom[p] = graph.custom[p]  BY <3>3, <2>2
      <4>2. GetRelationsForCollection(graph.custom[p]) \subseteq
                config \cup before \cup {graph.custom[q].slug : q \in 1 .. p - 1}
            BY <4>1 DEF Ordered
      <4> QED  BY <4>1, <4>2, <3>1
    <3> QED  BY <3>2, <3>3
  <2> QED  BY <2>1, <2>4 DEF Ordered
<1> QED  BY <1>3, <1>4, <1>5

LEMMA SortedFollows ==
    ASSUME NEW D, NEW graph \in GraphsOf(D), NEW config, Ordered(config, graph),
           NEW p \in DOMAIN Sorted(graph)
    PROVE  GetRelationsForCollection(Sorted(graph)[p]) \subseteq
               config \cup {Sorted(graph)[q].slug : q \in 1 .. p - 1}
<1> DEFINE a == graph.none
           b == graph.base
           c == graph.custom
           l == Len(a)
           m == Len(b)
           n == Len(c)
           t == Sorted(graph)
<1>1. a \in Seq(D) /\ b \in Seq(D) /\ c \in Seq(D)  BY DEF GraphsOf
<1>2. l \in Nat /\ m \in Nat /\ n \in Nat /\ DOMAIN a = 1 .. l /\ DOMAIN b = 1 .. m /\ DOMAIN c = 1 .. n
      BY <1>1
<1>3. t = (a \o b) \o c  BY DEF Sorted
<1> HIDE DEF a, b, c, l, m, n, t
<1> DEFINE s == a \o b
<1>4. s \in Seq(D) /\ Len(s) = l + m /\ \A i \in 1 .. l + m : s[i] = IF i <= l THEN a[i] ELSE b[i - l]
      BY <1>1, ConcatProperties DEF l, m
<1> HIDE DEF s
<1>5. /\ t \in Seq(D) /\ Len(t) = (l + m) + n
      /\ \A i \in 1 .. (l + m) + n : t[i] = IF i <= l + m THEN s[i] ELSE c[i - (l + m)]
      BY <1>1, <1>3, <1>4, ConcatProperties DEF s, n
<1>6. p \in 1 .. l + m + n  BY <1>2, <1>5 DEF t
<1>7. /\ \A i \in 1 .. l : t[i] = a[i]
      /\ \A i \in 1 .. m : t[l + i] = b[i]
      /\ \A i \in 1 .. n : t[l + m + i] = c[i]
  <2>1. ASSUME NEW i \in 1 .. l PROVE t[i] = a[i]
    <3>1. i \in 1 .. l + m /\ i \in 1 .. (l + m) + n /\ i <= l /\ i <= l + m  BY <1>2
    <3> QED  BY <3>1, <1>4, <1>5
  <2>2. ASSUME NEW i \in 1 .. m PROVE t[l + i] = b[i]
    <3>1. /\ l + i \in 1 .. l + m /\ l + i \in 1 .. (l + m) + n
          /\ ~(l + i <= l) /\ l + i <= l + m /\ (l + i) - l = i
          BY <1>2
    <3> QED  BY <3>1, <1>4, <1>5
  <2>3. ASSUME NEW i \in 1 .. n PROVE t[l + m + i] = c[i]
    <3>1. l + m + i \in 1 .. (l + m) + n /\ ~(l + m + i <= l + m) /\ (l + m + i) - (l + m) = i  BY <1>2
    <3> QED  BY <3>1, <1>5
  <2> QED  BY <2>1, <2>2, <2>3
<1> SUFFICES GetRelationsForCollection(t[p]) \subseteq config \cup {t[q].slug : q \in 1 .. p - 1}
    BY DEF t
<1>8. CASE p <= l
  <2>1. p \in 1 .. l /\ t[p] = a[p]  BY <1>2, <1>6, <1>7, <1>8
  <2>2. a[p] \in ToSet(a)  BY <2>1, <1>2 DEF ToSet
  <2> QED  BY <2>1, <2>2 DEF Ordered, a
<1>9. CASE l < p /\ p <= l + m
  <2>1. p - l \in 1 .. m /\ l + (p - l) = p  BY <1>2, <1>6, <1>9
  <2>2. t[p] = b[p - l] /\ b[p - l] \in ToSet(b)  BY <2>1, <1>2, <1>7 DEF ToSet
  <2> QED  BY <2>2 DEF Ordered, b
<1>10. CASE l + m < p
  <2> DEFINE k == p - (l + m)
  <2>1. k \in 1 .. n /\ l + m + k = p  BY <1>2, <1>6, <1>10
  <2> HIDE DEF k
  <2>2. t[p] = c[k] /\ k \in DOMAIN c  BY <2>1, <1>2, <1>7
  <2>3. GetRelationsForCollection(c[k]) \subseteq
            config \cup {d.slug : d \in ToSet(a) \cup ToSet(b)} \cup {c[q].slug : q \in 1 .. k - 1}
        BY <2>2 DEF Ordered, a, b, c
  <2>4. ASSUME NEW d \in ToSet(a) PROVE \E q \in 1 .. p - 1 : t[q] = d
    <3>1. PICK i \in 1 .. l : d = a[i]  BY <1>2 DEF ToSet
    <3>2. i \in 1 .. p - 1  BY <1>2, <1>6, <1>10
    <3> QED  BY <3>1, <3>2, <1>7
  <2>5. ASSUME NEW d \in ToSet(b) PROVE \E q \in 1 .. p - 1 : t[q] = d
    <3>1. PICK i \in 1 .. m : d = b[i]  BY <1>2 DEF ToSet
    <3>2. l + i \in 1 .. p - 1  BY <1>2, <1>6, <1>10
    <3> QED  BY <3>1, <3>2, <1>7
  <2>6. ASSUME NEW j \in 1 .. k - 1 PROVE \E q \in 1 .. p - 1 : t[q] = c[j]
    <3>1. j \in 1 .. n /\ l + m + j \in 1 .. p - 1  BY <2>1, <1>2
    <3> QED  BY <3>1, <1>7
  <2>7. {d.slug : d \in ToSet(a) \cup ToSet(b)} \subseteq {t[q].slug : q \in 1 .. p - 1}
        BY <2>4, <2>5
  <2>8. {c[q].slug : q \in 1 .. k - 1} \subseteq {t[q].slug : q \in 1 .. p - 1}
    <3> SUFFICES ASSUME NEW j \in 1 .. k - 1 PROVE c[j].slug \in {t[q].slug : q \in 1 .. p - 1}
        OBVIOUS
    <3>1. PICK q \in 1 .. p - 1 : t[q] = c[j]  BY <2>6
    <3> QED  BY <3>1
  <2> QED  BY <2>2, <2>3, <2>7, <2>8
<1> QED  BY <1>2, <1>6, <1>8, <1>9, <1>10

-----------------------------------------------------------------------------
(* How long the calls of traverse() go on *)

\* The steps the calls have left add up to b at most.
Budget(calls, b) ==
    \E W \in [0 .. Len(calls) -> Nat] :
        /\ W[Len(calls)] = b
        /\ \A m \in 1 .. Len(calls) : W[m - 1] + (calls[m].length - calls[m].at + 2) <= W[m]

LEMMA FrontIs ==
    ASSUME NEW S, NEW s \in Seq(S), s # <<>>
    PROVE  /\ Front(s) \in Seq(S) /\ Len(Front(s)) = Len(s) - 1
           /\ \A i \in 1 .. Len(s) - 1 : Front(s)[i] = s[i]
<1> DEFINE n == Len(s)
<1>1. n \in Nat /\ n > 0 /\ \A i \in 1 .. n : s[i] \in S  OBVIOUS
<1>2. \A i \in 1 .. n - 1 : s[i] \in S /\ 1 + i - 1 = i  BY <1>1
<1>3. /\ SubSeq(s, 1, n - 1) \in Seq(S)
      /\ Len(SubSeq(s, 1, n - 1)) = IF 1 <= n - 1 THEN n - 1 - 1 + 1 ELSE 0
      /\ \A i \in 1 .. n - 1 - 1 + 1 : SubSeq(s, 1, n - 1)[i] = s[1 + i - 1]
  <2> DEFINE m == n - 1
  <2>1. m \in Int /\ 1 \in Int /\ \A i \in 1 .. m : s[i] \in S  BY <1>1
  <2> HIDE DEF m
  <2> QED  BY <2>1, SubSeqProperties
<1> DEFINE t == SubSeq(s, 1, n - 1)
<1> HIDE DEF t
<1>4. Len(t) = n - 1
  <2>1. n \in Nat /\ n > 0 /\ Len(t) = IF 1 <= n - 1 THEN n - 1 - 1 + 1 ELSE 0  BY <1>1, <1>3 DEF t
  <2> HIDE DEF n
  <2> QED  BY <2>1
<1>5. \A i \in 1 .. n - 1 : t[i] = s[i]
  <2> TAKE i \in 1 .. n - 1
  <2>1. i \in 1 .. n - 1 - 1 + 1 /\ 1 + i - 1 = i  BY <1>1
  <2> QED  BY <2>1, <1>3 DEF t
<1> QED  BY <1>3, <1>4, <1>5 DEF Front, t

Onward(calls) == [calls EXCEPT ![Len(calls)].at = @ + 1]

LEMMA OnwardIs ==
    ASSUME NEW D, NEW calls \in Seq(CallsOf(D)), calls # <<>>
    PROVE  LET n == Len(calls)
               next == Onward(calls)
           IN  /\ next \in Seq(CallsOf(D)) /\ Len(next) = n /\ DOMAIN next = 1 .. n /\ n \in 1 .. n
               /\ next[n].at = calls[n].at + 1 /\ next[n].length = calls[n].length
               /\ next[n].related = calls[n].related
               /\ \A m \in 1 .. n - 1 : next[m] = calls[m]
<1> DEFINE n == Len(calls)
           next == Onward(calls)
<1>1. n \in Nat /\ n > 0 /\ n \in 1 .. n /\ n - 1 \in 0 .. n /\ DOMAIN calls = 1 .. n  OBVIOUS
<1>2. calls[n] \in CallsOf(D)  BY <1>1
<1>3. PICK x \in Nat \ {0}, y \in Nat, z \in SUBSET {d.slug : d \in D} :
          calls[n] = [at |-> x, length |-> y, related |-> z]
      BY <1>2 DEF CallsOf
<1>4. [calls[n] EXCEPT !.at = @ + 1] = [at |-> x + 1, length |-> y, related |-> z]  BY <1>3
<1>5. next = [calls EXCEPT ![n] = [calls[n] EXCEPT !.at = @ + 1]]  BY DEF Onward
<1>6. next = [calls EXCEPT ![n] = [at |-> x + 1, length |-> y, related |-> z]]  BY <1>4, <1>5
<1> DEFINE r == [at |-> x + 1, length |-> y, related |-> z]
<1>7. /\ next = [calls EXCEPT ![n] = r] /\ r \in CallsOf(D)
      /\ r.at = calls[n].at + 1 /\ r.length = calls[n].length /\ r.related = calls[n].related
      BY <1>3, <1>6 DEF CallsOf
<1> HIDE DEF r, next
<1>8. /\ next \in Seq(CallsOf(D)) /\ Len(next) = n /\ next[n] = r
      /\ \A m \in 1 .. n - 1 : next[m] = calls[m]
  <2>1. n \in 1 .. Len(calls) /\ r \in CallsOf(D) /\ next = [calls EXCEPT ![n] = r]  BY <1>1, <1>7
  <2>2. /\ next \in Seq(CallsOf(D)) /\ Len(next) = Len(calls)
        /\ \A j \in 1 .. Len(calls) : next[j] = IF j = n THEN r ELSE calls[j]
    <3> HIDE DEF n
    <3> QED  BY <2>1, ExceptSeq
  <2>3. n = Len(calls)  OBVIOUS
  <2> HIDE DEF n
  <2>4. \A m \in 1 .. n - 1 : m \in 1 .. n /\ m # n  BY <1>1
  <2>5. \A m \in 1 .. n - 1 : next[m] = calls[m]  BY <2>2, <2>3, <2>4
  <2> QED  BY <1>1, <2>2, <2>3, <2>5
<1>9. DOMAIN next = 1 .. n  BY <1>8
<1> QED  BY <1>1, <1>7, <1>8, <1>9 DEF next

LEMMA BudgetOfFront ==
    ASSUME NEW D, NEW calls \in Seq(CallsOf(D)), calls # <<>>, NEW b \in Nat, Budget(calls, b),
           calls[Len(calls)].at <= calls[Len(calls)].length + 1
    PROVE  b > 0 /\ \E c \in 0 .. b - 1 : Budget(Front(calls), c)
<1> DEFINE n == Len(calls)
           f == Front(calls)
<1>1. n \in Nat /\ n > 0 /\ n \in 1 .. n /\ n - 1 \in 0 .. n  OBVIOUS
<1>2. f \in Seq(CallsOf(D)) /\ Len(f) = n - 1 /\ \A m \in 1 .. n - 1 : f[m] = calls[m]
      BY FrontIs
<1> HIDE DEF f
<1>3. PICK W \in [0 .. n -> Nat] :
        /\ W[n] = b
        /\ \A m \in 1 .. n : W[m - 1] + (calls[m].length - calls[m].at + 2) <= W[m]
      BY DEF Budget
<1>4. calls[n] \in CallsOf(D)  BY <1>1
<1>5. calls[n].length \in Nat /\ calls[n].at \in Nat  BY <1>4 DEF CallsOf
<1>6. W[n - 1] \in Nat /\ W[n - 1] + 1 <= b
  <2> DEFINE w == W[n - 1]
             l == calls[n].length
             a == calls[n].at
  <2>1. w \in Nat /\ w + (l - a + 2) <= b  BY <1>1, <1>3
  <2>2. l \in Nat /\ a \in Nat /\ a <= l + 1  BY <1>5
  <2> HIDE DEF w, l, a
  <2>3. w + 1 <= b  BY <2>1, <2>2
  <2> QED  BY <2>1, <2>3 DEF w
<1> HIDE DEF n
<1> DEFINE V == [m \in 0 .. n - 1 |-> W[m]]
<1>7. V \in [0 .. n - 1 -> Nat] /\ V[n - 1] = W[n - 1] /\ \A m \in 0 .. n - 1 : V[m] = W[m]  BY <1>1, <1>3
<1> HIDE DEF V
<1>8. \A m \in 1 .. n - 1 : V[m - 1] + (f[m].length - f[m].at + 2) <= V[m]
  <2> TAKE m \in 1 .. n - 1
  <2>1. m \in 1 .. n /\ m - 1 \in 0 .. n - 1 /\ m \in 0 .. n - 1  BY <1>1
  <2> QED  BY <2>1, <1>2, <1>3, <1>7
<1>9. Budget(f, W[n - 1])  BY <1>2, <1>7, <1>8 DEF Budget
<1>10. b > 0 /\ W[n - 1] \in 0 .. b - 1  BY <1>6
<1> QED  BY <1>9, <1>10 DEF f

LEMMA BudgetOfNext ==
    ASSUME NEW D, NEW calls \in Seq(CallsOf(D)), calls # <<>>, NEW b \in Nat, Budget(calls, b),
           NEW next, next = Onward(calls),
           calls[Len(calls)].at <= calls[Len(calls)].length
    PROVE  b > 0 /\ Budget(next, b - 1)
<1> DEFINE n == Len(calls)
<1>1. n \in Nat /\ n > 0 /\ n \in 1 .. n /\ n - 1 \in 0 .. n /\ DOMAIN calls = 1 .. n  OBVIOUS
<1>2. /\ next \in Seq(CallsOf(D)) /\ Len(next) = n
      /\ next[n].at = calls[n].at + 1 /\ next[n].length = calls[n].length
      /\ \A m \in 1 .. n - 1 : next[m] = calls[m]  BY OnwardIs
<1>3. PICK W \in [0 .. n -> Nat] :
        /\ W[n] = b
        /\ \A m \in 1 .. n : W[m - 1] + (calls[m].length - calls[m].at + 2) <= W[m]
      BY DEF Budget
<1>4. calls[n] \in CallsOf(D)  BY <1>1
<1>5. calls[n].length \in Nat /\ calls[n].at \in Nat  BY <1>4 DEF CallsOf
<1>6. W[n - 1] \in Nat /\ W[n - 1] + (calls[n].length - calls[n].at + 2) <= b  BY <1>1, <1>3
<1>7. b > 0 /\ b - 1 \in Nat  BY <1>5, <1>6
<1> HIDE DEF n
<1> DEFINE V == [W EXCEPT ![n] = b - 1]
<1>8. V \in [0 .. n -> Nat] /\ V[n] = b - 1 /\ \A m \in 0 .. n - 1 : V[m] = W[m]  BY <1>1, <1>3, <1>7
<1> HIDE DEF V
<1>9. \A m \in 1 .. n : V[m - 1] + (next[m].length - next[m].at + 2) <= V[m]
  <2> TAKE m \in 1 .. n
  <2>1. CASE m = n
    <3>1. V[n - 1] = W[n - 1] /\ n - 1 \in 0 .. n - 1  BY <1>1, <1>8
    <3>2. next[n].length - next[n].at + 2 = (calls[n].length - calls[n].at + 2) - 1  BY <1>2, <1>5
    <3>3. W[n - 1] + (next[n].length - next[n].at + 2) <= b - 1
      <4> DEFINE w == W[n - 1]
                 r == calls[n].length - calls[n].at + 2
                 s == next[n].length - next[n].at + 2
      <4>1. w \in Nat /\ r \in Int /\ s = r - 1 /\ w + r <= b  BY <3>2, <1>5, <1>6
      <4> HIDE DEF w, r, s
      <4>2. w + s <= b - 1  BY <4>1
      <4> QED  BY <4>2 DEF w, s
    <3> QED  BY <2>1, <3>1, <3>3, <1>8
  <2>2. CASE m # n
    <3>1. m \in 1 .. n - 1 /\ m - 1 \in 0 .. n - 1 /\ m \in 0 .. n - 1  BY <2>2, <1>1
    <3> QED  BY <3>1, <1>2, <1>3, <1>8
  <2> QED  BY <2>1, <2>2
<1> QED  BY <1>2, <1>7, <1>8, <1>9 DEF Budget, n

LEMMA BudgetOfCall ==
    ASSUME NEW D, NEW calls \in Seq(CallsOf(D)), NEW b \in Nat, Budget(calls, b),
           NEW call \in CallsOf(D), call.at = 1
    PROVE  Budget(Append(calls, call), b + call.length + 1)
<1> DEFINE n == Len(calls)
           next == Append(calls, call)
<1>1. n \in Nat  OBVIOUS
<1>2. /\ next \in Seq(CallsOf(D)) /\ Len(next) = n + 1
      /\ next[n + 1] = call /\ \A m \in 1 .. n : next[m] = calls[m]
      OBVIOUS
<1> HIDE DEF next
<1>3. PICK W \in [0 .. n -> Nat] :
        /\ W[n] = b
        /\ \A m \in 1 .. n : W[m - 1] + (calls[m].length - calls[m].at + 2) <= W[m]
      BY DEF Budget
<1>4. call.length \in Nat  BY DEF CallsOf
<1> HIDE DEF n
<1> DEFINE e == b + call.length + 1
           V == [m \in 0 .. n + 1 |-> IF m = n + 1 THEN e ELSE W[m]]
<1>5. e \in Nat  BY <1>4
<1>6. V \in [0 .. n + 1 -> Nat] /\ V[n + 1] = e /\ \A m \in 0 .. n : V[m] = W[m]
  <2> HIDE DEF e
  <2> QED BY <1>1, <1>3, <1>5
<1> HIDE DEF V
<1>7. \A m \in 1 .. n + 1 : V[m - 1] + (next[m].length - next[m].at + 2) <= V[m]
  <2> TAKE m \in 1 .. n + 1
  <2>1. CASE m = n + 1
    <3>1. V[m - 1] = b  BY <2>1, <1>1, <1>3, <1>6
    <3>2. V[m] = b + call.length + 1  BY <2>1, <1>6
    <3>3. next[m].at = 1 /\ next[m].length = call.length  BY <2>1, <1>2
    <3> QED  BY <3>1, <3>2, <3>3, <1>4
  <2>2. CASE m # n + 1
    <3>1. m \in 1 .. n /\ m - 1 \in 0 .. n /\ m \in 0 .. n  BY <2>2, <1>1
    <3> QED  BY <3>1, <1>2, <1>3, <1>6
  <2> QED  BY <2>1, <2>2
<1>8. Budget(next, e)  BY <1>2, <1>5, <1>6, <1>7 DEF Budget
<1> QED  BY <1>8 DEF next

-----------------------------------------------------------------------------
(* One step of a sort *)

Distinct(D) == \A d, e \in D : d.slug = e.slug => d = e

\* The innermost call returns, goes on to the next position, or takes out a
\* definition and begins a call for those that are left.
Returns(w, next) ==
    LET call == w.calls[Len(w.calls)]
    IN  /\ call.at > call.length \/ call.at > Len(w.left)
        /\ next = [left |-> w.left, graph |-> w.graph, calls |-> Front(w.calls)]
GoesOn(config, w, next) ==
    LET call == w.calls[Len(w.calls)]
    IN  /\ call.at <= call.length /\ call.at \in DOMAIN w.left
        /\ ~(GetRelationsForCollection(w.left[call.at]) \subseteq config \cup call.related)
        /\ next = [left |-> w.left, graph |-> w.graph, calls |-> Onward(w.calls)]

\* The element moves to a place of the graph, which is left, and the walk starts anew.
Taking(config, w, next, place, left, graph) ==
    LET call == w.calls[Len(w.calls)]
        d == w.left[call.at]
    IN  /\ place \in {"none", "base", "custom"} /\ call.at <= call.length /\ call.at \in DOMAIN w.left
        /\ \/ place = "none" /\ GetRelationsForCollection(d) = {}
           \/ place = "base" /\ GetRelationsForCollection(d) \subseteq config
           \/ place = "custom" /\ GetRelationsForCollection(d) \subseteq config \cup call.related
        /\ left = RemoveAt(w.left, call.at)
        /\ graph = Put(w.graph, place, d)
        /\ next = [left |-> left, graph |-> graph, calls |-> Append(Onward(w.calls), Call(left, graph))]
TakesOut(config, w, next) ==
    \E place, left, graph : Taking(config, w, next, place, left, graph)

LEMMA TraverseSteps ==
    ASSUME NEW D, Distinct(D), NEW config, NEW w \in WorksOf(D),
           ToSet(w.left) = D \ Placed(w), w.calls # <<>>
    PROVE  LET next == Traverse(config, w)
           IN  Returns(w, next) \/ GoesOn(config, w, next) \/ TakesOut(config, w, next)
<1> DEFINE n == Len(w.calls)
           call == w.calls[n]
           d == w.left[call.at]
           place == Place(d, config, call.related, w.graph)
           onward == [w EXCEPT !.calls[n].at = @ + 1]
           next == Traverse(config, w)
<1>1. PICK left \in Seq(D), graph \in GraphsOf(D), calls \in Seq(CallsOf(D)) :
          w = [left |-> left, graph |-> graph, calls |-> calls]
      BY DEF WorksOf
<1>2. w.left = left /\ w.graph = graph /\ w.calls = calls  BY <1>1
<1>3. n \in Nat /\ n # 0 /\ call \in CallsOf(D)  BY <1>2
<1>4. call.at \in Nat \ {0} /\ call.length \in Nat  BY <1>3 DEF CallsOf
<1>5. onward = [left |-> left, graph |-> graph, calls |-> Onward(calls)]
  <2>1. onward = [w EXCEPT !.calls = [w.calls EXCEPT ![n].at = w.calls[n].at + 1]]  OBVIOUS
  <2>2. onward = [w EXCEPT !.calls = Onward(calls)]  BY <2>1, <1>2 DEF Onward
  <2> HIDE DEF onward
  <2> QED  BY <2>2, <1>1
<1>6. next = IF call.at > call.length \/ call.at > Len(w.left) THEN [w EXCEPT !.calls = Front(@)]
             ELSE IF place = "later" THEN onward ELSE TakeOut(onward, call.at, place)
      BY <1>3 DEF Traverse
<1> HIDE DEF next, onward, place
<1>7. CASE call.at > call.length \/ call.at > Len(w.left)
  <2>1. [w EXCEPT !.calls = Front(@)] = [left |-> w.left, graph |-> w.graph, calls |-> Front(w.calls)]
        BY <1>1
  <2>2. Returns(w, next)  BY <1>6, <1>7, <2>1 DEF Returns
  <2> QED  BY <2>2 DEF next
<1>8. CASE ~(call.at > call.length \/ call.at > Len(w.left))
  <2>1. call.at <= call.length /\ call.at \in DOMAIN w.left  BY <1>2, <1>4, <1>8
  <2>2. d \in ToSet(w.left) /\ d \in D  BY <2>1, <1>2 DEF ToSet
  <2>3. d.slug \notin SlugsOf(Sorted(w.graph))
    <3>1. SlugsOf(Sorted(w.graph)) = {e.slug : e \in ToSet(Sorted(w.graph))}
          /\ Sorted(w.graph) \in Seq(D)
          BY <1>2, SortedIs
    <3>2. ToSet(Sorted(w.graph)) \subseteq D  BY <3>1 DEF ToSet
    <3>3. d \notin ToSet(Sorted(w.graph))  BY <2>2 DEF Placed
    <3> QED  BY <3>1, <3>2, <3>3, <2>2 DEF Distinct
  <2>4. \/ place = "later" /\ ~(GetRelationsForCollection(d) \subseteq config \cup call.related)
        \/ place = "none" /\ GetRelationsForCollection(d) = {}
        \/ place = "base" /\ GetRelationsForCollection(d) \subseteq config
        \/ place = "custom" /\ GetRelationsForCollection(d) \subseteq config \cup call.related
        BY <2>3 DEF Place, place
  <2>5. CASE place = "later"
    <3>1. next = [left |-> w.left, graph |-> w.graph, calls |-> Onward(w.calls)]
          BY <1>2, <1>5, <1>6, <1>8, <2>5
    <3>2. GoesOn(config, w, next)  BY <2>1, <2>4, <2>5, <3>1 DEF GoesOn
    <3> QED  BY <3>2 DEF next
  <2>6. CASE place # "later"
    <3> DEFINE left1 == RemoveAt(w.left, call.at)
               graph1 == Put(w.graph, place, d)
    <3>1. next = TakeOut(onward, call.at, place) /\ place # "placed"  BY <1>6, <1>8, <2>4, <2>6
    <3>2. onward.left = w.left /\ onward.graph = w.graph /\ onward.calls = Onward(w.calls)  BY <1>2, <1>5
    <3>3. next = [left |-> left1, graph |-> graph1, calls |-> Append(Onward(w.calls), Call(left1, graph1))]
          BY <3>1, <3>2 DEF TakeOut
    <3> HIDE DEF left1, graph1
    <3>4. Taking(config, w, next, place, left1, graph1)
          BY <2>1, <2>4, <2>6, <3>3 DEF Taking, left1, graph1
    <3>5. TakesOut(config, w, next)  BY <2>4, <2>6, <3>4 DEF TakesOut
    <3> QED  BY <3>5 DEF next
  <2> QED  BY <2>5, <2>6
<1> QED  BY <1>7, <1>8

-----------------------------------------------------------------------------
\* What is left cannot be placed, or the innermost call is still to find out: it
\* knows all that is placed, and what it has passed cannot be placed.
StuckAfter(config, d, slugs) == ~(GetRelationsForCollection(d) \subseteq config \cup slugs)
IsDone(config, w) == \A d \in ToSet(w.left) : StuckAfter(config, d, PlacedSlugs(w))
IsSearching(config, w) ==
    LET call == w.calls[Len(w.calls)]
    IN  /\ w.calls # <<>>
        /\ call.length = Len(w.left) /\ call.related = PlacedSlugs(w)
        /\ \A j \in DOMAIN w.left : j < call.at => StuckAfter(config, w.left[j], PlacedSlugs(w))

SortInv(config, D, w) ==
    /\ w \in WorksOf(D) /\ IsInjective(w.left)
    /\ ToSet(w.left) = D \ Placed(w)
    /\ Ordered(config, w.graph)
    /\ \A ds \in SUBSET D : Closed(config, ds, D) => Placed(w) \subseteq ds
    /\ \A m \in DOMAIN w.calls : /\ w.calls[m].related \subseteq PlacedSlugs(w)
                                 /\ w.calls[m].at <= w.calls[m].length + 1
    /\ IsDone(config, w) \/ IsSearching(config, w)

\* The call that has returned, or gone on, changes nothing but itself.
LEMMA SortStepSameList ==
    ASSUME NEW D, NEW config, NEW w, SortInv(config, D, w), w.calls # <<>>,
           NEW next, Returns(w, next) \/ GoesOn(config, w, next)
    PROVE  SortInv(config, D, next)
<1> DEFINE n == Len(w.calls)
           call == w.calls[n]
<1>0. w \in WorksOf(D)  BY DEF SortInv
<1>1. w.left \in Seq(D) /\ w.graph \in GraphsOf(D) /\ w.calls \in Seq(CallsOf(D))  BY <1>0 DEF WorksOf
<1>2. n \in Nat /\ n > 0 /\ n \in 1 .. n /\ DOMAIN w.calls = 1 .. n /\ call \in CallsOf(D)  BY <1>1
<1>3. call.at \in Nat \ {0} /\ call.length \in Nat  BY <1>2 DEF CallsOf
<1>4. next.left = w.left /\ next.graph = w.graph  BY DEF Returns, GoesOn
<1>5. Placed(next) = Placed(w) /\ PlacedSlugs(next) = PlacedSlugs(w)  BY <1>4 DEF Placed, PlacedSlugs
<1>6. /\ IsInjective(next.left) /\ ToSet(next.left) = D \ Placed(next)
      /\ Ordered(config, next.graph)
      /\ \A ds \in SUBSET D : Closed(config, ds, D) => Placed(next) \subseteq ds
      /\ IsDone(config, w) => IsDone(config, next)
      BY <1>4, <1>5 DEF SortInv, IsDone
<1>7. \A m \in 1 .. n : w.calls[m].related \subseteq PlacedSlugs(w) /\ w.calls[m].at <= w.calls[m].length + 1
      BY <1>2 DEF SortInv
<1>8. CASE Returns(w, next)
  <2>1. /\ Front(w.calls) \in Seq(CallsOf(D)) /\ Len(Front(w.calls)) = n - 1
        /\ \A i \in 1 .. n - 1 : Front(w.calls)[i] = w.calls[i]
        BY <1>1, FrontIs
  <2>2. next = [left |-> w.left, graph |-> w.graph, calls |-> Front(w.calls)]  BY <1>8 DEF Returns
  <2>3. next \in WorksOf(D)  BY <1>1, <2>1, <2>2 DEF WorksOf
  <2>4. next.calls = Front(w.calls) /\ DOMAIN Front(w.calls) = 1 .. n - 1  BY <2>1, <2>2
  <2> HIDE DEF n
  <2>5. \A m \in DOMAIN next.calls : next.calls[m].related \subseteq PlacedSlugs(next)
                                     /\ next.calls[m].at <= next.calls[m].length + 1
    <3> TAKE m \in DOMAIN next.calls
    <3>1. m \in 1 .. n - 1 /\ m \in 1 .. n  BY <2>4, <1>2
    <3>2. next.calls[m] = w.calls[m]  BY <3>1, <2>1, <2>4
    <3> QED  BY <3>1, <3>2, <1>5, <1>7
  <2>6. IsDone(config, next)
    <3>1. CASE IsDone(config, w)  BY <3>1, <1>6
    <3>2. CASE IsSearching(config, w)
      <4>1. /\ call.length = Len(w.left)
            /\ \A j \in DOMAIN w.left : j < call.at => StuckAfter(config, w.left[j], PlacedSlugs(w))
            BY <3>2 DEF IsSearching, n
      <4>2. call.at > call.length \/ call.at > Len(w.left)  BY <1>8 DEF Returns, n
      <4>3. \A j \in DOMAIN w.left : j < call.at
        <5>1. \A j \in DOMAIN w.left : j \in Nat /\ j <= Len(w.left) /\ Len(w.left) \in Nat  BY <1>1
        <5> QED  BY <5>1, <4>1, <4>2, <1>3
      <4>4. \A j \in DOMAIN w.left : StuckAfter(config, w.left[j], PlacedSlugs(w))  BY <4>1, <4>3
      <4> QED  BY <4>4, <1>4, <1>5 DEF IsDone, ToSet
    <3> QED  BY <3>1, <3>2 DEF SortInv
  <2> QED  BY <1>6, <2>3, <2>5, <2>6 DEF SortInv
<1>9. CASE GoesOn(config, w, next)
  <2> DEFINE on == Onward(w.calls)
  <2>1. /\ on \in Seq(CallsOf(D)) /\ Len(on) = n /\ DOMAIN on = 1 .. n
        /\ on[n].at = call.at + 1 /\ on[n].length = call.length /\ on[n].related = call.related
        /\ \A m \in 1 .. n - 1 : on[m] = w.calls[m]
        BY <1>1, OnwardIs
  <2>2. next = [left |-> w.left, graph |-> w.graph, calls |-> on]  BY <1>9 DEF GoesOn
  <2>3. next \in WorksOf(D)
    <3> HIDE DEF on
    <3> QED  BY <1>1, <2>1, <2>2 DEF WorksOf
  <2>4. next.calls = on  BY <2>2
  <2> HIDE DEF on
  <2>5. /\ call.at <= call.length /\ call.at \in DOMAIN w.left
        /\ StuckAfter(config, w.left[call.at], call.related)
        BY <1>9 DEF GoesOn, StuckAfter
  <2>6. \A m \in DOMAIN next.calls : next.calls[m].related \subseteq PlacedSlugs(next)
                                     /\ next.calls[m].at <= next.calls[m].length + 1
    <3> TAKE m \in DOMAIN next.calls
    <3>1. m \in 1 .. n  BY <2>1, <2>4
    <3>2. CASE m = n
      <4>1. on[n].related \subseteq PlacedSlugs(next)  BY <2>1, <1>2, <1>5, <1>7
      <4>2. on[n].at <= on[n].length + 1  BY <2>1, <2>5, <1>3
      <4> QED  BY <3>2, <4>1, <4>2, <2>4
    <3>3. CASE m # n
      <4> HIDE DEF n
      <4>1. m \in 1 .. n - 1  BY <3>1, <3>3, <1>2
      <4> QED  BY <4>1, <3>1, <2>1, <2>4, <1>5, <1>7
    <3> QED  BY <3>2, <3>3
  <2>7. IsDone(config, next) \/ IsSearching(config, next)
    <3>1. CASE IsDone(config, w)  BY <3>1, <1>6
    <3>2. CASE IsSearching(config, w)
      <4>1. /\ call.length = Len(w.left) /\ call.related = PlacedSlugs(w)
            /\ \A j \in DOMAIN w.left : j < call.at => StuckAfter(config, w.left[j], PlacedSlugs(w))
            BY <3>2 DEF IsSearching
      <4>2. \A j \in DOMAIN w.left : j < call.at + 1 => j < call.at \/ j = call.at
        <5>1. \A j \in DOMAIN w.left : j \in Nat  BY <1>1
        <5> QED  BY <5>1, <1>3
      <4>3. \A j \in DOMAIN w.left : j < call.at + 1 => StuckAfter(config, w.left[j], PlacedSlugs(w))
            BY <4>1, <4>2, <2>5
      <4>4. Len(next.calls) = n /\ next.calls[n].at = call.at + 1 /\ next.calls[n].length = call.length
            /\ next.calls[n].related = call.related
            BY <2>1, <2>4
      <4>5. next.calls # <<>>  BY <4>4, <1>2, <2>4, <2>1
      <4> HIDE DEF n
      <4>6. IsSearching(config, next)  BY <4>1, <4>3, <4>4, <4>5, <1>4, <1>5 DEF IsSearching
      <4> QED  BY <4>6
    <3> QED  BY <3>1, <3>2 DEF SortInv
  <2> QED  BY <1>6, <2>3, <2>6, <2>7 DEF SortInv
<1> QED  BY <1>8, <1>9

\* A definition that is taken out is placed, and everything that could be placed
\* before still can.
LEMMA SortStepTakesOut ==
    ASSUME NEW D, NEW config, NEW w, SortInv(config, D, w), w.calls # <<>>,
           NEW next, TakesOut(config, w, next)
    PROVE  SortInv(config, D, next)
<1> DEFINE n == Len(w.calls)
           call == w.calls[n]
           d == w.left[call.at]
           on == Onward(w.calls)
<1>0. w \in WorksOf(D)  BY DEF SortInv
<1>1. w.left \in Seq(D) /\ w.graph \in GraphsOf(D) /\ w.calls \in Seq(CallsOf(D))  BY <1>0 DEF WorksOf
<1>2. n \in Nat /\ n > 0 /\ n \in 1 .. n /\ DOMAIN w.calls = 1 .. n /\ call \in CallsOf(D)  BY <1>1
<1>3. call.at \in Nat \ {0} /\ call.length \in Nat  BY <1>2 DEF CallsOf
<1>4. PICK place, left, graph : Taking(config, w, next, place, left, graph)
      BY DEF TakesOut
<1>5. /\ call.at <= call.length /\ call.at \in DOMAIN w.left
      /\ left = RemoveAt(w.left, call.at)
      /\ graph = Put(w.graph, place, d)
      /\ next = [left |-> left, graph |-> graph, calls |-> Append(on, Call(left, graph))]
      BY <1>4 DEF Taking
<1>6. \A m \in 1 .. n : w.calls[m].related \subseteq PlacedSlugs(w) /\ w.calls[m].at <= w.calls[m].length + 1
      BY <1>2 DEF SortInv
<1>7. Fits(config, w.graph, d, place)
  <2>1. call.related \subseteq SlugsOf(Sorted(w.graph))  BY <1>2, <1>6 DEF PlacedSlugs
  <2> QED  BY <1>4, <2>1 DEF Taking, Fits
<1>8. d \in ToSet(w.left) /\ d \in D /\ d \notin Placed(w)
  <2>1. d \in ToSet(w.left)  BY <1>5 DEF ToSet
  <2> QED  BY <2>1 DEF SortInv
<1>9. /\ left \in Seq(D) /\ Len(left) = Len(w.left) - 1
      /\ ToSet(left) = ToSet(w.left) \ {d} /\ IsInjective(left)
      BY <1>1, <1>5, RemoveAtIs DEF SortInv
<1> HIDE DEF d
<1>10. /\ graph \in GraphsOf(D)
       /\ ToSet(Sorted(graph)) = ToSet(Sorted(w.graph)) \cup {d}
       /\ SlugsOf(Sorted(graph)) = SlugsOf(Sorted(w.graph)) \cup {d.slug}
  <2>1. w.graph \in GraphsOf(D) /\ d \in D /\ place \in {"none", "base", "custom"}
        BY <1>1, <1>4, <1>8 DEF Taking
  <2>2. graph = Put(w.graph, place, d)  BY <1>5
  <2> QED  BY <2>1, <2>2, PlacingAdds
<1>11. Ordered(config, graph)
  <2>1. Ordered(config, w.graph)  BY DEF SortInv
  <2>2. place \in {"none", "base", "custom"}  BY <1>4 DEF Taking
  <2> QED  BY <2>1, <2>2, <1>1, <1>5, <1>7, <1>8, PlacingOrders
<1>12. next.left = left /\ next.graph = graph /\ next.calls = Append(on, Call(left, graph))  BY <1>5
<1>13. Placed(next) = Placed(w) \cup {d} /\ PlacedSlugs(next) = PlacedSlugs(w) \cup {d.slug}
       BY <1>10, <1>12 DEF Placed, PlacedSlugs
<1>14. ToSet(next.left) = D \ Placed(next)  BY <1>9, <1>12, <1>13 DEF SortInv
<1>15. ASSUME NEW ds \in SUBSET D, Closed(config, ds, D) PROVE Placed(next) \subseteq ds
  <2>1. Placed(w) \subseteq ds  BY <1>15 DEF SortInv
  <2>2. SlugsOf(Sorted(w.graph)) = {e.slug : e \in Placed(w)}  BY <1>1, SortedIs DEF Placed
  <2>3. GetRelationsForCollection(d) \subseteq config \cup {e.slug : e \in Placed(w)}
        BY <1>7, <2>2 DEF Fits
  <2>4. GetRelationsForCollection(d) \subseteq config \cup {e.slug : e \in ds}  BY <2>1, <2>3
  <2>5. d \in ds  BY <2>4, <1>8, <1>15 DEF Closed
  <2> QED  BY <2>1, <2>5, <1>13
<1> DEFINE new == Call(left, graph)
<1>16. new \in CallsOf(D) /\ new.at = 1 /\ new.length = Len(left) /\ new.related = PlacedSlugs(next)
  <2>1. SlugsOf(Sorted(graph)) \subseteq {e.slug : e \in D}  BY <1>10, SortedIs
  <2>2. Len(left) \in Nat  BY <1>9
  <2>3. PlacedSlugs(next) = SlugsOf(Sorted(graph))  BY <1>12 DEF PlacedSlugs
  <2> QED  BY <2>1, <2>2, <2>3 DEF Call, CallsOf
<1>17. /\ on \in Seq(CallsOf(D)) /\ Len(on) = n /\ DOMAIN on = 1 .. n
       /\ on[n].at = call.at + 1 /\ on[n].length = call.length /\ on[n].related = call.related
       /\ \A m \in 1 .. n - 1 : on[m] = w.calls[m]
       BY <1>1, OnwardIs
<1> HIDE DEF new, on
<1>18. /\ next.calls \in Seq(CallsOf(D)) /\ Len(next.calls) = n + 1 /\ DOMAIN next.calls = 1 .. n + 1
       /\ next.calls[n + 1] = new /\ \A m \in 1 .. n : next.calls[m] = on[m]
  <2>1. next.calls = Append(on, new)  BY <1>12 DEF new
  <2> HIDE DEF n
  <2>2. /\ next.calls \in Seq(CallsOf(D)) /\ Len(next.calls) = n + 1
        /\ next.calls[n + 1] = new /\ \A m \in 1 .. n : next.calls[m] = on[m]
        BY <2>1, <1>2, <1>16, <1>17, AppendProperties
  <2> QED  BY <2>2
<1>19. \A m \in DOMAIN next.calls : next.calls[m].related \subseteq PlacedSlugs(next)
                                    /\ next.calls[m].at <= next.calls[m].length + 1
  <2> TAKE m \in DOMAIN next.calls
  <2>1. CASE m = n + 1
    <3>1. Len(left) \in Nat  BY <1>9
    <3> QED  BY <2>1, <3>1, <1>16, <1>18
  <2>2. CASE m = n
    <3>1. next.calls[m] = on[n]  BY <2>2, <1>2, <1>18
    <3>2. call.related \subseteq PlacedSlugs(w)  BY <1>2, <1>6
    <3>3. on[n].at <= on[n].length + 1  BY <1>3, <1>5, <1>17
    <3> QED  BY <3>1, <3>2, <3>3, <1>13, <1>17
  <2>3. CASE m # n /\ m # n + 1
    <3> HIDE DEF n
    <3>1. m \in 1 .. n - 1 /\ m \in 1 .. n  BY <2>3, <1>2, <1>18
    <3> QED  BY <3>1, <1>6, <1>13, <1>17, <1>18
  <2> QED  BY <2>1, <2>2, <2>3
<1>20. IsSearching(config, next)
  <2>1. \A j \in DOMAIN left : ~(j < 1)
    <3>1. \A j \in DOMAIN left : j \in Nat \ {0}  BY <1>9
    <3> QED  BY <3>1
  <2>2. next.calls # <<>>  BY <1>2, <1>18
  <2> QED  BY <2>1, <2>2, <1>12, <1>16, <1>18 DEF IsSearching
<1>21. next \in WorksOf(D)
  <2>1. next = [left |-> left, graph |-> graph, calls |-> next.calls]  BY <1>5, <1>12
  <2> QED  BY <2>1, <1>9, <1>10, <1>18 DEF WorksOf
<1> QED  BY <1>9, <1>11, <1>12, <1>14, <1>15, <1>19, <1>20, <1>21 DEF SortInv

-----------------------------------------------------------------------------
\* After k steps of at most (N + 1) * (N + 1) the calls are over or have the rest.
Within(N, w, k) ==
    \/ w.calls = <<>>
    \/ \E b \in Nat : Budget(w.calls, b) /\ Len(w.left) * (N + 1) + b + k <= (N + 1) * (N + 1)

LEMMA ProductIsNat ==
    ASSUME NEW a \in Nat, NEW b \in Nat
    PROVE  a * b \in Nat
OBVIOUS

LEMMA SortStepInTime ==
    ASSUME NEW D, NEW config, NEW w, SortInv(config, D, w), w.calls # <<>>,
           NEW N \in Nat, Len(w.left) <= N, NEW k \in Nat, Within(N, w, k),
           NEW next, Returns(w, next) \/ GoesOn(config, w, next) \/ TakesOut(config, w, next)
    PROVE  Len(next.left) <= N /\ Within(N, next, k + 1)
<1> DEFINE n == Len(w.calls)
           call == w.calls[n]
           L == Len(w.left)
           M == N + 1
           total == M * M
<1>0. w \in WorksOf(D)  BY DEF SortInv
<1>1. w.left \in Seq(D) /\ w.graph \in GraphsOf(D) /\ w.calls \in Seq(CallsOf(D))  BY <1>0 DEF WorksOf
<1>2. n \in Nat /\ n > 0 /\ n \in 1 .. n /\ DOMAIN w.calls = 1 .. n /\ call \in CallsOf(D)  BY <1>1
<1>3. call.at \in Nat \ {0} /\ call.length \in Nat /\ call.at <= call.length + 1
      BY <1>2 DEF CallsOf, SortInv
<1>4. L \in Nat /\ L <= N /\ M \in Nat /\ total \in Nat /\ L * M \in Nat
  <2>1. L \in Nat /\ L <= N /\ M \in Nat  BY <1>1
  <2> HIDE DEF L, M
  <2> QED  BY <2>1, ProductIsNat
<1>5. PICK b \in Nat : Budget(w.calls, b) /\ L * M + b + k <= total  BY DEF Within
<1> DEFINE x == L * M
<1>a. x \in Nat /\ total \in Nat /\ x + b + k <= total  BY <1>4, <1>5
<1> HIDE DEF L, total, x
<1>6. CASE Returns(w, next)
  <2>1. next = [left |-> w.left, graph |-> w.graph, calls |-> Front(w.calls)]  BY <1>6 DEF Returns
  <2>2. b > 0 /\ \E c \in 0 .. b - 1 : Budget(Front(w.calls), c)  BY <1>1, <1>3, <1>5, BudgetOfFront
  <2>3. PICK c \in 0 .. b - 1 : Budget(Front(w.calls), c)  BY <2>2
  <2>4. c \in Nat /\ x + c + (k + 1) <= total  BY <2>3, <1>a
  <2>5. next.left = w.left /\ next.calls = Front(w.calls)  BY <2>1
  <2> QED  BY <2>3, <2>4, <2>5, <1>4 DEF Within, x, L, total
<1>7. CASE GoesOn(config, w, next)
  <2>1. next = [left |-> w.left, graph |-> w.graph, calls |-> Onward(w.calls)] /\ call.at <= call.length
        BY <1>7 DEF GoesOn
  <2>2. b > 0 /\ Budget(Onward(w.calls), b - 1)  BY <2>1, <1>1, <1>5, BudgetOfNext
  <2>3. b - 1 \in Nat /\ x + (b - 1) + (k + 1) <= total  BY <2>2, <1>a
  <2>4. next.left = w.left /\ next.calls = Onward(w.calls)  BY <2>1
  <2> QED  BY <2>2, <2>3, <2>4, <1>4 DEF Within, x, L, total
<1>8. CASE TakesOut(config, w, next)
  <2>1. PICK place, left, graph : Taking(config, w, next, place, left, graph)
        BY <1>8 DEF TakesOut
  <2>2. /\ call.at <= call.length /\ call.at \in DOMAIN w.left
        /\ left = RemoveAt(w.left, call.at)
        /\ next = [left |-> left, graph |-> graph, calls |-> Append(Onward(w.calls), Call(left, graph))]
        BY <2>1 DEF Taking
  <2>3. left \in Seq(D) /\ Len(left) = L - 1  BY <1>1, <2>2, RemoveAtIs DEF SortInv, L
  <2>4. b > 0 /\ Budget(Onward(w.calls), b - 1)  BY <2>2, <1>1, <1>5, BudgetOfNext
  <2>5. Onward(w.calls) \in Seq(CallsOf(D))  BY <1>1, OnwardIs
  <2>6. SortInv(config, D, next)  BY <1>8, SortStepTakesOut
  <2> DEFINE new == Call(left, graph)
             on == Onward(w.calls)
  <2>7. next.left = left /\ next.calls = Append(on, new)  BY <2>2
  <2>8. new \in CallsOf(D) /\ new.at = 1 /\ new.length = L - 1
    <3>1. next \in WorksOf(D)  BY <2>6 DEF SortInv
    <3>2. next.graph = graph  BY <2>2
    <3>3. graph \in GraphsOf(D)  BY <3>1, <3>2 DEF WorksOf
    <3>4. SlugsOf(Sorted(graph)) \subseteq {e.slug : e \in D}  BY <3>3, SortedIs
    <3>5. Len(left) \in Nat  BY <2>3
    <3> QED  BY <3>4, <3>5, <2>3 DEF Call, CallsOf
  <2> HIDE DEF new, on
  <2> DEFINE c == (b - 1) + new.length + 1
  <2>9. b - 1 \in Nat  BY <2>4
  <2>10. Budget(Append(on, new), c)  BY <2>4, <2>5, <2>8, <2>9, BudgetOfCall DEF on
  <2>11. L - 1 \in Nat  BY <2>3
  <2>12. c \in Nat /\ c = b - 1 + L  BY <2>8, <2>9, <1>4
  <2>13. (L - 1) * M = x - M  BY <1>4 DEF x
  <2>14. (L - 1) * M + c + (k + 1) <= total
    <3>1. x + b + k <= total /\ x \in Nat  BY <1>a
    <3> DEFINE y == (L - 1) * M
    <3>2. y = x - M /\ y \in Int  BY <2>13, <1>4, <3>1
    <3> HIDE DEF c, y
    <3>3. y + c + (k + 1) <= total  BY <3>1, <3>2, <2>12, <1>4
    <3> QED  BY <3>3 DEF y
  <2> HIDE DEF c
  <2>15. Len(next.left) = L - 1 /\ Len(next.left) <= N  BY <2>3, <2>7, <1>4
  <2> QED  BY <2>7, <2>10, <2>12, <2>14, <2>15 DEF Within, total
<1> QED  BY <1>6, <1>7, <1>8

-----------------------------------------------------------------------------
(* The whole sort *)

LEMMA SortSteps ==
    ASSUME NEW D, Distinct(D), NEW config, NEW w, SortInv(config, D, w)
    PROVE  /\ SortInv(config, D, Traverse(config, w))
           /\ \A N, k \in Nat : Len(w.left) <= N /\ Within(N, w, k) =>
                  Len(Traverse(config, w).left) <= N /\ Within(N, Traverse(config, w), k + 1)
<1> DEFINE next == Traverse(config, w)
<1>1. w \in WorksOf(D) /\ ToSet(w.left) = D \ Placed(w)  BY DEF SortInv
<1>2. w.calls \in Seq(CallsOf(D))  BY <1>1 DEF WorksOf
<1>3. CASE w.calls = <<>>
  <2>1. Len(w.calls) = 0  BY <1>3
  <2>2. next = w  BY <2>1 DEF Traverse
  <2> HIDE DEF next
  <2>3. ASSUME NEW N \in Nat, Len(w.left) <= N, NEW k \in Nat, Within(N, w, k)
        PROVE  Len(next.left) <= N /\ Within(N, next, k + 1)
        BY <1>3, <2>2, <2>3 DEF Within
  <2> QED  BY <2>2, <2>3 DEF next
<1>4. CASE w.calls # <<>>
  <2>1. Returns(w, next) \/ GoesOn(config, w, next) \/ TakesOut(config, w, next)
        BY <1>1, <1>4, TraverseSteps
  <2> HIDE DEF next
  <2>2. SortInv(config, D, next)  BY <1>4, <2>1, SortStepSameList, SortStepTakesOut
  <2>3. ASSUME NEW N \in Nat, Len(w.left) <= N, NEW k \in Nat, Within(N, w, k)
        PROVE  Len(next.left) <= N /\ Within(N, next, k + 1)
        BY <1>4, <2>1, <2>3, SortStepInTime
  <2> QED  BY <2>2, <2>3 DEF next
<1> QED  BY <1>3, <1>4

Unsorted == [none |-> <<>>, base |-> <<>>, custom |-> <<>>]
SortBegins(incoming) == [left |-> incoming, graph |-> Unsorted, calls |-> <<Call(incoming, Unsorted)>>]

LEMMA SortBeginsRight ==
    ASSUME NEW D, NEW incoming \in Seq(D), ToSet(incoming) = D, IsInjective(incoming), NEW config
    PROVE  SortInv(config, D, SortBegins(incoming)) /\ Within(Len(incoming), SortBegins(incoming), 0)
<1> DEFINE w == SortBegins(incoming)
           call == Call(incoming, Unsorted)
           N == Len(incoming)
<1>1. Unsorted \in GraphsOf(D) /\ Sorted(Unsorted) = <<>>  BY DEF Unsorted, GraphsOf, Sorted
<1>2. SlugsOf(Sorted(Unsorted)) = {} /\ ToSet(Sorted(Unsorted)) = {}  BY <1>1 DEF SlugsOf, ToSet
<1>3. call \in CallsOf(D) /\ call.at = 1 /\ call.length = N /\ call.related = {}
      BY <1>2 DEF Call, CallsOf
<1>4. w.left = incoming /\ w.graph = Unsorted /\ w.calls = <<call>>  BY DEF SortBegins
<1>5. N \in Nat  OBVIOUS
<1> HIDE DEF call
<1>6. w \in WorksOf(D)
  <2>1. w = [left |-> incoming, graph |-> Unsorted, calls |-> <<call>>]  BY DEF SortBegins, call
  <2>2. <<call>> \in Seq(CallsOf(D))  BY <1>3
  <2> QED  BY <1>1, <2>1, <2>2 DEF WorksOf
<1> HIDE DEF w
<1>7. Placed(w) = {} /\ PlacedSlugs(w) = {}  BY <1>2, <1>4 DEF Placed, PlacedSlugs
<1>8. Ordered(config, w.graph)
  <2>1. ToSet(Unsorted.none) = {} /\ ToSet(Unsorted.base) = {} /\ DOMAIN Unsorted.custom = {}
        BY DEF Unsorted, ToSet
  <2> QED  BY <2>1, <1>4 DEF Ordered
<1>9. Len(w.calls) = 1 /\ DOMAIN w.calls = {1} /\ w.calls[1] = call /\ w.calls # <<>>  BY <1>4
<1>10. IsSearching(config, w)
  <2>1. \A j \in DOMAIN incoming : ~(j < 1)
    <3>1. \A j \in DOMAIN incoming : j \in Nat \ {0}  OBVIOUS
    <3> QED  BY <3>1
  <2> QED  BY <2>1, <1>3, <1>4, <1>7, <1>9 DEF IsSearching
<1>11. \A m \in DOMAIN w.calls : /\ w.calls[m].related \subseteq PlacedSlugs(w)
                                 /\ w.calls[m].at <= w.calls[m].length + 1
  <2>1. 1 <= N + 1  BY <1>5
  <2> QED  BY <2>1, <1>3, <1>7, <1>9
<1>12. SortInv(config, D, w)  BY <1>4, <1>6, <1>7, <1>8, <1>10, <1>11 DEF SortInv
<1>13. Within(N, w, 0)
  <2> DEFINE b == N + 1
             W == [m \in 0 .. 1 |-> IF m = 0 THEN 0 ELSE b]
  <2>1. b \in Nat /\ 0 + (N - 1 + 2) <= b  BY <1>5
  <2>2. W \in [0 .. 1 -> Nat] /\ W[0] = 0 /\ W[1] = b  BY <2>1
  <2>3. \A m \in 1 .. 1 : m = 1 /\ m - 1 = 0  OBVIOUS
  <2> HIDE DEF W, b, N
  <2>4. \A m \in 1 .. 1 : W[m - 1] + (w.calls[m].length - w.calls[m].at + 2) <= W[m]
        BY <2>1, <2>2, <2>3, <1>3, <1>9
  <2>5. Budget(w.calls, b)  BY <2>2, <2>4, <1>9 DEF Budget
  <2>6. N * (N + 1) + b + 0 <= (N + 1) * (N + 1)
    <3>1. (N + 1) * (N + 1) = N * (N + 1) + (N + 1) /\ N * (N + 1) \in Nat  BY <1>5
    <3> QED  BY <3>1, <2>1, <1>5 DEF b
  <2>7. Len(w.left) = N  BY <1>4 DEF N
  <2> QED  BY <2>1, <2>5, <2>6, <2>7 DEF Within
<1> QED  BY <1>12, <1>13 DEF w

LEMMA SortEnds ==
    ASSUME NEW D, Distinct(D), NEW incoming \in Seq(D), ToSet(incoming) = D, IsInjective(incoming),
           NEW config
    PROVE  \E w : /\ SortInv(config, D, w) /\ w.calls = <<>>
                  /\ SortCollectionsByRelations(config, incoming) = Sorted(w.graph)
<1> DEFINE N == Len(incoming)
           steps == (N + 1) * (N + 1)
           first == SortBegins(incoming)
           A == {w \in WorksOf(D) : SortInv(config, D, w)}
           step == [n \in 1 .. steps |-> [w \in A |-> Traverse(config, w)]]
           after[n \in 0 .. steps] == IF n = 0 THEN first ELSE Traverse(config, after[n - 1])
<1>1. N \in Nat /\ steps \in Nat
  <2>1. N \in Nat /\ N + 1 \in Nat  OBVIOUS
  <2> QED  BY <2>1, ProductIsNat
<1>2. SortInv(config, D, first) /\ Within(N, first, 0) /\ Len(first.left) = N
      BY SortBeginsRight DEF SortBegins
<1>3. SortCollectionsByRelations(config, incoming) = Sorted(after[steps].graph)
      BY DEF SortCollectionsByRelations, SortBegins, Unsorted
<1> HIDE DEF steps, first
<1>4. \E f : f = [n \in 0 .. steps |-> IF n = 0 THEN first ELSE Traverse(config, f[n - 1])]
  <2>1. first \in A /\ \A w \in A : Traverse(config, w) \in A  BY <1>2, SortSteps DEF SortInv
  <2>2. step \in [1 .. steps -> [A -> A]]
    <3> HIDE DEF A
    <3> QED  BY <2>1
  <2> HIDE DEF step, after, A
  <2>3. PICK f \in [0 .. steps -> A] : Takes(f, first, steps, step)  BY <1>1, <2>1, <2>2, RecursionExists
  <2>4. ASSUME NEW n \in 0 .. steps PROVE f[n] = IF n = 0 THEN first ELSE Traverse(config, f[n - 1])
    <3>1. CASE n = 0  BY <3>1, <2>3 DEF Takes
    <3>2. CASE n # 0
      <4>1. n \in 1 .. steps /\ n - 1 \in 0 .. steps  BY <3>2, <1>1
      <4>2. f[n] = step[n][f[n - 1]] /\ f[n - 1] \in A  BY <4>1, <2>3 DEF Takes
      <4> QED  BY <3>2, <4>1, <4>2 DEF step
    <3> QED  BY <3>1, <3>2
  <2>5. f = [n \in 0 .. steps |-> f[n]]  OBVIOUS
  <2>6. f = [n \in 0 .. steps |-> IF n = 0 THEN first ELSE Traverse(config, f[n - 1])]  BY <2>4, <2>5
  <2> QED  BY <2>6
<1>5. after = [n \in 0 .. steps |-> IF n = 0 THEN first ELSE Traverse(config, after[n - 1])]
      BY <1>4, Zenon DEF after
<1> HIDE DEF after
<1>6. \A n \in 0 .. steps : after[n] = IF n = 0 THEN first ELSE Traverse(config, after[n - 1])
      BY <1>5, Zenon
<1> DEFINE T == {n \in 0 .. steps : /\ SortInv(config, D, after[n]) /\ Len(after[n].left) <= N
                                    /\ Within(N, after[n], n)}
<1>7. 0 \in T
  <2>1. after[0] = first  BY <1>1, <1>6
  <2> QED  BY <2>1, <1>1, <1>2
<1>8. ASSUME NEW n \in 1 .. steps, n - 1 \in T PROVE n \in T
  <2> DEFINE w == after[n - 1]
             next == after[n]
  <2>1. SortInv(config, D, w) /\ Len(w.left) <= N /\ Within(N, w, n - 1)  BY <1>8
  <2>2. next = Traverse(config, w) /\ n \in 0 .. steps /\ n - 1 \in Nat /\ (n - 1) + 1 = n  BY <1>1, <1>6
  <2> HIDE DEF w, next
  <2>3. SortInv(config, D, next) /\ Len(next.left) <= N /\ Within(N, next, n)
        BY <1>1, <2>1, <2>2, SortSteps
  <2> QED  BY <2>2, <2>3 DEF next
<1> HIDE DEF T
<1>9. steps \in T
  <2>1. 0 .. steps \subseteq T  BY <1>1, <1>7, <1>8, InductionUpTo
  <2> QED  BY <2>1, <1>1
<1> DEFINE final == after[steps]
<1>10. SortInv(config, D, final) /\ Within(N, final, steps)  BY <1>9 DEF T
<1> HIDE DEF final
<1>11. final.calls = <<>>
  <2> SUFFICES ASSUME final.calls # <<>> PROVE FALSE  OBVIOUS
  <2>1. PICK b \in Nat : Budget(final.calls, b) /\ Len(final.left) * (N + 1) + b + steps <= steps
        BY <1>10 DEF Within, steps
  <2>2. final \in WorksOf(D)  BY <1>10 DEF SortInv
  <2>3. final.calls \in Seq(CallsOf(D)) /\ final.left \in Seq(D)  BY <2>2 DEF WorksOf
  <2>4. Len(final.calls) \in DOMAIN final.calls  BY <2>3
  <2>5. final.calls[Len(final.calls)].at <= final.calls[Len(final.calls)].length + 1
        BY <1>10, <2>4 DEF SortInv
  <2>6. b > 0  BY <2>1, <2>3, <2>5, BudgetOfFront
  <2>7. Len(final.left) * (N + 1) \in Nat
    <3>1. Len(final.left) \in Nat /\ N + 1 \in Nat  BY <2>3, <1>1
    <3> QED  BY <3>1, ProductIsNat
  <2> DEFINE x == Len(final.left) * (N + 1)
  <2>8. x \in Nat /\ x + b + steps <= steps  BY <2>1, <2>7
  <2> HIDE DEF x
  <2> QED  BY <2>6, <2>8, <1>1
<1> QED  BY <1>3, <1>10, <1>11 DEF final

\* The sort yields the definitions that can be resolved, each after those it relates to.
LEMMA SortIs ==
    ASSUME NEW D, Distinct(D), NEW incoming \in Seq(D), ToSet(incoming) = D, IsInjective(incoming),
           NEW config
    PROVE  LET sorted == SortCollectionsByRelations(config, incoming)
           IN  /\ sorted \in Seq(D)
               /\ ToSet(sorted) = Resolvable(config, D)
               /\ \A p \in DOMAIN sorted : GetRelationsForCollection(sorted[p]) \subseteq
                      config \cup {sorted[q].slug : q \in 1 .. p - 1}
<1> DEFINE sorted == SortCollectionsByRelations(config, incoming)
<1>1. PICK w : SortInv(config, D, w) /\ w.calls = <<>> /\ sorted = Sorted(w.graph)  BY SortEnds
<1> HIDE DEF sorted
<1>2. w \in WorksOf(D) /\ ToSet(w.left) = D \ Placed(w) /\ Ordered(config, w.graph)  BY <1>1 DEF SortInv
<1>3. w.graph \in GraphsOf(D) /\ w.left \in Seq(D)  BY <1>2 DEF WorksOf
<1>4. sorted \in Seq(D) /\ PlacedSlugs(w) = {d.slug : d \in Placed(w)} /\ Placed(w) = ToSet(sorted)
      BY <1>1, <1>3, SortedIs DEF PlacedSlugs, Placed
<1>5. Placed(w) \subseteq D  BY <1>4 DEF ToSet
<1>6. IsDone(config, w)  BY <1>1 DEF SortInv, IsSearching
<1>7. Closed(config, Placed(w), D)
  <2> SUFFICES ASSUME NEW d \in D,
                      GetRelationsForCollection(d) \subseteq config \cup {e.slug : e \in Placed(w)}
               PROVE  d \in Placed(w)
      BY DEF Closed
  <2>1. ~StuckAfter(config, d, PlacedSlugs(w))  BY <1>4 DEF StuckAfter
  <2> QED  BY <2>1, <1>2, <1>6 DEF IsDone
<1>8. ToSet(sorted) = Resolvable(config, D)
  <2>1. \A ds \in SUBSET D : Closed(config, ds, D) => Placed(w) \subseteq ds  BY <1>1 DEF SortInv
  <2>2. Placed(w) \subseteq Resolvable(config, D)  BY <1>5, <2>1 DEF Resolvable
  <2>3. Resolvable(config, D) \subseteq Placed(w)  BY <1>5, <1>7 DEF Resolvable
  <2> QED  BY <2>2, <2>3, <1>4
<1>9. ASSUME NEW p \in DOMAIN sorted
      PROVE  GetRelationsForCollection(sorted[p]) \subseteq config \cup {sorted[q].slug : q \in 1 .. p - 1}
      BY <1>1, <1>2, <1>3, <1>9, SortedFollows
<1> QED  BY <1>4, <1>8, <1>9 DEF sorted

-----------------------------------------------------------------------------
(* Definitions *)

FileTexts == {"admin", "create", "read", "update", "delete"}

LEMMA FromFileIs ==
    ASSUME NEW d, IsDefinition(d)
    PROVE  LET f == FromFile(d)
           IN  /\ IsDefinition(f) /\ FromFile(f) = f /\ f.texts = d.texts \cap FileTexts
               /\ f.slug = d.slug /\ f.extends = d.extends /\ f.valid = d.valid
               /\ f.complete = d.complete /\ f.fields = d.fields /\ f.hidden = d.hidden
               /\ f.hasTexts = d.hasTexts /\ f.byRoles = d.byRoles
<1> DEFINE f == FromFile(d)
<1>1. /\ d = [slug |-> d.slug, extends |-> d.extends, valid |-> d.valid, complete |-> d.complete,
              fields |-> d.fields, hidden |-> d.hidden, hasTexts |-> d.hasTexts, texts |-> d.texts,
              byRoles |-> d.byRoles]
      /\ d.valid \in BOOLEAN /\ d.complete \in BOOLEAN /\ d.hasTexts \in BOOLEAN /\ d.texts \subseteq Ops
      BY DEF IsDefinition
<1>2. f = [slug |-> d.slug, extends |-> d.extends, valid |-> d.valid, complete |-> d.complete,
           fields |-> d.fields, hidden |-> d.hidden, hasTexts |-> d.hasTexts,
           texts |-> d.texts \cap FileTexts, byRoles |-> d.byRoles]
      BY <1>1 DEF FromFile, FileTexts
<1> HIDE DEF f
<1>3. /\ f.texts = d.texts \cap FileTexts
      /\ f.slug = d.slug /\ f.extends = d.extends /\ f.valid = d.valid
      /\ f.complete = d.complete /\ f.fields = d.fields /\ f.hidden = d.hidden
      /\ f.hasTexts = d.hasTexts /\ f.byRoles = d.byRoles
      BY <1>1, <1>2
<1>4. f \in [slug : {f.slug}, extends : {f.extends}, valid : BOOLEAN, complete : BOOLEAN,
             fields : {f.fields}, hidden : {f.hidden},
             hasTexts : BOOLEAN, texts : SUBSET Ops, byRoles : {f.byRoles}]
  <2>1. f.valid \in BOOLEAN /\ f.complete \in BOOLEAN /\ f.hasTexts \in BOOLEAN /\ f.texts \in SUBSET Ops
        BY <1>1, <1>3
  <2>2. f = [slug |-> f.slug, extends |-> f.extends, valid |-> f.valid, complete |-> f.complete,
             fields |-> f.fields, hidden |-> f.hidden, hasTexts |-> f.hasTexts, texts |-> f.texts,
             byRoles |-> f.byRoles]
        BY <1>2
  <2> QED  BY <2>1, <2>2
<1>5. IsDefinition(f)  BY <1>3, <1>4 DEF IsDefinition
<1>6. FromFile(f) = f
  <2>1. [f EXCEPT !.texts = @ \cap FileTexts] = f  BY <1>2
  <2> QED  BY <2>1 DEF FromFile, FileTexts
<1> QED  BY <1>3, <1>5, <1>6 DEF f

\* The definitions there are, as somebody saves them or as a file hands them on.
Definitions == Catalogue \cup {FromFile(d) : d \in Catalogue}

LEMMA DefinitionsAre ==
    ASSUME NEW d \in Definitions
    PROVE  IsDefinition(d) /\ FromFile(d) \in Definitions /\ FromFile(FromFile(d)) = FromFile(d)
<1>1. \A e \in Catalogue : IsDefinition(e)  BY EntityAssumption
<1>2. CASE d \in Catalogue  BY <1>1, <1>2, FromFileIs DEF Definitions
<1>3. CASE d \notin Catalogue
  <2>1. PICK e \in Catalogue : d = FromFile(e)  BY <1>3 DEF Definitions
  <2>2. IsDefinition(d) /\ FromFile(d) = d  BY <1>1, <2>1, FromFileIs
  <2> QED  BY <2>2
<1> QED  BY <1>2, <1>3

-----------------------------------------------------------------------------
(* Access *)

Accesses == UNION {[ops -> Rules] : ops \in SUBSET Ops}

LEMMA AccessesAre ==
    ASSUME NEW access
    PROVE  access \in Accesses <=> IsAccess(access)
<1>1. ASSUME access \in Accesses PROVE IsAccess(access)
  <2>1. PICK ops \in SUBSET Ops : access \in [ops -> Rules]  BY <1>1 DEF Accesses
  <2> QED  BY <2>1 DEF IsAccess
<1>2. ASSUME IsAccess(access) PROVE access \in Accesses
      BY <1>2 DEF IsAccess, Accesses
<1> QED  BY <1>1, <1>2

\* What becomes of one rule.
AfterTexts(d, op, rule) == IF ~d.hasTexts THEN rule ELSE IF op \in d.texts THEN Text ELSE Moved(rule)
AfterMerge(d, op, rule) ==
    IF DOMAIN d.byRoles = {} THEN AfterTexts(d, op, rule)
    ELSE IF op \in DOMAIN d.byRoles THEN Named(d.byRoles[op]) ELSE Moved(AfterTexts(d, op, rule))

LEMMA RulesAre ==
    /\ Text \in Rules /\ NoOp \in Rules /\ Moved(Text) = Text
    /\ \A roles \in SUBSET Roles : Named(roles) \in Rules /\ Moved(Named(roles)) = Named(roles)
    /\ \A kind \in RuleKinds : Rule(kind) \in Rules
    /\ \A rule \in Rules : Moved(rule) \in Rules /\ Moved(Moved(rule)) = Moved(rule)
                           /\ Moved(rule).kind = rule.kind /\ Moved(rule).roles = rule.roles
<1>1. /\ Text \in Rules /\ NoOp \in Rules /\ Moved(Text) = Text
      BY DEF Text, NoOp, Rules, RuleKinds, Moved
<1>2. \A roles \in SUBSET Roles : Named(roles) \in Rules /\ Moved(Named(roles)) = Named(roles)
      BY DEF Named, Rules, RuleKinds, Moved
<1>3. \A kind \in RuleKinds : Rule(kind) \in Rules  BY DEF Rule, Rules
<1>4. ASSUME NEW rule \in Rules
      PROVE  Moved(rule) \in Rules /\ Moved(Moved(rule)) = Moved(rule)
             /\ Moved(rule).kind = rule.kind /\ Moved(rule).roles = rule.roles
  <2>1. PICK kind \in RuleKinds, roles \in SUBSET Roles, moved \in BOOLEAN :
            rule = [kind |-> kind, roles |-> roles, moved |-> moved]
        BY DEF Rules
  <2>2. Moved(rule) = [kind |-> kind, roles |-> roles, moved |-> TRUE]  BY <2>1 DEF Moved
  <2>3. Moved(Moved(rule)) = [kind |-> kind, roles |-> roles, moved |-> TRUE]  BY <2>2 DEF Moved
  <2>4. Moved(rule) \in Rules  BY <2>2 DEF Rules
  <2> QED  BY <2>1, <2>2, <2>3, <2>4
<1> QED  BY <1>1, <1>2, <1>3, <1>4

\* Evaluated from its text a function grants nothing new, and answers what it
\* did if it needs nothing else.
LEMMA MovedAnswers ==
    ASSUME NEW rule \in Rules, NEW user
    PROVE  /\ Answer(Moved(rule), user) = "all" => Answer(rule, user) = "all"
           /\ SelfContained(rule) => Answer(Moved(rule), user) = Answer(rule, user)
<1>1. PICK kind \in RuleKinds, roles \in SUBSET Roles, moved \in BOOLEAN :
          rule = [kind |-> kind, roles |-> roles, moved |-> moved]
      BY DEF Rules
<1> DEFINE r == Moved(rule)
<1>2. r = [kind |-> kind, roles |-> roles, moved |-> TRUE]  BY <1>1 DEF Moved
<1> HIDE DEF r
<1>3. r.kind = rule.kind /\ r.roles = rule.roles /\ r.moved = TRUE  BY <1>1, <1>2
<1>4. rule.kind \in RuleKinds  BY <1>1
<1>5. Answer(r, user) = "all" => Answer(rule, user) = "all"
      BY <1>3, <1>4 DEF Answer, RuleKinds
<1>6. SelfContained(rule) => Answer(r, user) = Answer(rule, user)
      BY <1>3, <1>4 DEF Answer, RuleKinds, SelfContained
<1> QED  BY <1>5, <1>6 DEF r

LEMMA WithTextsIs ==
    ASSUME NEW ops, ops \subseteq Ops, NEW access \in Accesses
    PROVE  /\ WithTexts(ops, access) \in Accesses
           /\ DOMAIN WithTexts(ops, access) = ops \cup DOMAIN access
<1> DEFINE source == [op \in ops |-> Text]
           m == WithTexts(ops, access)
<1>0. IsAccess(access)  BY AccessesAre
<1>1. DOMAIN access \subseteq Ops /\ \A op \in DOMAIN access : access[op] \in Rules  BY <1>0 DEF IsAccess
<1>2. DOMAIN source = ops /\ \A op \in ops : source[op] = Text  OBVIOUS
<1> HIDE DEF source
<1>3. m = [op \in ops \cup DOMAIN access |->
              IF op \in ops THEN source[op] ELSE IF op \in DOMAIN access THEN Moved(access[op]) ELSE NoOp]
      BY <1>2, Zenon DEF WithTexts, TransformToAccess, source
<1> HIDE DEF m
<1>4. DOMAIN m = ops \cup DOMAIN access
      /\ \A op \in DOMAIN m : m[op] = IF op \in ops THEN Text ELSE Moved(access[op])
      BY <1>2, <1>3
<1>5. \A op \in DOMAIN m : m[op] \in Rules  BY <1>1, <1>4, RulesAre
<1>6. m = [op \in DOMAIN m |-> m[op]]  BY <1>3
<1>7. IsAccess(m)  BY <1>1, <1>4, <1>5, <1>6 DEF IsAccess
<1> QED  BY <1>4, <1>7, AccessesAre DEF m

LEMMA WithTextsRules ==
    ASSUME NEW ops, ops \subseteq Ops, NEW access \in Accesses, NEW op \in ops \cup DOMAIN access
    PROVE  WithTexts(ops, access)[op] = IF op \in ops THEN Text ELSE Moved(access[op])
BY DEF WithTexts, TransformToAccess

LEMMA WithRolesIs ==
    ASSUME NEW byRoles, DOMAIN byRoles \subseteq Ops, byRoles \in [DOMAIN byRoles -> SUBSET Roles],
           NEW access \in Accesses
    PROVE  LET m == WithRoles(byRoles, access)
           IN  /\ m \in Accesses /\ DOMAIN m = Ops
               /\ \A op \in Ops : m[op] = IF op \in DOMAIN byRoles THEN Named(byRoles[op])
                                          ELSE IF op \in DOMAIN access THEN Moved(access[op]) ELSE NoOp
<1> DEFINE source == TransformFromRolesToAccess(byRoles)
           m == WithRoles(byRoles, access)
<1>0. IsAccess(access)  BY AccessesAre
<1>1. DOMAIN access \subseteq Ops /\ \A op \in DOMAIN access : access[op] \in Rules  BY <1>0 DEF IsAccess
<1>2. DOMAIN source = DOMAIN byRoles /\ \A op \in DOMAIN byRoles : source[op] = Named(byRoles[op])
      BY DEF TransformFromRolesToAccess
<1> HIDE DEF source
<1>3. m = [op \in Ops \cup DOMAIN access |->
              IF op \in DOMAIN source THEN source[op]
              ELSE IF op \in DOMAIN access THEN Moved(access[op]) ELSE NoOp]
      BY Zenon DEF WithRoles, TransformToAccess, source
<1> HIDE DEF m
<1>4. DOMAIN m = Ops
      /\ \A op \in Ops : m[op] = IF op \in DOMAIN byRoles THEN Named(byRoles[op])
                                 ELSE IF op \in DOMAIN access THEN Moved(access[op]) ELSE NoOp
      BY <1>1, <1>2, <1>3
<1>5. \A op \in Ops : m[op] \in Rules
  <2>1. \A op \in DOMAIN byRoles : byRoles[op] \in SUBSET Roles  OBVIOUS
  <2> QED  BY <1>1, <1>4, <2>1, RulesAre
<1>6. m = [op \in DOMAIN m |-> m[op]]  BY <1>3
<1>7. IsAccess(m)  BY <1>4, <1>5, <1>6 DEF IsAccess
<1> QED  BY <1>4, <1>7, AccessesAre DEF m

LEMMA MergeIs ==
    ASSUME NEW d, IsDefinition(d), NEW access \in Accesses
    PROVE  LET m == MergedAccess(d, access)
           IN  /\ m \in Accesses /\ DOMAIN access \subseteq DOMAIN m
               /\ \A op \in DOMAIN access : m[op] = AfterMerge(d, op, access[op])
               /\ \A op \in Ops, user \in Users : Answers(m, op, user) = "all" =>
                      Answers(access, op, user) = "all" \/ Grants(d, op, user)
<1> DEFINE texts == IF d.hasTexts THEN WithTexts(d.texts, access) ELSE access
           m == MergedAccess(d, access)
<1>0. IsAccess(access) /\ d.texts \subseteq Ops /\ DOMAIN d.byRoles \subseteq Ops
      /\ d.byRoles \in [DOMAIN d.byRoles -> SUBSET Roles]
      BY AccessesAre DEF IsDefinition
<1>1. DOMAIN access \subseteq Ops /\ \A op \in DOMAIN access : access[op] \in Rules  BY <1>0 DEF IsAccess
<1>2. /\ texts \in Accesses /\ DOMAIN access \subseteq DOMAIN texts
      /\ \A op \in DOMAIN access : texts[op] = AfterTexts(d, op, access[op])
      /\ \A op \in Ops, user \in Users : Answers(texts, op, user) = "all" =>
             Answers(access, op, user) = "all" \/ Grants(d, op, user)
  <2>1. CASE ~d.hasTexts  BY <2>1 DEF AfterTexts
  <2>2. CASE d.hasTexts
    <3>1. /\ texts \in Accesses /\ DOMAIN texts = d.texts \cup DOMAIN access
          /\ \A op \in DOMAIN texts : texts[op] = IF op \in d.texts THEN Text ELSE Moved(access[op])
      <4>1. texts = WithTexts(d.texts, access) /\ d.texts \subseteq Ops  BY <2>2, <1>0
      <4>2. texts \in Accesses /\ DOMAIN texts = d.texts \cup DOMAIN access
        <5> HIDE DEF texts
        <5> QED  BY <4>1, WithTextsIs
      <4>3. ASSUME NEW op \in DOMAIN texts
            PROVE  texts[op] = IF op \in d.texts THEN Text ELSE Moved(access[op])
        <5> HIDE DEF texts
        <5>1. op \in d.texts \cup DOMAIN access  BY <4>2
        <5> QED  BY <4>1, <5>1, WithTextsRules
      <4> QED  BY <4>2, <4>3
    <3> HIDE DEF texts
    <3>2. \A op \in DOMAIN access : texts[op] = AfterTexts(d, op, access[op])
          BY <2>2, <3>1 DEF AfterTexts
    <3>3. ASSUME NEW op \in Ops, NEW user \in Users, Answers(texts, op, user) = "all", op \notin d.texts
          PROVE  Answers(access, op, user) = "all"
      <4>1. CASE op \in DOMAIN access
        <5>1. Answer(Moved(access[op]), user) = "all"  BY <3>1, <3>3, <4>1 DEF Answers
        <5> QED  BY <4>1, <5>1, <1>1, MovedAnswers DEF Answers
      <4>2. CASE op \notin DOMAIN access  BY <3>1, <3>3, <4>2 DEF Answers
      <4> QED  BY <4>1, <4>2
    <3> QED  BY <3>1, <3>2, <3>3 DEF Grants
  <2> QED  BY <2>1, <2>2
<1> HIDE DEF texts
<1>3. m = IF DOMAIN d.byRoles = {} THEN texts ELSE WithRoles(d.byRoles, texts)
      BY DEF MergedAccess, texts
<1> HIDE DEF m
<1>4. CASE DOMAIN d.byRoles = {}
  <2>1. m = texts /\ \A op \in DOMAIN access : AfterMerge(d, op, access[op]) = AfterTexts(d, op, access[op])
        BY <1>3, <1>4 DEF AfterMerge
  <2> QED  BY <2>1, <1>2 DEF m
<1>5. CASE DOMAIN d.byRoles # {}
  <2>0. IsAccess(texts)  BY <1>2, AccessesAre
  <2>a. \A op \in DOMAIN texts : texts[op] \in Rules  BY <2>0 DEF IsAccess
  <2>1. /\ m \in Accesses /\ DOMAIN m = Ops
        /\ \A op \in Ops : m[op] = IF op \in DOMAIN d.byRoles THEN Named(d.byRoles[op])
                                   ELSE IF op \in DOMAIN texts THEN Moved(texts[op]) ELSE NoOp
        BY <1>0, <1>2, <1>3, <1>5, WithRolesIs
  <2>2. \A op \in DOMAIN access : m[op] = AfterMerge(d, op, access[op])
        BY <1>1, <1>2, <1>5, <2>1 DEF AfterMerge
  <2>3. ASSUME NEW op \in Ops, NEW user \in Users, Answers(m, op, user) = "all"
        PROVE  Answers(access, op, user) = "all" \/ Grants(d, op, user)
    <3>1. Answer(m[op], user) = "all"  BY <2>1, <2>3 DEF Answers
    <3>2. CASE op \in DOMAIN d.byRoles
      <4>1. m[op] = Named(d.byRoles[op])  BY <2>1, <3>2
      <4>2. user \cap d.byRoles[op] # {}  BY <3>1, <4>1 DEF Answer, Named
      <4> QED  BY <3>2, <4>2 DEF Grants
    <3>3. CASE op \notin DOMAIN d.byRoles /\ op \in DOMAIN texts
      <4>1. Answer(Moved(texts[op]), user) = "all"  BY <2>1, <3>1, <3>3
      <4>2. Answers(texts, op, user) = "all"  BY <4>1, <3>3, <2>a, MovedAnswers DEF Answers
      <4> QED  BY <4>2, <1>2
    <3>4. CASE op \notin DOMAIN d.byRoles /\ op \notin DOMAIN texts
      <4>1. m[op] = NoOp  BY <2>1, <3>4
      <4> QED  BY <3>1, <4>1 DEF Answer, NoOp
    <3> QED  BY <3>2, <3>3, <3>4
  <2> QED  BY <2>1, <2>2, <2>3, <1>1 DEF m
<1> QED  BY <1>4, <1>5

\* To merge a definition once more changes nothing, nor do texts a file hands on
\* or not that do not name the operation.
LEMMA MergingTwice ==
    ASSUME NEW d, IsDefinition(d), NEW op, NEW rule \in Rules
    PROVE  /\ AfterMerge(d, op, rule) \in Rules
           /\ AfterMerge(d, op, AfterMerge(d, op, rule)) = AfterMerge(d, op, rule)
           /\ ~Names(d, op) => AfterMerge(d, op, rule) \in {rule, Moved(rule)}
           /\ op \notin d.texts \ FromFile(d).texts =>
                  AfterMerge(FromFile(d), op, rule) = AfterMerge(d, op, rule)
<1> DEFINE t == AfterTexts(d, op, rule)
           r == AfterMerge(d, op, rule)
<1>0. op \in DOMAIN d.byRoles => d.byRoles[op] \in SUBSET Roles  BY DEF IsDefinition
<1>1. t \in Rules /\ (Moved(rule) = rule \/ d.hasTexts \/ t = rule)  BY RulesAre DEF AfterTexts
<1>2. r \in Rules  BY <1>0, <1>1, RulesAre DEF AfterMerge
<1>3. AfterMerge(d, op, r) = r
  <2>1. CASE DOMAIN d.byRoles = {}  BY <2>1, RulesAre DEF AfterMerge, AfterTexts
  <2>2. CASE op \in DOMAIN d.byRoles  BY <2>2 DEF AfterMerge
  <2>3. CASE DOMAIN d.byRoles # {} /\ op \notin DOMAIN d.byRoles
    <3>1. r = Moved(t) /\ AfterMerge(d, op, r) = Moved(AfterTexts(d, op, r))  BY <2>3 DEF AfterMerge
    <3>2. Moved(r) = r  BY <3>1, <1>1, RulesAre
    <3>3. CASE d.hasTexts /\ op \in d.texts
      <4>1. t = Text /\ AfterTexts(d, op, r) = Text  BY <3>3 DEF AfterTexts
      <4> QED  BY <3>1, <4>1, RulesAre
    <3>4. CASE ~(d.hasTexts /\ op \in d.texts)
      <4>1. AfterTexts(d, op, r) \in {r, Moved(r)}  BY <3>4 DEF AfterTexts
      <4> QED  BY <3>1, <3>2, <4>1
    <3> QED  BY <3>3, <3>4
  <2> QED  BY <2>1, <2>2, <2>3
<1>4. ~Names(d, op) => r \in {rule, Moved(rule)}  BY RulesAre DEF Names, AfterMerge, AfterTexts
<1>5. op \notin d.texts \ FromFile(d).texts => AfterMerge(FromFile(d), op, rule) = r
  <2>1. /\ FromFile(d).hasTexts = d.hasTexts /\ FromFile(d).byRoles = d.byRoles
        /\ FromFile(d).texts \subseteq d.texts
        BY FromFileIs
  <2> QED  BY <2>1 DEF AfterMerge, AfterTexts
<1> QED  BY <1>2, <1>3, <1>4, <1>5

-----------------------------------------------------------------------------
(* Configurations *)

AllSlugs == ToSet(Program) \cup {Forms} \cup {d.slug : d \in Catalogue}
FieldsOfProgram == UNION {ToSet(ProgramFields[slug]) : slug \in ToSet(Program)}
FieldsOfCatalogue == UNION {ToSet(d.fields) : d \in Catalogue}
AllFields == FieldsOfProgram \cup FieldsOfCatalogue

IsConfig(config) ==
    /\ config = [slugs |-> config.slugs, access |-> config.access, fields |-> config.fields]
    /\ config.slugs \in Seq(AllSlugs)
    /\ config.access \in [ToSet(config.slugs) -> Accesses]
    /\ config.fields \in [ToSet(config.slugs) -> Seq(AllFields)]
Configs ==
    {config \in [slugs : Seq(AllSlugs), access : UNION {[S -> Accesses] : S \in SUBSET AllSlugs},
                 fields : UNION {[S -> Seq(AllFields)] : S \in SUBSET AllSlugs}] : IsConfig(config)}

LEMMA ConfigsAre ==
    ASSUME NEW config
    PROVE  config \in Configs <=> IsConfig(config)
<1> SUFFICES ASSUME IsConfig(config) PROVE config \in Configs  BY DEF Configs
<1>1. config.slugs \in Seq(AllSlugs)  BY DEF IsConfig
<1>2. ToSet(config.slugs) \in SUBSET AllSlugs  BY <1>1 DEF ToSet
<1>3. config.access \in UNION {[S -> Accesses] : S \in SUBSET AllSlugs}  BY <1>2 DEF IsConfig
<1>4. config.fields \in UNION {[S -> Seq(AllFields)] : S \in SUBSET AllSlugs}  BY <1>2 DEF IsConfig
<1>5. config = [slugs |-> config.slugs, access |-> config.access, fields |-> config.fields]  BY DEF IsConfig
<1>6. config \in [slugs : Seq(AllSlugs), access : UNION {[S -> Accesses] : S \in SUBSET AllSlugs},
                  fields : UNION {[S -> Seq(AllFields)] : S \in SUBSET AllSlugs}]
      BY <1>1, <1>3, <1>4, <1>5
<1> QED  BY <1>6 DEF Configs

LEMMA FieldsOfDefinitions ==
    ASSUME NEW d \in Definitions
    PROVE  d.fields \in Seq(AllFields) /\ d.slug \in AllSlugs
<1>1. PICK e \in Catalogue : d = e \/ d = FromFile(e)  BY DEF Definitions
<1>2. IsDefinition(e)  BY EntityAssumption
<1>3. d.fields = e.fields /\ d.slug = e.slug  BY <1>1, <1>2, FromFileIs
<1>4. e.fields \in Seq(ToSet(e.fields))  BY <1>2 DEF IsDefinition, AreFields
<1>5. ToSet(e.fields) \subseteq AllFields
  <2>1. ToSet(e.fields) \subseteq FieldsOfCatalogue  BY Zenon DEF FieldsOfCatalogue
  <2> QED  BY <2>1 DEF AllFields
<1>6. e.fields \in Seq(AllFields)  BY <1>4, <1>5
<1> QED  BY <1>3, <1>6 DEF AllSlugs

LEMMA ExtendIs ==
    ASSUME NEW config, IsConfig(config), NEW d \in Definitions, d.extends \in ToSet(config.slugs)
    PROVE  /\ IsConfig(Extend(config, d)) /\ Extend(config, d).slugs = config.slugs
           /\ Extend(config, d).access =
                  [config.access EXCEPT ![d.extends] = MergedAccess(d, config.access[d.extends])]
<1> DEFINE slug == d.extends
           fields == config.fields[slug]
           I == {i \in DOMAIN fields : fields[i].name \notin d.hidden}
           next == Extend(config, d)
<1>1. /\ config = [slugs |-> config.slugs, access |-> config.access, fields |-> config.fields]
      /\ config.slugs \in Seq(AllSlugs)
      /\ config.access \in [ToSet(config.slugs) -> Accesses]
      /\ config.fields \in [ToSet(config.slugs) -> Seq(AllFields)]
      BY DEF IsConfig
<1>2. next = [config EXCEPT !.access[slug] = MergedAccess(d, config.access[slug]),
                            !.fields[slug] = Picked(fields, I) \o d.fields]
      BY DEF Extend
<1> DEFINE access1 == [config.access EXCEPT ![slug] = MergedAccess(d, config.access[slug])]
           fields1 == [config.fields EXCEPT ![slug] = Picked(fields, I) \o d.fields]
<1> HIDE DEF next
<1>3. next = [slugs |-> config.slugs, access |-> access1, fields |-> fields1]
  <2>1. next = [config EXCEPT !.access = access1, !.fields = fields1]  BY <1>2
  <2> HIDE DEF access1, fields1
  <2> QED  BY <1>1, <2>1
<1>4. access1 \in [ToSet(config.slugs) -> Accesses]
  <2>1. config.access[slug] \in Accesses /\ IsDefinition(d)  BY <1>1, DefinitionsAre
  <2>2. MergedAccess(d, config.access[slug]) \in Accesses  BY <2>1, MergeIs
  <2> QED  BY <2>2, <1>1
<1>5. fields1 \in [ToSet(config.slugs) -> Seq(AllFields)]
  <2>1. fields \in Seq(AllFields) /\ I \in SUBSET DOMAIN fields  BY <1>1
  <2>2. d.fields \in Seq(AllFields)  BY FieldsOfDefinitions
  <2> HIDE DEF fields, I
  <2>3. Picked(fields, I) \in Seq(AllFields)  BY <2>1, PickedType
  <2>4. Picked(fields, I) \o d.fields \in Seq(AllFields)  BY <2>2, <2>3
  <2> HIDE DEF slug
  <2> QED  BY <2>4, <1>1
<1> HIDE DEF access1, fields1
<1>5a. next.slugs = config.slugs /\ next.access = access1 /\ next.fields = fields1  BY <1>3
<1>6. IsConfig(next)  BY <1>1, <1>3, <1>4, <1>5, <1>5a DEF IsConfig
<1> QED  BY <1>5a, <1>6 DEF next, access1

LEMMA AddIs ==
    ASSUME NEW config, IsConfig(config), NEW d \in Definitions, d.valid
    PROVE  /\ IsConfig(Add(config, d)) /\ Add(config, d).slugs = Append(config.slugs, d.slug)
           /\ Add(config, d).access[d.slug] = MergedAccess(d, <<>>)
           /\ \A slug \in ToSet(config.slugs) \ {d.slug} :
                  Add(config, d).access[slug] = config.access[slug]
<1> DEFINE access1 == OrElse([slug \in {d.slug} |-> MergedAccess(d, <<>>)], config.access)
           fields1 == OrElse([slug \in {d.slug} |-> d.fields], config.fields)
           slugs1 == Append(config.slugs, d.slug)
           next == Add(config, d)
<1>1. /\ config.slugs \in Seq(AllSlugs)
      /\ config.access \in [ToSet(config.slugs) -> Accesses]
      /\ config.fields \in [ToSet(config.slugs) -> Seq(AllFields)]
      BY DEF IsConfig
<1>2. next = [slugs |-> slugs1, access |-> access1, fields |-> fields1]  BY DEF Add
<1>3. d.fields \in Seq(AllFields) /\ d.slug \in AllSlugs /\ IsDefinition(d)
      BY FieldsOfDefinitions, DefinitionsAre
<1>4. slugs1 \in Seq(AllSlugs) /\ ToSet(slugs1) = ToSet(config.slugs) \cup {d.slug}
      BY <1>1, <1>3, AppendIs
<1>5. MergedAccess(d, <<>>) \in Accesses
  <2>1. IsAccess(<<>>)  BY DEF IsAccess
  <2>2. <<>> \in Accesses  BY <2>1, AccessesAre
  <2> QED  BY <1>3, <2>2, MergeIs
<1>6. /\ access1 \in [ToSet(config.slugs) \cup {d.slug} -> Accesses]
      /\ access1[d.slug] = MergedAccess(d, <<>>)
      /\ \A slug \in ToSet(config.slugs) \ {d.slug} : access1[slug] = config.access[slug]
      BY <1>1, <1>5 DEF OrElse
<1>7. fields1 \in [ToSet(config.slugs) \cup {d.slug} -> Seq(AllFields)]
      BY <1>1, <1>3 DEF OrElse
<1> HIDE DEF access1, fields1, slugs1, next
<1>8. next.slugs = slugs1 /\ next.access = access1 /\ next.fields = fields1  BY <1>2
<1>9. IsConfig(next)  BY <1>2, <1>4, <1>6, <1>7, <1>8 DEF IsConfig
<1> QED  BY <1>6, <1>8, <1>9 DEF next, slugs1

-----------------------------------------------------------------------------
(* What definitions have made of the access of a collection *)

Extending(ds, slug) == {d \in ds : d.extends = slug}

\* The definitions ds have given away no more than they name.
Gains(access, original, ds, slug) ==
    \A op \in Ops, user \in Users : Answers(access, op, user) = "all" =>
        \/ Answers(original, op, user) = "all"
        \/ \E d \in ds : Concerns(d, slug) /\ Grants(d, op, user)

\* A rule no definition names is as it was, at most evaluated from its text; and
\* if all the definitions are files of one, its merge is what has become of it.
Follows(access, original, ds, slug) ==
    \A op \in DOMAIN original :
        /\ op \in DOMAIN access
        /\ (\A d \in Extending(ds, slug) : ~Names(d, op)) => access[op] \in {original[op], Moved(original[op])}
        /\ \A f \in Definitions :
               (\A d \in Extending(ds, slug) : FromFile(d) = f /\ op \notin d.texts \ f.texts) =>
                   access[op] = IF Extending(ds, slug) = {} THEN original[op]
                                ELSE AfterMerge(f, op, original[op])

LEMMA OriginalFollows ==
    ASSUME NEW access, NEW slug
    PROVE  Gains(access, access, {}, slug) /\ Follows(access, access, {}, slug)
BY DEF Gains, Follows, Extending

LEMMA MoreGains ==
    ASSUME NEW access, NEW original, NEW ds, NEW es, ds \subseteq es, NEW slug,
           Gains(access, original, ds, slug)
    PROVE  Gains(access, original, es, slug)
BY DEF Gains

\* Definitions of other collections change nothing.
LEMMA OthersFollow ==
    ASSUME NEW access, NEW original, NEW ds, NEW d, NEW slug, d.extends # slug,
           Follows(access, original, ds, slug)
    PROVE  Follows(access, original, ds \cup {d}, slug)
<1>1. Extending(ds \cup {d}, slug) = Extending(ds, slug)  BY DEF Extending
<1> QED  BY <1>1 DEF Follows

LEMMA MergedGains ==
    ASSUME NEW access \in Accesses, NEW original, NEW ds, NEW d \in Definitions, NEW slug,
           Concerns(d, slug), Gains(access, original, ds, slug)
    PROVE  Gains(MergedAccess(d, access), original, ds \cup {d}, slug)
<1>1. \A op \in Ops, user \in Users : Answers(MergedAccess(d, access), op, user) = "all" =>
          Answers(access, op, user) = "all" \/ Grants(d, op, user)
      BY DefinitionsAre, MergeIs
<1> QED  BY <1>1 DEF Gains

LEMMA MergedFollows ==
    ASSUME NEW access \in Accesses, NEW original \in Accesses, NEW ds \in SUBSET Definitions,
           NEW d \in Definitions, NEW slug, d.extends = slug, Follows(access, original, ds, slug)
    PROVE  Follows(MergedAccess(d, access), original, ds \cup {d}, slug)
<1> DEFINE m == MergedAccess(d, access)
           before == Extending(ds, slug)
           after == Extending(ds \cup {d}, slug)
<1>0. IsDefinition(d)  BY DefinitionsAre
<1>1. DOMAIN access \subseteq DOMAIN m /\ \A op \in DOMAIN access : m[op] = AfterMerge(d, op, access[op])
      BY <1>0, MergeIs
<1>2. after = before \cup {d} /\ before \subseteq Definitions  BY DEF Extending
<1> HIDE DEF m, before, after
<1>3. ASSUME NEW op \in DOMAIN original
      PROVE  /\ op \in DOMAIN m
             /\ (\A e \in after : ~Names(e, op)) => m[op] \in {original[op], Moved(original[op])}
             /\ \A f \in Definitions :
                    (\A e \in after : FromFile(e) = f /\ op \notin e.texts \ f.texts) =>
                        m[op] = IF after = {} THEN original[op] ELSE AfterMerge(f, op, original[op])
  <2>1. /\ op \in DOMAIN access
        /\ (\A e \in before : ~Names(e, op)) => access[op] \in {original[op], Moved(original[op])}
        /\ \A f \in Definitions :
               (\A e \in before : FromFile(e) = f /\ op \notin e.texts \ f.texts) =>
                   access[op] = IF before = {} THEN original[op] ELSE AfterMerge(f, op, original[op])
        BY DEF Follows, before
  <2>2. original[op] \in Rules /\ access[op] \in Rules /\ Moved(original[op]) \in Rules
        /\ Moved(Moved(original[op])) = Moved(original[op])
    <3>1. IsAccess(original) /\ IsAccess(access)  BY AccessesAre
    <3>2. original[op] \in Rules /\ access[op] \in Rules  BY <3>1, <2>1 DEF IsAccess
    <3> QED  BY <3>2, RulesAre
  <2>3. m[op] = AfterMerge(d, op, access[op])  BY <1>1, <2>1
  <2>4. ASSUME \A e \in after : ~Names(e, op)
        PROVE  m[op] \in {original[op], Moved(original[op])}
    <3>1. access[op] \in {original[op], Moved(original[op])} /\ ~Names(d, op)  BY <1>2, <2>1, <2>4
    <3>2. m[op] \in {access[op], Moved(access[op])}  BY <1>0, <2>2, <2>3, <3>1, MergingTwice
    <3> QED  BY <3>1, <3>2, <2>2
  <2>5. ASSUME NEW f \in Definitions, \A e \in after : FromFile(e) = f /\ op \notin e.texts \ f.texts
        PROVE  m[op] = AfterMerge(f, op, original[op])
    <3>0. IsDefinition(f)  BY DefinitionsAre
    <3>1. FromFile(d) = f /\ op \notin d.texts \ f.texts  BY <1>2, <2>5
    <3>2. m[op] = AfterMerge(f, op, access[op])  BY <1>0, <2>2, <2>3, <3>1, MergingTwice
    <3>3. access[op] \in {original[op], AfterMerge(f, op, original[op])}  BY <1>2, <2>1, <2>5
    <3>4. AfterMerge(f, op, AfterMerge(f, op, original[op])) = AfterMerge(f, op, original[op])
          BY <2>2, <3>0, MergingTwice
    <3> QED  BY <3>2, <3>3, <3>4
  <2>6. after # {} /\ op \in DOMAIN m  BY <1>1, <1>2, <2>1
  <2> QED  BY <2>4, <2>5, <2>6
<1> QED  BY <1>3 DEF Follows, m, after

\* What Payload adds to a collection answers as Payload does without it.
LEMMA SanitizedAnswers ==
    ASSUME NEW access \in Accesses
    PROVE  LET more == OrElse(access, [op \in Ops \ {"readVersions", "admin"} |-> Text])
           IN  /\ more \in Accesses
               /\ DOMAIN access \subseteq DOMAIN more /\ \A op \in DOMAIN access : more[op] = access[op]
               /\ \A op, user : Answers(more, op, user) = Answers(access, op, user)
<1> DEFINE added == Ops \ {"readVersions", "admin"}
           more == OrElse(access, [op \in added |-> Text])
<1>0. IsAccess(access)  BY AccessesAre
<1>1. DOMAIN access \subseteq Ops /\ \A op \in DOMAIN access : access[op] \in Rules  BY <1>0 DEF IsAccess
<1>2. more = [op \in DOMAIN access \cup added |-> IF op \in DOMAIN access THEN access[op] ELSE Text]
      BY DEF OrElse
<1> HIDE DEF more
<1>3. DOMAIN more = DOMAIN access \cup added /\ DOMAIN more \subseteq Ops  BY <1>1, <1>2
<1>4. \A op \in DOMAIN more : more[op] = IF op \in DOMAIN access THEN access[op] ELSE Text  BY <1>2
<1>5. more \in Accesses
  <2>1. \A op \in DOMAIN more : more[op] \in Rules  BY <1>1, <1>3, <1>4, RulesAre
  <2>2. more = [op \in DOMAIN more |-> more[op]]  BY <1>2
  <2>3. IsAccess(more)  BY <1>3, <2>1, <2>2 DEF IsAccess
  <2> QED  BY <2>3, AccessesAre
<1>6. ASSUME NEW op, NEW user PROVE Answers(more, op, user) = Answers(access, op, user)
  <2>1. CASE op \in DOMAIN access  BY <2>1, <1>3, <1>4 DEF Answers
  <2>2. CASE op \in DOMAIN more \ DOMAIN access
    <3>1. more[op] = Text  BY <2>2, <1>4
    <3>2. Answer(Text, user) = IF LoggedIn(user) THEN "all" ELSE "none"  BY DEF Answer, Text
    <3> QED  BY <2>2, <3>1, <3>2 DEF Answers
  <2>3. CASE op \notin DOMAIN more  BY <2>3, <1>3 DEF Answers
  <2> QED  BY <2>1, <2>2, <2>3
<1> QED  BY <1>3, <1>4, <1>5, <1>6 DEF more

LEMMA SanitizedFollows ==
    ASSUME NEW access \in Accesses, NEW original, NEW ds, NEW slug
    PROVE  LET more == OrElse(access, [op \in Ops \ {"readVersions", "admin"} |-> Text])
           IN  /\ Gains(access, original, ds, slug) => Gains(more, original, ds, slug)
               /\ Follows(access, original, ds, slug) => Follows(more, original, ds, slug)
<1> DEFINE more == OrElse(access, [op \in Ops \ {"readVersions", "admin"} |-> Text])
<1>1. /\ DOMAIN access \subseteq DOMAIN more /\ \A op \in DOMAIN access : more[op] = access[op]
      /\ \A op, user : Answers(more, op, user) = Answers(access, op, user)
      BY SanitizedAnswers
<1> HIDE DEF more
<1>2. Gains(access, original, ds, slug) => Gains(more, original, ds, slug)  BY <1>1 DEF Gains
<1>3. Follows(access, original, ds, slug) => Follows(more, original, ds, slug)
  <2> SUFFICES ASSUME Follows(access, original, ds, slug), NEW op \in DOMAIN original
               PROVE  op \in DOMAIN access /\ op \in DOMAIN more /\ more[op] = access[op]
      BY DEF Follows
  <2> QED  BY <1>1 DEF Follows
<1> QED  BY <1>2, <1>3 DEF more

-----------------------------------------------------------------------------
(* Applying the definitions, one after the other *)

Pushed(d) == d.valid /\ ~Extension(d)
Served(base, ds, config) ==
    ToSet(config.slugs) = ToSet(base.slugs) \cup {d.slug : d \in {e \in ds : Pushed(e)}}
Related(base, ds) ==
    \A d \in ds : GetRelationsForCollection(d) \subseteq ToSet(base.slugs) \cup {e.slug : e \in ds}
InOrder(base, ds, config) ==
    \A d \in ds, i, j \in DOMAIN config.slugs :
        /\ Pushed(d) /\ config.slugs[i] = d.slug /\ d.slug \notin ToSet(base.slugs)
        /\ config.slugs[j] \in GetRelationsForCollection(d)
        => j < i
OriginalIn(base, slug) == IF slug \in ToSet(base.slugs) THEN base.access[slug] ELSE <<>>
Accessed(base, ds, config) ==
    \A slug \in ToSet(config.slugs) :
        /\ Gains(config.access[slug], OriginalIn(base, slug), ds, slug)
        /\ Follows(config.access[slug], OriginalIn(base, slug), ds, slug)
ApplyInv(base, ds, config) ==
    /\ IsConfig(config) /\ Served(base, ds, config)
    /\ IsInjective(config.slugs) => InOrder(base, ds, config) /\ Accessed(base, ds, config)

\* The collections one begins with are collections of the program.
IsBase(base) == IsConfig(base) /\ NoBase \notin ToSet(base.slugs)

LEMMA NoAccess ==
    <<>> \in Accesses /\ \A access, ds, slug : Follows(access, <<>>, ds, slug)
<1>1. DOMAIN <<>> = {}  OBVIOUS
<1>2. IsAccess(<<>>)  BY DEF IsAccess
<1> QED  BY <1>1, <1>2, AccessesAre DEF Follows

LEMMA OriginalInIs ==
    ASSUME NEW base, IsBase(base), NEW slug
    PROVE  OriginalIn(base, slug) \in Accesses
BY NoAccess DEF OriginalIn, IsBase, IsConfig

LEMMA OthersAccessed ==
    ASSUME NEW base, IsBase(base), NEW ds, NEW d, NEW slug, NEW access,
           d.extends = slug => slug = NoBase,
           Gains(access, OriginalIn(base, slug), ds, slug),
           Follows(access, OriginalIn(base, slug), ds, slug)
    PROVE  /\ Gains(access, OriginalIn(base, slug), ds \cup {d}, slug)
           /\ Follows(access, OriginalIn(base, slug), ds \cup {d}, slug)
<1>1. Gains(access, OriginalIn(base, slug), ds \cup {d}, slug)
  <2>1. ds \subseteq ds \cup {d}  OBVIOUS
  <2> QED  BY <2>1, MoreGains
<1>2. CASE d.extends # slug  BY <1>1, <1>2, OthersFollow
<1>3. CASE d.extends = slug
  <2>1. OriginalIn(base, slug) = <<>>  BY <1>3 DEF IsBase, OriginalIn
  <2> QED  BY <1>1, <2>1, NoAccess
<1> QED  BY <1>2, <1>3

\* A definition that adds nothing.
LEMMA NothingAdded ==
    ASSUME NEW base, IsBase(base), NEW ds, NEW config, ApplyInv(base, ds, config), NEW d, ~Pushed(d),
           \A slug \in ToSet(config.slugs) : d.extends = slug => slug = NoBase
    PROVE  ApplyInv(base, ds \cup {d}, config)
<1>1. Served(base, ds \cup {d}, config)
  <2>1. {e \in ds \cup {d} : Pushed(e)} = {e \in ds : Pushed(e)}  OBVIOUS
  <2> QED  BY <2>1 DEF ApplyInv, Served
<1>2. InOrder(base, ds, config) => InOrder(base, ds \cup {d}, config)  BY DEF InOrder
<1>3. Accessed(base, ds, config) => Accessed(base, ds \cup {d}, config)
  <2> SUFFICES ASSUME Accessed(base, ds, config), NEW slug \in ToSet(config.slugs)
               PROVE  /\ Gains(config.access[slug], OriginalIn(base, slug), ds \cup {d}, slug)
                      /\ Follows(config.access[slug], OriginalIn(base, slug), ds \cup {d}, slug)
      BY DEF Accessed
  <2>1. /\ Gains(config.access[slug], OriginalIn(base, slug), ds, slug)
        /\ Follows(config.access[slug], OriginalIn(base, slug), ds, slug)
        /\ d.extends = slug => slug = NoBase
        BY DEF Accessed
  <2> QED  BY <2>1, OthersAccessed
<1> QED  BY <1>1, <1>2, <1>3 DEF ApplyInv

LEMMA ExtensionApplied ==
    ASSUME NEW base, IsBase(base), NEW ds \in SUBSET Definitions, NEW config, ApplyInv(base, ds, config),
           NEW d \in Definitions, Extension(d)
    PROVE  ApplyInv(base, ds \cup {d}, Extend(config, d))
<1>0. IsConfig(config) /\ Served(base, ds, config) /\ ~Pushed(d)  BY DEF ApplyInv, Pushed
<1>1. CASE d.extends \notin ToSet(config.slugs)
  <2>1. Extend(config, d) = config  BY <1>1 DEF Extend
  <2> QED  BY <1>0, <1>1, <2>1, NothingAdded
<1>2. CASE d.extends \in ToSet(config.slugs)
  <2> DEFINE next == Extend(config, d)
             merged == MergedAccess(d, config.access[d.extends])
  <2>1. /\ IsConfig(next) /\ next.slugs = config.slugs
        /\ next.access = [config.access EXCEPT ![d.extends] = merged]
        BY <1>0, <1>2, ExtendIs
  <2> HIDE DEF next
  <2>2. config.access \in [ToSet(config.slugs) -> Accesses]  BY <1>0 DEF IsConfig
  <2>3. Served(base, ds \cup {d}, next)
    <3>1. {e \in ds \cup {d} : Pushed(e)} = {e \in ds : Pushed(e)}  BY <1>0
    <3> QED  BY <1>0, <2>1, <3>1 DEF Served
  <2>4. InOrder(base, ds, config) => InOrder(base, ds \cup {d}, next)  BY <1>0, <2>1 DEF InOrder
  <2>5. Accessed(base, ds, config) => Accessed(base, ds \cup {d}, next)
    <3> SUFFICES ASSUME Accessed(base, ds, config), NEW slug \in ToSet(config.slugs)
                 PROVE  /\ Gains(next.access[slug], OriginalIn(base, slug), ds \cup {d}, slug)
                        /\ Follows(next.access[slug], OriginalIn(base, slug), ds \cup {d}, slug)
        BY <2>1 DEF Accessed
    <3>1. /\ Gains(config.access[slug], OriginalIn(base, slug), ds, slug)
          /\ Follows(config.access[slug], OriginalIn(base, slug), ds, slug)
          BY DEF Accessed
    <3>2. CASE slug # d.extends
      <4>1. next.access[slug] = config.access[slug]  BY <3>2, <2>1, <2>2
      <4> QED  BY <4>1, <3>1, <3>2, OthersAccessed
    <3>3. CASE slug = d.extends
      <4>0. config.access[slug] \in Accesses  BY <2>2
      <4>1. next.access[slug] = MergedAccess(d, config.access[slug])  BY <3>3, <2>1, <2>2
      <4>2. Concerns(d, slug) /\ OriginalIn(base, slug) \in Accesses  BY <3>3, OriginalInIs DEF Concerns
      <4> QED  BY <4>0, <4>1, <4>2, <3>1, <3>3, MergedGains, MergedFollows
    <3> QED  BY <3>2, <3>3
  <2> QED  BY <2>1, <2>3, <2>4, <2>5 DEF ApplyInv, next
<1> QED  BY <1>1, <1>2

LEMMA CollectionAdded ==
    ASSUME NEW base, IsBase(base), NEW D \in SUBSET Definitions, Distinct(D), NEW ds \in SUBSET D,
           NEW config, ApplyInv(base, ds, config), Related(base, ds), NEW d \in D, Pushed(d),
           GetRelationsForCollection(d) \subseteq ToSet(base.slugs) \cup {e.slug : e \in ds}
    PROVE  ApplyInv(base, ds \cup {d}, Add(config, d))
<1> DEFINE next == Add(config, d)
           slugs == config.slugs
           n == Len(slugs)
<1>0. IsConfig(config) /\ Served(base, ds, config) /\ d \in Definitions /\ d.valid /\ ~Extension(d)
      BY DEF ApplyInv, Pushed
<1>1. /\ IsConfig(next) /\ next.slugs = Append(slugs, d.slug)
      /\ next.access[d.slug] = MergedAccess(d, <<>>)
      /\ \A slug \in ToSet(slugs) \ {d.slug} : next.access[slug] = config.access[slug]
      BY <1>0, AddIs
<1> HIDE DEF next
<1>2. slugs \in Seq(AllSlugs) /\ next.slugs \in Seq(AllSlugs)  BY <1>0, <1>1 DEF IsConfig
<1>3. /\ n \in Nat /\ DOMAIN slugs = 1 .. n /\ DOMAIN next.slugs = 1 .. n + 1
      /\ next.slugs[n + 1] = d.slug /\ \A i \in 1 .. n : next.slugs[i] = slugs[i]
  <2>1. d.slug \in AllSlugs  BY <1>0, FieldsOfDefinitions
  <2> QED  BY <1>1, <1>2, <2>1
<1>4. ToSet(next.slugs) = ToSet(slugs) \cup {d.slug}
  <2>1. d.slug \in AllSlugs  BY <1>0, FieldsOfDefinitions
  <2> QED  BY <1>1, <1>2, <2>1, AppendIs
<1> HIDE DEF slugs, n
<1>5. Served(base, ds \cup {d}, next)
  <2>1. {e \in ds \cup {d} : Pushed(e)} = {e \in ds : Pushed(e)} \cup {d}  OBVIOUS
  <2>2. ToSet(slugs) = ToSet(base.slugs) \cup {e.slug : e \in {x \in ds : Pushed(x)}}
        BY <1>0 DEF Served, slugs
  <2> HIDE DEF Served
  <2>3. {e.slug : e \in {x \in ds \cup {d} : Pushed(x)}} = {e.slug : e \in {x \in ds : Pushed(x)}} \cup {d.slug}
        BY <2>1
  <2> QED  BY <1>4, <2>2, <2>3 DEF Served
<1>6. ASSUME IsInjective(next.slugs)
      PROVE  InOrder(base, ds \cup {d}, next) /\ Accessed(base, ds \cup {d}, next)
  <2>1. IsInjective(slugs) /\ d.slug \notin ToSet(slugs)
    <3>1. \A i, j \in 1 .. n + 1 : next.slugs[i] = next.slugs[j] => i = j  BY <1>3, <1>6 DEF IsInjective
    <3>2. IsInjective(slugs)
      <4> SUFFICES ASSUME NEW i \in 1 .. n, NEW j \in 1 .. n, slugs[i] = slugs[j] PROVE i = j
          BY <1>3 DEF IsInjective
      <4>1. i \in 1 .. n + 1 /\ j \in 1 .. n + 1 /\ next.slugs[i] = next.slugs[j]  BY <1>3
      <4> QED  BY <3>1, <4>1
    <3>3. ASSUME d.slug \in ToSet(slugs) PROVE FALSE
      <4>1. PICK i \in 1 .. n : slugs[i] = d.slug  BY <1>3, <3>3 DEF ToSet
      <4>2. i \in 1 .. n + 1 /\ n + 1 \in 1 .. n + 1 /\ i # n + 1 /\ next.slugs[i] = next.slugs[n + 1]
            BY <1>3, <4>1
      <4> QED  BY <3>1, <4>2
    <3> QED  BY <3>2, <3>3
  <2>2. InOrder(base, ds, config) /\ Accessed(base, ds, config)  BY <2>1 DEF ApplyInv, slugs
  <2>3. d.slug \notin ToSet(base.slugs) \cup {e.slug : e \in ds}
    <3>1. d.slug \notin ToSet(base.slugs)  BY <1>0, <2>1 DEF Served, slugs
    <3>2. ASSUME NEW e \in ds, e.slug = d.slug PROVE FALSE
      <4>1. e = d  BY <3>2 DEF Distinct
      <4> QED  BY <1>0, <2>1, <4>1 DEF Served, slugs
    <3> QED  BY <3>1, <3>2
  <2>4. InOrder(base, ds \cup {d}, next)
    <3> SUFFICES ASSUME NEW e \in ds \cup {d}, NEW i \in 1 .. n + 1, NEW j \in 1 .. n + 1, Pushed(e),
                        next.slugs[i] = e.slug, e.slug \notin ToSet(base.slugs),
                        next.slugs[j] \in GetRelationsForCollection(e)
                 PROVE  j < i
        BY <1>3 DEF InOrder
    <3>1. j # n + 1
      <4>1. GetRelationsForCollection(e) \subseteq ToSet(base.slugs) \cup {x.slug : x \in ds}
            BY DEF Related
      <4> QED  BY <4>1, <2>3, <1>3
    <3>2. j \in 1 .. n /\ slugs[j] = next.slugs[j]  BY <3>1, <1>3
    <3>3. CASE i = n + 1  BY <3>2, <3>3, <1>3
    <3>4. CASE i # n + 1
      <4>1. i \in 1 .. n /\ slugs[i] = e.slug  BY <3>4, <1>3
      <4>2. e # d
        <5>1. slugs[i] \in ToSet(slugs)  BY <4>1, <1>3 DEF ToSet
        <5> QED  BY <5>1, <4>1, <2>1
      <4> QED  BY <4>1, <4>2, <3>2, <2>2, <1>3 DEF InOrder, slugs
    <3> QED  BY <3>3, <3>4
  <2>5. Accessed(base, ds \cup {d}, next)
    <3> SUFFICES ASSUME NEW slug \in ToSet(slugs) \cup {d.slug}
                 PROVE  /\ Gains(next.access[slug], OriginalIn(base, slug), ds \cup {d}, slug)
                        /\ Follows(next.access[slug], OriginalIn(base, slug), ds \cup {d}, slug)
        BY <1>4 DEF Accessed
    <3>1. CASE slug = d.slug
      <4>1. OriginalIn(base, slug) = <<>>  BY <3>1, <2>3 DEF OriginalIn
      <4>2. Concerns(d, slug)  BY <1>0, <3>1 DEF Concerns
      <4>3. Gains(<<>>, <<>>, ds, slug)
        <5>1. {} \subseteq ds  OBVIOUS
        <5> QED  BY <5>1, OriginalFollows, MoreGains
      <4>4. <<>> \in Accesses  BY NoAccess
      <4>5. Gains(MergedAccess(d, <<>>), <<>>, ds \cup {d}, slug)  BY <1>0, <4>2, <4>3, <4>4, MergedGains
      <4> QED  BY <3>1, <4>1, <4>5, <1>1, NoAccess
    <3>2. CASE slug # d.slug
      <4>1. slug \in ToSet(config.slugs) /\ next.access[slug] = config.access[slug]
            BY <3>2, <1>1 DEF slugs
      <4>2. /\ Gains(config.access[slug], OriginalIn(base, slug), ds, slug)
            /\ Follows(config.access[slug], OriginalIn(base, slug), ds, slug)
            BY <4>1, <2>2 DEF Accessed
      <4>3. d.extends = slug => slug = NoBase  BY <1>0 DEF Extension
      <4> QED  BY <4>1, <4>2, <4>3, OthersAccessed
    <3> QED  BY <3>1, <3>2
  <2> QED  BY <2>4, <2>5
<1> QED  BY <1>1, <1>5, <1>6 DEF ApplyInv, next

LEMMA DefinitionApplied ==
    ASSUME NEW base, IsBase(base), NEW D \in SUBSET Definitions, Distinct(D), NEW ds \in SUBSET D,
           NEW config, ApplyInv(base, ds, config), Related(base, ds), NEW d \in D,
           GetRelationsForCollection(d) \subseteq ToSet(base.slugs) \cup {e.slug : e \in ds}
    PROVE  /\ ApplyInv(base, ds \cup {d}, TransformCollection(config, d))
           /\ Related(base, ds \cup {d})
<1>1. Related(base, ds \cup {d})  BY DEF Related
<1>2. CASE Extension(d)
  <2>1. TransformCollection(config, d) = Extend(config, d)  BY <1>2 DEF TransformCollection
  <2>2. ds \in SUBSET Definitions /\ d \in Definitions  OBVIOUS
  <2> QED  BY <1>1, <1>2, <2>1, <2>2, ExtensionApplied
<1>3. CASE Pushed(d)
  <2>1. TransformCollection(config, d) = Add(config, d)  BY <1>3 DEF TransformCollection, Pushed
  <2> QED  BY <1>1, <1>3, <2>1, CollectionAdded
<1>4. CASE ~Extension(d) /\ ~Pushed(d)
  <2>1. TransformCollection(config, d) = config  BY <1>4 DEF TransformCollection, Pushed, Add
  <2>2. \A slug \in ToSet(config.slugs) : d.extends = slug => slug = NoBase  BY <1>4 DEF Extension
  <2> QED  BY <1>1, <1>4, <2>1, <2>2, NothingAdded
<1> QED  BY <1>2, <1>3, <1>4

LEMMA NothingApplied ==
    ASSUME NEW base, IsBase(base)
    PROVE  ApplyInv(base, {}, base) /\ Related(base, {})
<1>1. Served(base, {}, base)  BY DEF Served
<1>2. InOrder(base, {}, base) /\ Related(base, {})  BY DEF InOrder, Related
<1>3. Accessed(base, {}, base)  BY OriginalFollows DEF Accessed, OriginalIn
<1> QED  BY <1>1, <1>2, <1>3 DEF ApplyInv, IsBase

\* Whatever the files' order, what can be resolved is applied, or nothing is.
Applicable(base, D) ==
    IF \E d \in D : ~d.complete THEN {} ELSE Resolvable(ToSet(base.slugs), D)

LEMMA FilterValidIs ==
    ASSUME NEW base, IsBase(base), NEW D \in SUBSET Definitions, Distinct(D),
           NEW incoming \in Seq(D), ToSet(incoming) = D, IsInjective(incoming)
    PROVE  ApplyInv(base, Applicable(base, D), FilterValidCollections(base, incoming))
<1>1. CASE \E d \in D : ~d.complete
  <2>1. \E i \in DOMAIN incoming : ~incoming[i].complete  BY <1>1 DEF ToSet
  <2>2. FilterValidCollections(base, incoming) = base  BY <2>1 DEF FilterValidCollections
  <2> QED  BY <1>1, <2>2, NothingApplied DEF Applicable
<1>2. CASE ~\E d \in D : ~d.complete
  <2>0. ~\E i \in DOMAIN incoming : ~incoming[i].complete  BY <1>2 DEF ToSet
  <2> DEFINE sorted == SortCollectionsByRelations(ToSet(base.slugs), incoming)
             N == Len(sorted)
             step == [n \in 1 .. N |-> [c \in Configs |-> TransformCollection(c, sorted[n])]]
             after[n \in 0 .. N] == IF n = 0 THEN base ELSE TransformCollection(after[n - 1], sorted[n])
  <2>1. FilterValidCollections(base, incoming) = after[N]
        BY <2>0, Zenon DEF FilterValidCollections
  <2>2. /\ sorted \in Seq(D) /\ ToSet(sorted) = Resolvable(ToSet(base.slugs), D)
        /\ \A p \in DOMAIN sorted : GetRelationsForCollection(sorted[p]) \subseteq
               ToSet(base.slugs) \cup {sorted[q].slug : q \in 1 .. p - 1}
        BY SortIs
  <2> HIDE DEF sorted
  <2>3. N \in Nat /\ DOMAIN sorted = 1 .. N /\ \A n \in 1 .. N : sorted[n] \in D  BY <2>2
  <2> HIDE DEF N
  <2>4. \E f : f = [n \in 0 .. N |-> IF n = 0 THEN base ELSE TransformCollection(f[n - 1], sorted[n])]
    <3>1. ASSUME NEW n \in 1 .. N, NEW c \in Configs PROVE TransformCollection(c, sorted[n]) \in Configs
      <4> DEFINE d == sorted[n]
      <4>1. d \in Definitions /\ IsConfig(c)  BY <2>3, ConfigsAre
      <4> HIDE DEF d
      <4>2. CASE Extension(d) /\ d.extends \in ToSet(c.slugs)
        <5>1. IsConfig(Extend(c, d))  BY <4>1, <4>2, ExtendIs
        <5> QED  BY <4>2, <5>1, ConfigsAre DEF TransformCollection, d
      <4>3. CASE ~Extension(d) /\ d.valid
        <5>1. IsConfig(Add(c, d))  BY <4>1, <4>3, AddIs
        <5> QED  BY <4>3, <5>1, ConfigsAre DEF TransformCollection, d
      <4>4. CASE (Extension(d) /\ d.extends \notin ToSet(c.slugs)) \/ (~Extension(d) /\ ~d.valid)
        <5>1. TransformCollection(c, d) = c  BY <4>4 DEF TransformCollection, Extend, Add
        <5> QED  BY <5>1 DEF d
      <4> QED  BY <4>2, <4>3, <4>4
    <3>2. step \in [1 .. N -> [Configs -> Configs]]
      <4> HIDE DEF Configs
      <4> QED  BY <3>1
    <3>3. base \in Configs  BY ConfigsAre DEF IsBase
    <3> HIDE DEF step, after
    <3>4. PICK f \in [0 .. N -> Configs] : Takes(f, base, N, step)
          BY <2>3, <3>2, <3>3, RecursionExists
    <3>5. ASSUME NEW n \in 0 .. N
          PROVE  f[n] = IF n = 0 THEN base ELSE TransformCollection(f[n - 1], sorted[n])
      <4>1. CASE n = 0  BY <4>1, <3>4 DEF Takes
      <4>2. CASE n # 0
        <5>1. n \in 1 .. N /\ n - 1 \in 0 .. N  BY <4>2, <2>3
        <5>2. f[n] = step[n][f[n - 1]] /\ f[n - 1] \in Configs  BY <5>1, <3>4 DEF Takes
        <5> QED  BY <4>2, <5>1, <5>2 DEF step
      <4> QED  BY <4>1, <4>2
    <3>6. f = [n \in 0 .. N |-> f[n]]  OBVIOUS
    <3>7. f = [n \in 0 .. N |-> IF n = 0 THEN base ELSE TransformCollection(f[n - 1], sorted[n])]
          BY <3>5, <3>6
    <3> QED  BY <3>7
  <2>5. after = [n \in 0 .. N |-> IF n = 0 THEN base ELSE TransformCollection(after[n - 1], sorted[n])]
        BY <2>4, Zenon DEF after
  <2> HIDE DEF after
  <2>6. \A n \in 0 .. N : after[n] = IF n = 0 THEN base ELSE TransformCollection(after[n - 1], sorted[n])
        BY <2>5, Zenon
  <2> DEFINE Done(n) == {sorted[k] : k \in 1 .. n}
             T == {n \in 0 .. N : ApplyInv(base, Done(n), after[n]) /\ Related(base, Done(n))}
  <2>7. 0 \in T
    <3>1. after[0] = base /\ 0 \in 0 .. N  BY <2>3, <2>6
    <3>2. Done(0) = {}  OBVIOUS
    <3> HIDE DEF Done
    <3> QED  BY <3>1, <3>2, NothingApplied
  <2>8. ASSUME NEW n \in 1 .. N, n - 1 \in T PROVE n \in T
    <3>1. ApplyInv(base, Done(n - 1), after[n - 1]) /\ Related(base, Done(n - 1))  BY <2>8
    <3>2. n \in 0 .. N /\ n # 0 /\ 1 .. n = (1 .. n - 1) \cup {n} /\ n \in DOMAIN sorted  BY <2>3
    <3>3. after[n] = TransformCollection(after[n - 1], sorted[n]) /\ sorted[n] \in D  BY <2>3, <2>6, <3>2
    <3>4. Done(n) = Done(n - 1) \cup {sorted[n]}  BY <3>2
    <3>5. Done(n - 1) \in SUBSET D
      <4>1. \A k \in 1 .. n - 1 : k \in 1 .. N  BY <2>3
      <4> QED  BY <4>1, <2>3
    <3>6. GetRelationsForCollection(sorted[n]) \subseteq
              ToSet(base.slugs) \cup {e.slug : e \in Done(n - 1)}
      <4>1. {sorted[q].slug : q \in 1 .. n - 1} = {e.slug : e \in Done(n - 1)}  OBVIOUS
      <4> QED  BY <4>1, <2>2, <3>2
    <3> HIDE DEF Done
    <3>7. ApplyInv(base, Done(n), after[n]) /\ Related(base, Done(n))
      <4> DEFINE ds == Done(n - 1)
                 d == sorted[n]
      <4>1. ds \in SUBSET D /\ d \in D  BY <3>3, <3>5
      <4>2. GetRelationsForCollection(d) \subseteq ToSet(base.slugs) \cup {e.slug : e \in ds}  BY <3>6
      <4> HIDE DEF ds, d
      <4>3. /\ ApplyInv(base, ds \cup {d}, TransformCollection(after[n - 1], d))
            /\ Related(base, ds \cup {d})
            BY <3>1, <4>1, <4>2, DefinitionApplied DEF ds
      <4> QED  BY <4>3, <3>3, <3>4 DEF ds, d
    <3> QED  BY <3>2, <3>7
  <2> HIDE DEF T
  <2>9. N \in T
    <3>1. 0 .. N \subseteq T  BY <2>3, <2>7, <2>8, InductionUpTo
    <3> QED  BY <3>1, <2>3
  <2>10. ApplyInv(base, Done(N), after[N])  BY <2>9 DEF T
  <2>11. Done(N) = Applicable(base, D)  BY <1>2, <2>2, <2>3 DEF Applicable, ToSet
  <2> QED  BY <2>1, <2>10, <2>11
<1> QED  BY <1>1, <1>2

-----------------------------------------------------------------------------
(* Taking out fields that relate to nothing *)

\* One more position of a list adds the element there at the end.
LEMMA PickedNext ==
    ASSUME NEW S, NEW s \in Seq(S), NEW k \in DOMAIN s, NEW I \in SUBSET (1 .. k - 1)
    PROVE  Picked(s, I \cup {k}) = Append(Picked(s, I), s[k])
<1> DEFINE J == I \cup {k}
           c == Cardinality(I)
<1>0. k \in 1 .. Len(s) /\ Len(s) \in Nat /\ k - 1 \in Nat  OBVIOUS
<1>a. \A i \in I : i \in Nat /\ i < k /\ i \in 1 .. Len(s)
  <2>1. \A i \in 1 .. k - 1 : i \in Nat /\ i < k /\ i \in 1 .. Len(s)  BY <1>0
  <2> QED  BY <2>1
<1>1. I \in SUBSET (1 .. Len(s)) /\ J \in SUBSET (1 .. Len(s)) /\ k \notin I /\ k \in Nat
  <2>1. I \subseteq 1 .. Len(s)  BY <1>a, Zenon
  <2>2. k \in Nat /\ ~(k < k)  BY <1>0
  <2>3. k \notin I  BY <2>2, <1>a, Zenon
  <2> QED  BY <1>0, <2>1, <2>2, <2>3, Zenon
<1>2. IsPositions(I) /\ IsPositions(J) /\ c \in Nat  BY <1>0, <1>1, SomePositions
<1>3. Cardinality(J) = c + 1
  <2>1. IsFiniteSet(I)  BY <1>2 DEF IsPositions
  <2> QED  BY <2>1, <1>1, FS_AddElement
<1>4. ASSUME NEW n \in 1 .. c PROVE Nth(J, n) = Nth(I, n)
  <2> DEFINE j == Nth(I, n)
  <2>1. j \in I /\ Rank(I, j) = n  BY <1>2, NthExists
  <2> HIDE DEF j
  <2>2. j \in Nat /\ ~(k <= j)  BY <1>1, <1>a, <2>1
  <2>3. {x \in J : x <= j} = {x \in I : x <= j}  BY <2>2
  <2>4. Rank(J, j) = n /\ j \in J  BY <2>1, <2>3 DEF Rank
  <2>5. Nth(J, n) = j  BY <1>2, <2>4, NthOfRank
  <2> QED  BY <2>5 DEF j
<1>5. Nth(J, c + 1) = k
  <2>0. \A x \in J : x <= k
    <3>1. \A x \in I : x <= k  BY <1>a, <1>1
    <3> QED  BY <3>1, <1>1
  <2>1. {x \in J : x <= k} = J  BY <2>0, Zenon
  <2>2. Rank(J, k) = c + 1 /\ k \in J  BY <1>3, <2>1 DEF Rank
  <2> QED  BY <1>2, <2>2, NthOfRank
<1> DEFINE t == Picked(s, I)
           u == Picked(s, J)
<1>6. t \in Seq(S) /\ Len(t) = c /\ u \in Seq(S) /\ Len(u) = c + 1 /\ s[k] \in S
      BY <1>0, <1>1, <1>3, PickedType
<1>7. /\ \A n \in 1 .. c : t[n] = s[Nth(I, n)]
      /\ \A n \in 1 .. c + 1 : u[n] = s[Nth(J, n)]
      BY <1>3 DEF Picked
<1> HIDE DEF t, u, J, c
<1>8. Append(t, s[k]) \in Seq(S) /\ Len(Append(t, s[k])) = c + 1
      /\ (\A n \in 1 .. c : Append(t, s[k])[n] = t[n]) /\ Append(t, s[k])[c + 1] = s[k]
      BY <1>6, AppendProperties
<1>9. ASSUME NEW n \in 1 .. c + 1 PROVE u[n] = Append(t, s[k])[n]
  <2>0. n \in 1 .. c \/ n = c + 1  BY <1>2
  <2>1. CASE n \in 1 .. c  BY <2>1, <1>4, <1>7, <1>8
  <2>2. CASE n = c + 1  BY <2>2, <1>5, <1>7, <1>8
  <2> QED  BY <2>0, <2>1, <2>2
<1>10. u = Append(t, s[k])  BY <1>6, <1>8, <1>9, SeqEqual
<1> QED  BY <1>10 DEF t, u, J

\* Around one element of a list.
LEMMA Around ==
    ASSUME NEW S, NEW p \in Seq(S), NEW t \in Seq(S), NEW x \in S, NEW f, f = p \o (<<x>> \o t)
    PROVE  /\ f \in Seq(S) /\ Len(f) = Len(p) + 1 + Len(t) /\ f[Len(p) + 1] = x
           /\ SubSeq(f, 1, Len(p)) = p /\ SubSeq(f, Len(p) + 2, Len(f)) = t
           /\ Append(p, x) \o t = f
<1> DEFINE a == Len(p)
           b == Len(t)
           r == <<x>> \o t
<1>1. a \in Nat /\ b \in Nat  OBVIOUS
<1>2. r \in Seq(S) /\ Len(r) = 1 + b /\ r[1] = x /\ \A i \in 2 .. 1 + b : r[i] = t[i - 1]
  <2>1. <<x>> \in Seq(S) /\ Len(<<x>>) = 1 /\ <<x>>[1] = x  OBVIOUS
  <2>2. /\ r \in Seq(S) /\ Len(r) = 1 + b
        /\ \A i \in 1 .. 1 + b : r[i] = IF i <= 1 THEN <<x>>[i] ELSE t[i - 1]
        BY <2>1, ConcatProperties
  <2> HIDE DEF r
  <2> QED  BY <1>1, <2>1, <2>2
<1> HIDE DEF r
<1>3. /\ f \in Seq(S) /\ Len(f) = a + (1 + b)
      /\ \A i \in 1 .. a + (1 + b) : f[i] = IF i <= a THEN p[i] ELSE r[i - a]
  <2>1. f = p \o r  BY DEF r
  <2> QED  BY <2>1, <1>2, ConcatProperties
<1>4. f[a + 1] = x
  <2>1. a + 1 \in 1 .. a + (1 + b) /\ ~(a + 1 <= a) /\ (a + 1) - a = 1  BY <1>1
  <2> QED  BY <2>1, <1>2, <1>3
<1>5. SubSeq(f, 1, a) = p
  <2> DEFINE u == SubSeq(f, 1, a)
  <2>1. \A i \in 1 .. a : i \in 1 .. a + (1 + b) /\ f[i] = p[i] /\ f[i] \in S  BY <1>1, <1>3
  <2>2. u \in Seq(S) /\ Len(u) = (IF 1 <= a THEN a - 1 + 1 ELSE 0)
        /\ \A i \in 1 .. a - 1 + 1 : u[i] = f[1 + i - 1]
        BY <1>1, <2>1, SubSeqProperties
  <2>3. Len(u) = a /\ \A i \in 1 .. a : u[i] = p[i]
    <3> HIDE DEF u
    <3> QED  BY <1>1, <2>1, <2>2
  <2> HIDE DEF u
  <2> QED  BY <2>2, <2>3, SeqEqual DEF u
<1>6. SubSeq(f, a + 2, Len(f)) = t
  <2> DEFINE u == SubSeq(f, a + 2, a + (1 + b))
  <2>1. \A i \in a + 2 .. a + (1 + b) : i \in 1 .. a + (1 + b) /\ f[i] \in S  BY <1>1, <1>3
  <2>2. u \in Seq(S) /\ Len(u) = (IF a + 2 <= a + (1 + b) THEN a + (1 + b) - (a + 2) + 1 ELSE 0)
        /\ \A i \in 1 .. a + (1 + b) - (a + 2) + 1 : u[i] = f[a + 2 + i - 1]
        BY <1>1, <2>1, SubSeqProperties
  <2> HIDE DEF u
  <2>a. a + (1 + b) - (a + 2) + 1 = b /\ \A i \in 1 .. b : a + 2 + i - 1 = a + (1 + i)  BY <1>1
  <2>b. (IF a + 2 <= a + (1 + b) THEN a + (1 + b) - (a + 2) + 1 ELSE 0) = b  BY <1>1
  <2>3. Len(u) = b /\ \A i \in 1 .. b : u[i] = f[a + (1 + i)]  BY <2>2, <2>a, <2>b
  <2>4. ASSUME NEW i \in 1 .. b PROVE f[a + (1 + i)] = t[i]
    <3>1. /\ a + (1 + i) \in 1 .. a + (1 + b) /\ ~(a + (1 + i) <= a) /\ (a + (1 + i)) - a = 1 + i
          /\ 1 + i \in 2 .. 1 + b /\ (1 + i) - 1 = i
          BY <1>1
    <3> QED  BY <3>1, <1>2, <1>3
  <2>5. u = t  BY <2>2, <2>3, <2>4, SeqEqual
  <2> QED  BY <2>5, <1>3 DEF u
<1>7. Append(p, x) \o t = f
  <2>1. Append(p, x) = p \o <<x>>  BY AppendIsConcat
  <2>2. <<x>> \in Seq(S)  OBVIOUS
  <2>3. (p \o <<x>>) \o t = p \o (<<x>> \o t)  BY <2>2, ConcatAssociative
  <2> QED  BY <2>1, <2>3
<1> QED  BY <1>1, <1>3, <1>4, <1>5, <1>6, <1>7

LEMMA MissingIs ==
    ASSUME NEW field, field.to \in Seq(ToSet(field.to)), NEW slugs
    PROVE  /\ Missing(field, slugs) \in Nat
           /\ Missing(field, slugs) = 0 <=> ToSet(field.to) \subseteq slugs
<1> DEFINE I == {i \in DOMAIN field.to : field.to[i] \notin slugs}
<1>1. Len(field.to) \in Nat /\ DOMAIN field.to = 1 .. Len(field.to)  OBVIOUS
<1>2. IsFiniteSet(I) /\ Cardinality(I) \in Nat
  <2>0. 1 \in Int /\ Len(field.to) \in Int  BY <1>1
  <2>1. IsFiniteSet(1 .. Len(field.to))  BY <2>0, FS_Interval
  <2>2. I \in SUBSET (1 .. Len(field.to))  BY <1>1
  <2> HIDE DEF I
  <2> QED  BY <2>1, <2>2, FS_Subset, FS_CardinalityType
<1>3. Cardinality(I) = 0 <=> I = {}
  <2> HIDE DEF I
  <2> QED  BY <1>2, FS_EmptySet
<1>4. I = {} <=> ToSet(field.to) \subseteq slugs  BY DEF ToSet
<1> QED  BY <1>2, <1>3, <1>4 DEF Missing

LEMMA VisitType ==
    ASSUME NEW S, NEW fields \in Seq(S), NEW i \in Nat \ {0}, NEW slugs,
           \A f \in S : Missing(f, slugs) \in Nat
    PROVE  /\ Visit(fields, i, slugs) \in Seq(S)
           /\ (i > Len(fields) \/ Missing(fields[i], slugs) = 0) => Visit(fields, i, slugs) = fields
<1> DEFINE n == Len(fields)
           k == Missing(fields[i], slugs)
           u == SubSeq(fields, 1, i - 1)
           v == SubSeq(fields, i + k, n)
<1>0. n \in Nat  OBVIOUS
<1>1. CASE i > n  BY <1>0, <1>1 DEF Visit
<1>2. CASE i <= n
  <2>1. i \in 1 .. n /\ fields[i] \in S /\ k \in Nat  BY <1>0, <1>2
  <2>a. ~(i > Len(fields))  BY <1>0, <1>2
  <2>2. Visit(fields, i, slugs) = u \o v  BY <2>a, Zenon DEF Visit
  <2> HIDE DEF k
  <2>3. u \in Seq(S) /\ v \in Seq(S)
    <3>1. \A j \in 1 .. i - 1 : fields[j] \in S  BY <2>1, <1>0
    <3>2. \A j \in i + k .. n : fields[j] \in S  BY <2>1, <1>0
    <3>3. i - 1 \in Int /\ i + k \in Int /\ n \in Int /\ 1 \in Int  BY <2>1, <1>0
    <3> HIDE DEF n
    <3>4. SubSeq(fields, 1, i - 1) \in Seq(S)  BY <3>1, <3>3, SubSeqProperties
    <3>5. SubSeq(fields, i + k, n) \in Seq(S)  BY <3>2, <3>3, SubSeqProperties
    <3> QED  BY <3>4, <3>5
  <2>4. ASSUME k = 0 PROVE u \o v = fields
    <3>1. 1 \in 1 .. n + 1 /\ i - 1 \in 1 - 1 .. n /\ n \in i - 1 .. n /\ (i - 1) + 1 = i + k
          BY <2>1, <2>4, <1>0
    <3>2. SubSeq(fields, 1, i - 1) \o SubSeq(fields, (i - 1) + 1, n) = SubSeq(fields, 1, n)
      <4> HIDE DEF n
      <4> QED  BY <3>1, ConcatAdjacentSubSeq DEF n
    <3>3. SubSeq(fields, 1, n) = fields  BY SubSeqFull
    <3> QED  BY <3>1, <3>2, <3>3
  <2>5. Missing(fields[i], slugs) = k  BY DEF k
  <2>6. /\ Visit(fields, i, slugs) \in Seq(S)
        /\ Missing(fields[i], slugs) = 0 => Visit(fields, i, slugs) = fields
    <3>1. u \o v \in Seq(S)
      <4> HIDE DEF u, v
      <4> QED  BY <2>3
    <3> HIDE DEF u, v, k
    <3> QED  BY <3>1, <2>2, <2>4, <2>5
  <2> QED  BY <2>6, <2>a
<1>3. i > n \/ i <= n  BY <1>0
<1> QED  BY <1>1, <1>2, <1>3

LEMMA VisitTakesOut ==
    ASSUME NEW S, NEW p \in Seq(S), NEW t \in Seq(S), NEW x \in S, NEW slugs, Missing(x, slugs) = 1
    PROVE  Visit(p \o (<<x>> \o t), Len(p) + 1, slugs) = p \o t
<1> DEFINE f == p \o (<<x>> \o t)
           i == Len(p) + 1
<1>1. Len(p) \in Nat /\ Len(t) \in Nat  OBVIOUS
<1>2. /\ f \in Seq(S) /\ Len(f) = Len(p) + 1 + Len(t) /\ f[i] = x
      /\ SubSeq(f, 1, Len(p)) = p /\ SubSeq(f, Len(p) + 2, Len(f)) = t
      BY Around
<1> HIDE DEF f
<1>3. ~(i > Len(f)) /\ i - 1 = Len(p) /\ i + 1 = Len(p) + 2  BY <1>1, <1>2
<1>4. Visit(f, i, slugs) = SubSeq(f, 1, i - 1) \o SubSeq(f, i + Missing(f[i], slugs), Len(f))
      BY <1>3 DEF Visit
<1>5. Visit(f, i, slugs) = p \o t  BY <1>2, <1>3, <1>4
<1> QED  BY <1>5 DEF f

\* What FilterInvalidRelationships promises: the fields that relate to something.
Missings(fields, slugs) == {i \in DOMAIN fields : Missing(fields[i], slugs) > 0}
IsSparse(fields, slugs) ==
    /\ \A i \in DOMAIN fields : Missing(fields[i], slugs) <= 1
    /\ \A i \in 1 .. Len(fields) - 1 : ~(i \in Missings(fields, slugs) /\ i + 1 \in Missings(fields, slugs))
Whole(fields, slugs) == DOMAIN fields \ Missings(fields, slugs)

\* The list after the visits of the positions up to n: those kept up to m, and what
\* comes after m.
Leaves(fields, slugs, m) == Picked(fields, Whole(fields, slugs) \cap (1 .. m))
CountOf(fields, slugs, m) == Cardinality(Whole(fields, slugs) \cap (1 .. m))
Beyond(fields, m) == SubSeq(fields, m + 1, Len(fields))
UpTo(fields, slugs, m) == Leaves(fields, slugs, m) \o Beyond(fields, m)
Visited(fields, slugs, n, list) ==
    \E m \in 0 .. Len(fields) :
        list = UpTo(fields, slugs, m) /\ (CountOf(fields, slugs, m) = n \/ m = Len(fields))

LEMMA UpToIs ==
    ASSUME NEW S, NEW s \in Seq(S), NEW slugs, NEW m \in 0 .. Len(s)
    PROVE  /\ Leaves(s, slugs, m) \in Seq(S) /\ Len(Leaves(s, slugs, m)) = CountOf(s, slugs, m)
           /\ CountOf(s, slugs, m) \in 0 .. m
           /\ Beyond(s, m) \in Seq(S) /\ UpTo(s, slugs, m) \in Seq(S)
<1> DEFINE I == Whole(s, slugs) \cap (1 .. m)
<1>1. m \in Nat /\ Len(s) \in Nat /\ m <= Len(s) /\ DOMAIN s = 1 .. Len(s)  OBVIOUS
<1>2. I \in SUBSET DOMAIN s /\ I \in SUBSET (1 .. m)  BY DEF Whole
<1>3. Leaves(s, slugs, m) = Picked(s, I) /\ CountOf(s, slugs, m) = Cardinality(I)
      BY DEF Leaves, CountOf
<1> HIDE DEF I
<1>4. Picked(s, I) \in Seq(S) /\ Len(Picked(s, I)) = Cardinality(I)  BY <1>2, PickedType
<1>5. Cardinality(I) \in 0 .. m  BY <1>1, <1>2, SomePositions
<1>6. Beyond(s, m) \in Seq(S)
  <2>1. \A i \in m + 1 .. Len(s) : s[i] \in S  BY <1>1
  <2>2. m + 1 \in Int /\ Len(s) \in Int  BY <1>1
  <2> QED  BY <2>1, <2>2, SubSeqProperties DEF Beyond
<1>7. UpTo(s, slugs, m) \in Seq(S)  BY <1>3, <1>4, <1>6, ConcatProperties DEF UpTo
<1> QED  BY <1>3, <1>4, <1>5, <1>6, <1>7

\* How the list divides at the next position.
LEMMA UpToNext ==
    ASSUME NEW S, NEW s \in Seq(S), NEW slugs, NEW m \in 0 .. Len(s) - 1
    PROVE  /\ UpTo(s, slugs, m) = Leaves(s, slugs, m) \o (<<s[m + 1]>> \o Beyond(s, m + 1))
           /\ m + 1 \in Whole(s, slugs) =>
                  /\ UpTo(s, slugs, m + 1) = UpTo(s, slugs, m)
                  /\ CountOf(s, slugs, m + 1) = CountOf(s, slugs, m) + 1
           /\ m + 1 \notin Whole(s, slugs) =>
                  /\ UpTo(s, slugs, m + 1) = Leaves(s, slugs, m) \o Beyond(s, m + 1)
                  /\ CountOf(s, slugs, m + 1) = CountOf(s, slugs, m)
<1> DEFINE I == Whole(s, slugs) \cap (1 .. m)
           p == Leaves(s, slugs, m)
           t == Beyond(s, m + 1)
<1>1. m \in Nat /\ Len(s) \in Nat /\ m < Len(s) /\ DOMAIN s = 1 .. Len(s)
      /\ m \in 0 .. Len(s) /\ m + 1 \in 0 .. Len(s)
      OBVIOUS
<1>2. I \in SUBSET (1 .. m) /\ p = Picked(s, I) /\ CountOf(s, slugs, m) = Cardinality(I)
      BY DEF Leaves, CountOf
<1>3. p \in Seq(S) /\ t \in Seq(S)  BY <1>1, UpToIs
<1> HIDE DEF p, t, I
<1>4. m + 1 \in 1 .. Len(s) /\ Len(s) \in m + 1 .. Len(s) /\ (m + 1) - 1 = m /\ s[m + 1] \in S
      BY <1>1
<1>5. Beyond(s, m) = <<s[m + 1]>> \o t  BY <1>4, SubSeqRecursiveFirst DEF Beyond, t
<1>6. UpTo(s, slugs, m) = p \o (<<s[m + 1]>> \o t)  BY <1>5 DEF UpTo, p
<1>7. 1 .. m + 1 = (1 .. m) \cup {m + 1} /\ m + 1 \notin 1 .. m  BY <1>1
<1>8. ASSUME m + 1 \in Whole(s, slugs)
      PROVE  /\ UpTo(s, slugs, m + 1) = UpTo(s, slugs, m)
             /\ CountOf(s, slugs, m + 1) = CountOf(s, slugs, m) + 1
  <2>1. Whole(s, slugs) \cap (1 .. m + 1) = I \cup {m + 1} /\ m + 1 \notin I  BY <1>7, <1>8 DEF I
  <2>2. Picked(s, I \cup {m + 1}) = Append(p, s[m + 1])
    <3>1. I \in SUBSET (1 .. (m + 1) - 1) /\ m + 1 \in DOMAIN s  BY <1>1, <1>2, <1>4
    <3> QED  BY <3>1, <1>2, PickedNext
  <2>3. Append(p, s[m + 1]) \o t = p \o (<<s[m + 1]>> \o t)  BY <1>3, <1>4, Around
  <2>4. Cardinality(I \cup {m + 1}) = Cardinality(I) + 1
    <3>1. IsFiniteSet(I)
      <4>1. I \in SUBSET (1 .. m)  BY <1>2
      <4> QED  BY <4>1, <1>1, SomePositions DEF IsPositions
    <3> QED  BY <3>1, <2>1, FS_AddElement
  <2> QED  BY <1>2, <1>6, <2>1, <2>2, <2>3, <2>4 DEF UpTo, Leaves, CountOf, t
<1>9. ASSUME m + 1 \notin Whole(s, slugs)
      PROVE  /\ UpTo(s, slugs, m + 1) = p \o t
             /\ CountOf(s, slugs, m + 1) = CountOf(s, slugs, m)
  <2>1. Whole(s, slugs) \cap (1 .. m + 1) = I  BY <1>7, <1>9 DEF I
  <2> QED  BY <1>2, <2>1 DEF UpTo, Leaves, CountOf, t
<1> QED  BY <1>6, <1>8, <1>9 DEF p, t

LEMMA UpToEnd ==
    ASSUME NEW S, NEW s \in Seq(S), NEW slugs
    PROVE  /\ UpTo(s, slugs, Len(s)) = Picked(s, Whole(s, slugs))
           /\ (\A f \in S : Missing(f, slugs) \in Nat) =>
                  \A i \in DOMAIN UpTo(s, slugs, Len(s)) : Missing(UpTo(s, slugs, Len(s))[i], slugs) = 0
<1> DEFINE L == Len(s)
           p == Picked(s, Whole(s, slugs))
<1>1. L \in Nat /\ DOMAIN s = 1 .. L  OBVIOUS
<1>2. Whole(s, slugs) \in SUBSET DOMAIN s /\ Whole(s, slugs) \cap (1 .. L) = Whole(s, slugs)
      BY <1>1 DEF Whole
<1>3. SubSeq(s, L + 1, L) = <<>>
  <2>1. L + 1 \in Int /\ L \in Int /\ L < L + 1  BY <1>1
  <2> QED  BY <2>1, SubSeqEmpty
<1>4. p \in Seq(S)  BY <1>2, PickedType
<1>5. UpTo(s, slugs, L) = p
  <2>1. UpTo(s, slugs, L) = p \o <<>>  BY <1>2, <1>3 DEF UpTo, Leaves, Beyond
  <2> QED  BY <2>1, <1>4, ConcatEmptySeq
<1>6. ASSUME NEW i \in DOMAIN p, \A f \in S : Missing(f, slugs) \in Nat PROVE Missing(p[i], slugs) = 0
  <2>1. p[i] \in {s[k] : k \in Whole(s, slugs)}
    <3>1. {p[n] : n \in DOMAIN p} = {s[k] : k \in Whole(s, slugs)}  BY <1>2, PickedElements
    <3> QED  BY <3>1
  <2>2. PICK k \in Whole(s, slugs) : p[i] = s[k]  BY <2>1
  <2>3. k \in DOMAIN s /\ ~(Missing(s[k], slugs) > 0)  BY DEF Whole, Missings
  <2>4. Missing(s[k], slugs) \in Nat  BY <1>6, <2>3
  <2> QED  BY <2>2, <2>3, <2>4
<1> QED  BY <1>5, <1>6

LEMMA VisitStep ==
    ASSUME NEW S, NEW s \in Seq(S), NEW slugs, \A f \in S : Missing(f, slugs) \in Nat,
           IsSparse(s, slugs), NEW n \in 1 .. Len(s), NEW list, Visited(s, slugs, n - 1, list)
    PROVE  Visited(s, slugs, n, Visit(list, n, slugs))
<1>1. PICK m \in 0 .. Len(s) :
          list = UpTo(s, slugs, m) /\ (CountOf(s, slugs, m) = n - 1 \/ m = Len(s))
      BY DEF Visited
<1>2. Len(s) \in Nat /\ n \in Nat \ {0} /\ m \in Nat /\ DOMAIN s = 1 .. Len(s) /\ m <= Len(s)  OBVIOUS
<1> DEFINE p == Leaves(s, slugs, m)
           t == Beyond(s, m + 1)
<1>3. p \in Seq(S) /\ Len(p) = CountOf(s, slugs, m) /\ list \in Seq(S)  BY <1>1, UpToIs
<1>4. CASE m = Len(s)
  <2>1. n > Len(list) \/ Missing(list[n], slugs) = 0
    <3>1. \A i \in DOMAIN list : Missing(list[i], slugs) = 0  BY <1>1, <1>4, UpToEnd
    <3>2. DOMAIN list = 1 .. Len(list) /\ Len(list) \in Nat  BY <1>3
    <3> QED  BY <3>1, <3>2, <1>2
  <2>2. Visit(list, n, slugs) = list  BY <1>2, <1>3, <2>1, VisitType
  <2> QED  BY <1>1, <1>4, <2>2 DEF Visited
<1>5. CASE m # Len(s)
  <2> DEFINE L == Len(s)
  <2>0. L \in Nat /\ m \in Nat /\ m <= L /\ m # L /\ n \in Nat
    <3> HIDE DEF p, t
    <3> QED  BY <1>2, <1>5
  <2> HIDE DEF L
  <2>a. m \in 0 .. L - 1 /\ m + 1 \in 0 .. L /\ m + 1 \in 1 .. L  BY <2>0
  <2>1. m \in 0 .. Len(s) - 1 /\ m + 1 \in 0 .. Len(s) /\ m + 1 \in DOMAIN s /\ s[m + 1] \in S
        BY <1>2, <2>a DEF L
  <2>b. (n - 1) + 1 = n  BY <2>0
  <2>2. CountOf(s, slugs, m) = n - 1 /\ Len(p) + 1 = n
    <3>1. CountOf(s, slugs, m) = n - 1  BY <1>1, <1>5
    <3> HIDE DEF p
    <3> QED  BY <3>1, <2>b, <1>3
  <2>3. t \in Seq(S) /\ list = p \o (<<s[m + 1]>> \o t)  BY <1>1, <2>1, UpToIs, UpToNext
  <2> HIDE DEF p, t
  <2>4. CASE m + 1 \in Whole(s, slugs)
    <3>1. list[n] = s[m + 1]  BY <1>3, <2>1, <2>2, <2>3, Around
    <3>2. Missing(list[n], slugs) = 0
      <4>1. ~(Missing(s[m + 1], slugs) > 0) /\ Missing(s[m + 1], slugs) \in Nat
            BY <2>1, <2>4 DEF Whole, Missings
      <4> QED  BY <3>1, <4>1
    <3>3. Visit(list, n, slugs) = list  BY <1>2, <1>3, <3>2, VisitType
    <3>4. UpTo(s, slugs, m + 1) = list /\ CountOf(s, slugs, m + 1) = (n - 1) + 1
          BY <1>1, <2>1, <2>2, <2>4, UpToNext
    <3>5. (n - 1) + 1 = n  BY <1>2
    <3> QED  BY <2>1, <3>3, <3>4, <3>5 DEF Visited
  <2>5. CASE m + 1 \notin Whole(s, slugs)
    <3>1. m + 1 \in Missings(s, slugs) /\ Missing(s[m + 1], slugs) = 1
      <4>1. m + 1 \in Missings(s, slugs)  BY <2>1, <2>5 DEF Whole
      <4>2. Missing(s[m + 1], slugs) > 0 /\ Missing(s[m + 1], slugs) <= 1 /\ Missing(s[m + 1], slugs) \in Nat
            BY <4>1, <2>1 DEF Missings, IsSparse
      <4> QED  BY <4>1, <4>2
    <3>2. Visit(list, n, slugs) = p \o t  BY <1>3, <2>1, <2>2, <2>3, <3>1, VisitTakesOut
    <3>3. UpTo(s, slugs, m + 1) = p \o t /\ CountOf(s, slugs, m + 1) = n - 1
          BY <2>1, <2>2, <2>5, UpToNext DEF p, t
    <3>4. CASE m + 1 = Len(s)  BY <3>2, <3>3, <3>4, <2>1 DEF Visited
    <3>5. CASE m + 1 # Len(s)
      <4>1. m + 1 \in 0 .. Len(s) - 1 /\ (m + 1) + 1 \in 0 .. Len(s) /\ (m + 1) + 1 \in DOMAIN s
            /\ m + 1 \in 1 .. Len(s) - 1 /\ (n - 1) + 1 = n
        <5>1. m + 1 # L  BY <3>5 DEF L
        <5>2. m + 1 \in 0 .. L - 1 /\ (m + 1) + 1 \in 0 .. L /\ (m + 1) + 1 \in 1 .. L /\ m + 1 \in 1 .. L - 1
              BY <2>0, <5>1
        <5> QED  BY <5>2, <2>b, <1>2 DEF L
      <4>2. (m + 1) + 1 \in Whole(s, slugs)  BY <3>1, <4>1 DEF IsSparse, Whole
      <4>3. /\ UpTo(s, slugs, (m + 1) + 1) = UpTo(s, slugs, m + 1)
            /\ CountOf(s, slugs, (m + 1) + 1) = CountOf(s, slugs, m + 1) + 1
            BY <4>1, <4>2, UpToNext
      <4> QED  BY <3>2, <3>3, <4>1, <4>3 DEF Visited
    <3> QED  BY <3>4, <3>5
  <2> QED  BY <2>4, <2>5
<1> QED  BY <1>4, <1>5

\* forEach comes to its end, and leaves what relates to something if no two
\* neighbours relate to nothing.
LEMMA CheckIs ==
    ASSUME NEW S, NEW s \in Seq(S), NEW slugs, \A f \in S : Missing(f, slugs) \in Nat
    PROVE  /\ Check(s, slugs) \in Seq(S)
           /\ IsSparse(s, slugs) => Check(s, slugs) = Picked(s, Whole(s, slugs))
<1> DEFINE L == Len(s)
           A == Seq(S)
           step == [n \in 1 .. L |-> [list \in A |-> Visit(list, n, slugs)]]
           after[n \in 0 .. L] == IF n = 0 THEN s ELSE Visit(after[n - 1], n, slugs)
<1>1. L \in Nat /\ s \in A  OBVIOUS
<1>2. Check(s, slugs) = after[L]  BY DEF Check
<1> HIDE DEF L
<1>3. ASSUME NEW n \in 1 .. L, NEW list \in A PROVE Visit(list, n, slugs) \in A
  <2>1. n \in Nat \ {0}  BY <1>1
  <2> QED  BY <2>1, VisitType
<1> HIDE DEF A
<1>4. \E f : f = [n \in 0 .. L |-> IF n = 0 THEN s ELSE Visit(f[n - 1], n, slugs)]
  <2>1. step \in [1 .. L -> [A -> A]]  BY <1>3
  <2> HIDE DEF step, after
  <2>2. PICK f \in [0 .. L -> A] : Takes(f, s, L, step)  BY <1>1, <2>1, RecursionExists
  <2>3. ASSUME NEW n \in 0 .. L PROVE f[n] = IF n = 0 THEN s ELSE Visit(f[n - 1], n, slugs)
    <3>1. CASE n = 0  BY <3>1, <2>2 DEF Takes
    <3>2. CASE n # 0
      <4>1. n \in 1 .. L /\ n - 1 \in 0 .. L  BY <3>2, <1>1
      <4>2. f[n] = step[n][f[n - 1]] /\ f[n - 1] \in A  BY <4>1, <2>2 DEF Takes
      <4> QED  BY <3>2, <4>1, <4>2 DEF step
    <3> QED  BY <3>1, <3>2
  <2>4. f = [n \in 0 .. L |-> f[n]]  OBVIOUS
  <2>5. f = [n \in 0 .. L |-> IF n = 0 THEN s ELSE Visit(f[n - 1], n, slugs)]  BY <2>3, <2>4
  <2> QED  BY <2>5
<1>5. after = [n \in 0 .. L |-> IF n = 0 THEN s ELSE Visit(after[n - 1], n, slugs)]
      BY <1>4, Zenon DEF after
<1> HIDE DEF after
<1>6. \A n \in 0 .. L : after[n] = IF n = 0 THEN s ELSE Visit(after[n - 1], n, slugs)  BY <1>5, Zenon
<1> DEFINE T == {n \in 0 .. L : after[n] \in A /\ (IsSparse(s, slugs) => Visited(s, slugs, n, after[n]))}
<1>7. 0 \in T
  <2>1. after[0] = s /\ 0 \in 0 .. L  BY <1>1, <1>6
  <2>2. Visited(s, slugs, 0, s)
    <3>1. UpTo(s, slugs, 0) = s
      <4>1. Whole(s, slugs) \cap (1 .. 0) = {} /\ 0 + 1 = 1 /\ 0 \in 0 .. Len(s) /\ 1 .. 0 = {}  OBVIOUS
      <4>2. Picked(s, {}) = SubSeq(s, 1, 0)  BY <4>1, PickedBeginning
      <4>3. SubSeq(s, 1, 0) = <<>>  BY SubSeqEmpty
      <4>4. SubSeq(s, 1, Len(s)) = s  BY SubSeqFull
      <4>5. UpTo(s, slugs, 0) = <<>> \o s  BY <4>1, <4>2, <4>3, <4>4 DEF UpTo, Leaves, Beyond
      <4> QED  BY <4>5, ConcatEmptySeq
    <3>2. Whole(s, slugs) \cap (1 .. 0) = {} /\ 0 \in 0 .. Len(s)  OBVIOUS
    <3>3. CountOf(s, slugs, 0) = 0  BY <3>2, FS_EmptySet DEF CountOf
    <3> QED  BY <3>1, <3>2, <3>3 DEF Visited
  <2> QED  BY <2>1, <2>2, <1>1
<1>8. ASSUME NEW n \in 1 .. L, n - 1 \in T PROVE n \in T
  <2>1. n \in 0 .. L /\ after[n] = Visit(after[n - 1], n, slugs)  BY <1>1, <1>6
  <2>2. after[n - 1] \in A /\ (IsSparse(s, slugs) => Visited(s, slugs, n - 1, after[n - 1]))  BY <1>8
  <2>3. after[n] \in A  BY <2>1, <2>2, <1>3
  <2>4. IsSparse(s, slugs) => Visited(s, slugs, n, after[n])
    <3>1. n \in 1 .. Len(s)  BY DEF L
    <3> QED  BY <3>1, <2>1, <2>2, VisitStep
  <2> QED  BY <2>1, <2>3, <2>4
<1> HIDE DEF T
<1>9. L \in T
  <2>1. 0 .. L \subseteq T  BY <1>1, <1>7, <1>8, InductionUpTo
  <2> QED  BY <2>1, <1>1
<1>10. after[L] \in Seq(S) /\ (IsSparse(s, slugs) => Visited(s, slugs, L, after[L]))  BY <1>9 DEF T, A
<1>11. IsSparse(s, slugs) => after[L] = Picked(s, Whole(s, slugs))
  <2> SUFFICES ASSUME IsSparse(s, slugs) PROVE after[L] = Picked(s, Whole(s, slugs))  OBVIOUS
  <2>1. PICK m \in 0 .. Len(s) :
            /\ after[L] = UpTo(s, slugs, m)
            /\ CountOf(s, slugs, m) = L \/ m = Len(s)
        BY <1>10 DEF Visited
  <2>2. CountOf(s, slugs, m) \in 0 .. m  BY UpToIs
  <2>3. m = Len(s)  BY <1>1, <2>1, <2>2 DEF L
  <2> QED  BY <2>1, <2>3, UpToEnd
<1> QED  BY <1>2, <1>10, <1>11

-----------------------------------------------------------------------------
(* The collections a boot begins with *)

LEMMA FieldsAre ==
    ASSUME NEW f \in AllFields
    PROVE  IsField(f) /\ \A slugs : Missing(f, slugs) \in Nat
<1>1. CASE f \in FieldsOfProgram
  <2>1. PICK slug \in ToSet(Program) : f \in ToSet(ProgramFields[slug])  BY <1>1 DEF FieldsOfProgram
  <2>2. AreFields(ProgramFields[slug])  BY EntityAssumption
  <2>3. IsField(f)  BY <2>1, <2>2 DEF AreFields
  <2> QED  BY <2>3, MissingIs DEF IsField
<1>2. CASE f \in FieldsOfCatalogue
  <2>1. PICK d \in Catalogue : f \in ToSet(d.fields)  BY <1>2 DEF FieldsOfCatalogue
  <2>2. AreFields(d.fields)  BY EntityAssumption DEF IsDefinition
  <2>3. IsField(f)  BY <2>1, <2>2 DEF AreFields
  <2> QED  BY <2>3, MissingIs DEF IsField
<1> QED  BY <1>1, <1>2 DEF AllFields

LEMMA BaseIs ==
    LET base == GetFilteredCollections
    IN  /\ IsBase(base) /\ Enabled = ToSet(base.slugs) /\ Enabled \subseteq ToSet(Program)
        /\ Forms \notin Enabled /\ \A slug \in Enabled : base.access[slug] = ProgramAccess[slug]
<1> DEFINE base == GetFilteredCollections
           slugs == GetEnabledCollections
<1>1. Program \in Seq(ToSet(Program)) /\ NoBase \notin ToSet(Program) /\ Forms \notin ToSet(Program)
      BY EntityAssumption
<1>2. slugs \in Seq(ToSet(Program)) /\ ToSet(slugs) \subseteq ToSet(Program) /\ Enabled = ToSet(slugs)
  <2>1. /\ slugs \in Seq(ToSet(Program) \cap (ToSet(Program) \ disabled))
        /\ ToSet(slugs) = ToSet(Program) \cap (ToSet(Program) \ disabled)
        BY <1>1, AmongElements DEF GetEnabledCollections
  <2>2. ToSet(Program) \cap (ToSet(Program) \ disabled) \subseteq ToSet(Program)  OBVIOUS
  <2>3. slugs \in Seq(ToSet(Program))  BY <2>1, <2>2, SeqMonotonic
  <2> QED  BY <2>1, <2>3 DEF Enabled
<1>3. slugs \in Seq(AllSlugs)
  <2>1. ToSet(Program) \subseteq AllSlugs  BY DEF AllSlugs
  <2> QED  BY <1>2, <2>1, SeqMonotonic
<1>4. ASSUME NEW slug \in ToSet(slugs)
      PROVE  ProgramAccess[slug] \in Accesses /\ FilterRelationships(ProgramFields[slug]) \in Seq(AllFields)
  <2>1. IsAccess(ProgramAccess[slug]) /\ AreFields(ProgramFields[slug]) /\ slug \in ToSet(Program)
        BY <1>2, EntityAssumption
  <2>2. ToSet(ProgramFields[slug]) \subseteq FieldsOfProgram  BY <2>1, Zenon DEF FieldsOfProgram
  <2>3. ProgramFields[slug] \in Seq(AllFields)
    <3>1. ToSet(ProgramFields[slug]) \subseteq AllFields  BY <2>2 DEF AllFields
    <3>2. ProgramFields[slug] \in Seq(ToSet(ProgramFields[slug]))  BY <2>1 DEF AreFields
    <3> QED  BY <3>1, <3>2, SeqMonotonic
  <2>4. FilterRelationships(ProgramFields[slug]) \in Seq(AllFields)
    <3> DEFINE fields == ProgramFields[slug]
               I == {i \in DOMAIN fields : fields[i].type = "relationship" => ToSet(fields[i].to) \cap disabled = {}}
    <3>1. FilterRelationships(fields) = Picked(fields, I)  BY DEF FilterRelationships
    <3>2. I \in SUBSET DOMAIN fields  OBVIOUS
    <3> HIDE DEF I, fields
    <3>3. fields \in Seq(AllFields)  BY <2>3 DEF fields
    <3>4. Picked(fields, I) \in Seq(AllFields)  BY <3>2, <3>3, PickedType
    <3> QED  BY <3>1, <3>4 DEF fields
  <2> QED  BY <2>1, <2>4, AccessesAre
<1>5. /\ base.slugs = slugs
      /\ base.access = [slug \in ToSet(slugs) |-> ProgramAccess[slug]]
      /\ base.fields = [slug \in ToSet(slugs) |-> FilterRelationships(ProgramFields[slug])]
      /\ base = [slugs |-> base.slugs, access |-> base.access, fields |-> base.fields]
      BY DEF GetFilteredCollections
<1> HIDE DEF base, slugs
<1>6. IsConfig(base)  BY <1>3, <1>4, <1>5 DEF IsConfig
<1> QED  BY <1>1, <1>2, <1>5, <1>6 DEF base, slugs, IsBase

-----------------------------------------------------------------------------
(* The collection of the plugin *)

LEMMA ReadAllIs ==
    GetReadAll \in Accesses /\ DOMAIN GetReadAll \subseteq Ops
<1> DEFINE all == GetReadAll
<1>1. "readAll" \in RuleKinds  BY DEF RuleKinds
<1>2. all = [op \in Ops \cap {"read"} |-> Rule("readAll")]  BY DEF GetReadAll
<1>3. Rule("readAll") \in Rules  BY <1>1, RulesAre
<1> HIDE DEF all
<1>4. IsAccess(all)  BY <1>2, <1>3 DEF IsAccess
<1> QED  BY <1>2, <1>4, AccessesAre DEF all

LEMMA PluginAccess ==
    ASSUME NEW D \in SUBSET Definitions, NEW incoming \in Seq(D)
    PROVE  /\ GetAccessForPlugins(incoming) \in Accesses
           /\ Gains(GetAccessForPlugins(incoming), GetReadAll, ToSet(incoming), Forms)
<1> DEFINE wanted(d) == d.extends = Forms /\ (d.hasTexts \/ DOMAIN d.byRoles # {})
           I == {i \in 1 .. Len(incoming) : wanted(incoming[i])}
           first == IF I # {} THEN Min(I) ELSE 0
           d == incoming[first]
           access == GetAccessForPlugins(incoming)
<1>1. access = IF first = 0 THEN GetReadAll
               ELSE IF DOMAIN d.byRoles # {} THEN WithRoles(d.byRoles, <<>>)
               ELSE OrElse(WithTexts(d.texts, <<>>), GetReadAll)
      BY DEF GetAccessForPlugins, SelectInSeq
<1>2. first = 0 \/ first \in I
  <2>1. I \in SUBSET Nat  OBVIOUS
  <2> HIDE DEF I
  <2> QED  BY <2>1, LeastElement
<1> HIDE DEF first, access
<1>3. CASE first = 0
  <2>1. access = GetReadAll  BY <1>1, <1>3
  <2> QED  BY <2>1, ReadAllIs DEF Gains, access
<1>4. CASE first # 0
  <2>1. d \in ToSet(incoming) /\ d.extends = Forms /\ d \in Definitions
    <3>1. first \in DOMAIN incoming /\ wanted(incoming[first])  BY <1>2, <1>4
    <3> QED  BY <3>1 DEF ToSet
  <2> HIDE DEF d
  <2>2. IsDefinition(d) /\ Concerns(d, Forms)  BY <2>1, DefinitionsAre DEF Concerns
  <2>3. d.texts \subseteq Ops /\ DOMAIN d.byRoles \subseteq Ops /\ d.byRoles \in [DOMAIN d.byRoles -> SUBSET Roles]
        BY <2>2 DEF IsDefinition
  <2>4. CASE DOMAIN d.byRoles # {}
    <3>1. access = WithRoles(d.byRoles, <<>>)  BY <1>1, <1>4, <2>4
    <3>2. /\ access \in Accesses /\ DOMAIN access = Ops
          /\ \A op \in Ops : access[op] = IF op \in DOMAIN d.byRoles THEN Named(d.byRoles[op]) ELSE NoOp
      <4>1. DOMAIN <<>> = {} /\ <<>> \in Accesses  BY NoAccess
      <4> QED  BY <3>1, <4>1, <2>3, WithRolesIs
    <3>3. ASSUME NEW op \in Ops, NEW user \in Users, Answers(access, op, user) = "all"
          PROVE  Grants(d, op, user)
      <4>1. Answer(access[op], user) = "all"  BY <3>2, <3>3 DEF Answers
      <4>2. CASE op \in DOMAIN d.byRoles
        <5>1. access[op] = Named(d.byRoles[op])  BY <3>2, <4>2
        <5>2. user \cap d.byRoles[op] # {}  BY <4>1, <5>1 DEF Answer, Named
        <5> QED  BY <4>2, <5>2 DEF Grants
      <4>3. CASE op \notin DOMAIN d.byRoles
        <5>1. access[op] = NoOp  BY <3>2, <4>3
        <5> QED  BY <4>1, <5>1 DEF Answer, NoOp
      <4> QED  BY <4>2, <4>3
    <3>4. Gains(access, GetReadAll, ToSet(incoming), Forms)  BY <2>1, <2>2, <3>3 DEF Gains
    <3> QED  BY <3>2, <3>4 DEF access
  <2>5. CASE DOMAIN d.byRoles = {}
    <3> DEFINE texts == WithTexts(d.texts, <<>>)
    <3>0. DOMAIN <<>> = {} /\ <<>> \in Accesses  BY NoAccess
    <3>1. texts \in Accesses /\ DOMAIN texts = d.texts
      <4> DEFINE none == <<>>
      <4>1. DOMAIN none = {} /\ none \in Accesses  BY <3>0
      <4> HIDE DEF none
      <4>2. WithTexts(d.texts, none) \in Accesses
            /\ DOMAIN WithTexts(d.texts, none) = d.texts \cup DOMAIN none
            BY <2>3, <4>1, WithTextsIs
      <4> QED  BY <4>1, <4>2 DEF none
    <3>2. access = OrElse(texts, GetReadAll)  BY <1>1, <1>4, <2>5
    <3> HIDE DEF texts
    <3>3. /\ DOMAIN access = d.texts \cup DOMAIN GetReadAll
          /\ \A op \in DOMAIN access : access[op] = IF op \in d.texts THEN texts[op] ELSE GetReadAll[op]
          /\ access = [op \in DOMAIN access |-> access[op]]
          BY <3>1, <3>2 DEF OrElse
    <3>4. access \in Accesses
      <4>1. IsAccess(texts) /\ IsAccess(GetReadAll)  BY <3>1, ReadAllIs, AccessesAre
      <4>2. \A op \in DOMAIN access : access[op] \in Rules /\ op \in Ops  BY <3>1, <3>3, <4>1 DEF IsAccess
      <4>3. IsAccess(access)  BY <3>3, <4>2 DEF IsAccess
      <4> QED  BY <4>3, AccessesAre
    <3>5. ASSUME NEW op \in Ops, NEW user \in Users, Answers(access, op, user) = "all"
          PROVE  Answers(GetReadAll, op, user) = "all" \/ Grants(d, op, user)
      <4>1. CASE op \in d.texts  BY <4>1 DEF Grants
      <4>2. CASE op \notin d.texts  BY <4>2, <3>3, <3>5 DEF Answers
      <4> QED  BY <4>1, <4>2
    <3>6. Gains(access, GetReadAll, ToSet(incoming), Forms)  BY <2>1, <2>2, <3>5 DEF Gains
    <3> QED  BY <3>4, <3>6 DEF access
  <2> QED  BY <2>4, <2>5
<1> QED  BY <1>3, <1>4

LEMMA InjectiveAppend ==
    ASSUME NEW S, NEW s \in Seq(S), NEW x \in S, IsInjective(Append(s, x))
    PROVE  IsInjective(s) /\ x \notin ToSet(s)
<1> DEFINE t == Append(s, x)
           n == Len(s)
<1>1. /\ n \in Nat /\ DOMAIN s = 1 .. n /\ DOMAIN t = 1 .. n + 1
      /\ t[n + 1] = x /\ \A i \in 1 .. n : t[i] = s[i]
      OBVIOUS
<1>2. \A i, j \in 1 .. n + 1 : t[i] = t[j] => i = j  BY <1>1 DEF IsInjective
<1> HIDE DEF n, t
<1>3. IsInjective(s)
  <2> SUFFICES ASSUME NEW i \in 1 .. n, NEW j \in 1 .. n, s[i] = s[j] PROVE i = j
      BY <1>1 DEF IsInjective
  <2>1. i \in 1 .. n + 1 /\ j \in 1 .. n + 1 /\ t[i] = t[j]  BY <1>1
  <2> QED  BY <1>2, <2>1
<1>4. ASSUME x \in ToSet(s) PROVE FALSE
  <2>1. PICK i \in 1 .. n : s[i] = x  BY <1>1, <1>4 DEF ToSet
  <2>2. i \in 1 .. n + 1 /\ n + 1 \in 1 .. n + 1 /\ i # n + 1 /\ t[i] = t[n + 1]  BY <1>1, <2>1
  <2> QED  BY <1>2, <2>2
<1> QED  BY <1>3, <1>4

-----------------------------------------------------------------------------
(* What a boot serves *)

ServedBy(D) ==
    {Forms} \cup Enabled \cup
        IF \E d \in D : ~d.complete THEN {}
        ELSE {d.slug : d \in {e \in Resolvable(Enabled, D) : e.valid /\ ~Extension(e)}}
AppliedBy(D) == IF \E d \in D : ~d.complete THEN {} ELSE Resolvable(Enabled, D)
FirstRelated(D, slugs) ==
    \A d \in D, i, j \in DOMAIN slugs :
        /\ ~Extension(d) /\ slugs[i] = d.slug /\ d.slug \notin Enabled
        /\ slugs[j] \in GetRelationsForCollection(d) \ {Forms}
        => j < i
GainsNamed(config, ds) ==
    \A slug \in ToSet(config.slugs) : Gains(config.access[slug], OriginalAccess(slug), ds, slug)
FollowsFiles(config, ds) ==
    \A slug \in Enabled : Follows(config.access[slug], ProgramAccess[slug], ds, slug)

LEMMA BootIs ==
    ASSUME NEW D \in SUBSET Definitions, Distinct(D),
           NEW incoming \in Seq(D), ToSet(incoming) = D, IsInjective(incoming),
           NEW config, config = WithPlugins(FilterValidCollections(GetFilteredCollections, incoming), incoming),
           IsInjective(config.slugs)
    PROVE  /\ IsConfig(config) /\ ToSet(config.slugs) = ServedBy(D) /\ FirstRelated(D, config.slugs)
           /\ GainsNamed(config, D) /\ AppliedBy(D) \subseteq D /\ FollowsFiles(config, AppliedBy(D))
<1> DEFINE base == GetFilteredCollections
           ds == Applicable(base, D)
           c == FilterValidCollections(base, incoming)
           forms == GetAccessForPlugins(incoming)
<1>1. /\ IsBase(base) /\ Enabled = ToSet(base.slugs) /\ Enabled \subseteq ToSet(Program)
      /\ Forms \notin Enabled /\ \A slug \in Enabled : base.access[slug] = ProgramAccess[slug]
      BY BaseIs
<1>2. forms \in Accesses /\ Gains(forms, GetReadAll, D, Forms)  BY PluginAccess
<1> HIDE DEF base, forms
<1>3. ApplyInv(base, ds, c)  BY <1>1, FilterValidIs
<1>4. ds \subseteq D /\ ds = AppliedBy(D)  BY <1>1 DEF Applicable, Resolvable, AppliedBy
<1>5. /\ config.slugs = Append(c.slugs, Forms)
      /\ config.access = OrElse([slug \in {Forms} |-> forms], c.access)
      /\ config.fields = OrElse([slug \in {Forms} |-> <<>>], c.fields)
      /\ config = [slugs |-> config.slugs, access |-> config.access, fields |-> config.fields]
      BY DEF WithPlugins, forms, base
<1> HIDE DEF c
<1>6. IsConfig(c) /\ Served(base, ds, c)  BY <1>3 DEF ApplyInv
<1>7. /\ c.slugs \in Seq(AllSlugs) /\ Forms \in AllSlugs
      /\ c.access \in [ToSet(c.slugs) -> Accesses] /\ c.fields \in [ToSet(c.slugs) -> Seq(AllFields)]
      BY <1>6 DEF IsConfig, AllSlugs
<1>8. config.slugs \in Seq(AllSlugs) /\ ToSet(config.slugs) = ToSet(c.slugs) \cup {Forms}
      BY <1>5, <1>7, AppendIs
<1>9. IsInjective(c.slugs) /\ Forms \notin ToSet(c.slugs)  BY <1>5, <1>7, InjectiveAppend
<1>10. InOrder(base, ds, c) /\ Accessed(base, ds, c)  BY <1>3, <1>9 DEF ApplyInv
<1>11. /\ config.access \in [ToSet(config.slugs) -> Accesses] /\ config.access[Forms] = forms
       /\ \A slug \in ToSet(c.slugs) : config.access[slug] = c.access[slug]
       BY <1>2, <1>5, <1>7, <1>8, <1>9 DEF OrElse
<1>12. config.fields \in [ToSet(config.slugs) -> Seq(AllFields)]
  <2>1. <<>> \in Seq(AllFields)  OBVIOUS
  <2> QED  BY <2>1, <1>5, <1>7, <1>8 DEF OrElse
<1>13. IsConfig(config)  BY <1>5, <1>8, <1>11, <1>12 DEF IsConfig
<1>14. ToSet(config.slugs) = ServedBy(D)
  <2>1. ToSet(c.slugs) = Enabled \cup {d.slug : d \in {e \in ds : Pushed(e)}}  BY <1>1, <1>6 DEF Served
  <2>2. CASE \E d \in D : ~d.complete
    <3>1. ds = {}  BY <2>2 DEF Applicable
    <3>2. {d.slug : d \in {e \in ds : Pushed(e)}} = {}  BY <3>1
    <3> QED  BY <2>1, <2>2, <3>2, <1>8 DEF ServedBy
  <2>3. CASE ~\E d \in D : ~d.complete
    <3>1. ds = Resolvable(Enabled, D)  BY <2>3, <1>1 DEF Applicable
    <3>2. {e \in ds : Pushed(e)} = {e \in Resolvable(Enabled, D) : e.valid /\ ~Extension(e)}
          BY <3>1 DEF Pushed
    <3> HIDE DEF ds
    <3> QED  BY <2>1, <2>3, <3>2, <1>8, Zenon DEF ServedBy
  <2> QED  BY <2>2, <2>3
<1> HIDE DEF ds
<1>15. FirstRelated(D, config.slugs)
  <2> DEFINE n == Len(c.slugs)
  <2>1. /\ n \in Nat /\ DOMAIN c.slugs = 1 .. n /\ DOMAIN config.slugs = 1 .. n + 1
        /\ config.slugs[n + 1] = Forms /\ \A i \in 1 .. n : config.slugs[i] = c.slugs[i]
        BY <1>5, <1>7
  <2> HIDE DEF n
  <2> SUFFICES ASSUME NEW d \in D, NEW i \in 1 .. n + 1, NEW j \in 1 .. n + 1, ~Extension(d),
                      config.slugs[i] = d.slug, d.slug \notin Enabled,
                      config.slugs[j] \in GetRelationsForCollection(d) \ {Forms}
               PROVE  j < i
      BY <2>1 DEF FirstRelated
  <2>2. j \in 1 .. n /\ c.slugs[j] = config.slugs[j]  BY <2>1
  <2>3. CASE i = n + 1  BY <2>1, <2>2, <2>3
  <2>4. CASE i # n + 1
    <3>1. i \in 1 .. n /\ c.slugs[i] = d.slug  BY <2>1, <2>4
    <3>2. d.slug \in ToSet(c.slugs)  BY <2>1, <3>1 DEF ToSet
    <3>3. PICK e \in ds : Pushed(e) /\ e.slug = d.slug  BY <1>1, <1>6, <3>2 DEF Served
    <3>4. e = d  BY <1>4, <3>3 DEF Distinct
    <3> QED  BY <1>1, <1>10, <2>1, <2>2, <3>1, <3>3, <3>4 DEF InOrder
  <2> QED  BY <2>3, <2>4
<1>16. GainsNamed(config, D)
  <2> SUFFICES ASSUME NEW slug \in ToSet(config.slugs)
               PROVE  Gains(config.access[slug], OriginalAccess(slug), D, slug)
      BY DEF GainsNamed
  <2>1. CASE slug = Forms  BY <2>1, <1>2, <1>11 DEF OriginalAccess
  <2>2. CASE slug # Forms
    <3>1. slug \in ToSet(c.slugs) /\ config.access[slug] = c.access[slug]  BY <2>2, <1>8, <1>11
    <3>2. OriginalAccess(slug) = OriginalIn(base, slug)  BY <2>2, <1>1 DEF OriginalAccess, OriginalIn
    <3>3. Gains(c.access[slug], OriginalIn(base, slug), ds, slug)  BY <1>10, <3>1 DEF Accessed
    <3> QED  BY <1>4, <3>1, <3>2, <3>3, MoreGains
  <2> QED  BY <2>1, <2>2
<1>17. FollowsFiles(config, ds)
  <2> SUFFICES ASSUME NEW slug \in Enabled
               PROVE  Follows(config.access[slug], ProgramAccess[slug], ds, slug)
      BY DEF FollowsFiles
  <2>1. slug \in ToSet(c.slugs)  BY <1>1, <1>6 DEF Served
  <2>2. config.access[slug] = c.access[slug] /\ OriginalIn(base, slug) = ProgramAccess[slug]
        BY <2>1, <1>1, <1>11 DEF OriginalIn
  <2> QED  BY <1>10, <2>1, <2>2 DEF Accessed
<1> QED  BY <1>4, <1>13, <1>14, <1>15, <1>16, <1>17

\* Building the configuration and taking out fields.
LEMMA FinishedIs ==
    ASSUME NEW config, IsConfig(config)
    PROVE  LET end == FilterInvalidRelationships(Sanitized(config))
           IN  /\ IsConfig(end) /\ end.slugs = config.slugs
               /\ \A ds : GainsNamed(config, ds) => GainsNamed(end, ds)
               /\ \A ds : Enabled \subseteq ToSet(config.slugs) /\ FollowsFiles(config, ds) => FollowsFiles(end, ds)
               /\ end.fields = [slug \in DOMAIN config.fields |->
                                   Check(config.fields[slug], ToSet(config.slugs))]
<1> DEFINE more(access) == OrElse(access, [op \in Ops \ {"readVersions", "admin"} |-> Text])
           slugs == ToSet(config.slugs)
           access1 == [slug \in slugs |-> more(config.access[slug])]
           fields1 == [slug \in slugs |-> Check(config.fields[slug], slugs)]
           end == FilterInvalidRelationships(Sanitized(config))
<1>1. /\ config = [slugs |-> config.slugs, access |-> config.access, fields |-> config.fields]
      /\ config.slugs \in Seq(AllSlugs)
      /\ config.access \in [slugs -> Accesses] /\ config.fields \in [slugs -> Seq(AllFields)]
      BY DEF IsConfig
<1>2. Sanitized(config) = [slugs |-> config.slugs, access |-> access1, fields |-> config.fields]
  <2>1. DOMAIN config.access = slugs  BY <1>1
  <2>2. Sanitized(config) = [config EXCEPT !.access = [slug \in DOMAIN config.access |-> more(config.access[slug])]]
        BY DEF Sanitized
  <2>3. Sanitized(config) = [config EXCEPT !.access = access1]  BY <2>1, <2>2
  <2> HIDE DEF access1
  <2> QED  BY <1>1, <2>3
<1>3. end = [slugs |-> config.slugs, access |-> access1, fields |-> fields1]
  <2> DEFINE s == Sanitized(config)
  <2>1. end = [s EXCEPT !.fields = [slug \in DOMAIN s.fields |-> Check(s.fields[slug], ToSet(s.slugs))]]
        BY DEF FilterInvalidRelationships
  <2> HIDE DEF s, end, access1
  <2>2. s.fields = config.fields /\ s.slugs = config.slugs /\ DOMAIN s.fields = slugs  BY <1>1, <1>2 DEF s
  <2>3. end = [s EXCEPT !.fields = fields1]  BY <2>1, <2>2
  <2> HIDE DEF fields1
  <2> QED  BY <1>2, <2>3 DEF s
<1>4. access1 \in [slugs -> Accesses]
  <2>1. ASSUME NEW slug \in slugs PROVE more(config.access[slug]) \in Accesses
    <3>1. config.access[slug] \in Accesses  BY <1>1
    <3> QED  BY <3>1, SanitizedAnswers
  <2> HIDE DEF more
  <2> QED  BY <2>1
<1>5. fields1 \in [slugs -> Seq(AllFields)]
  <2>1. ASSUME NEW slug \in slugs PROVE Check(config.fields[slug], slugs) \in Seq(AllFields)
    <3>1. config.fields[slug] \in Seq(AllFields) /\ \A f \in AllFields : Missing(f, slugs) \in Nat
          BY <1>1, FieldsAre
    <3> QED  BY <3>1, CheckIs
  <2> QED  BY <2>1
<1> HIDE DEF end
<1>6. end.slugs = config.slugs /\ end.access = access1 /\ end.fields = fields1  BY <1>3
<1>7. IsConfig(end)
  <2> HIDE DEF access1, fields1
  <2> QED  BY <1>1, <1>3, <1>4, <1>5, <1>6 DEF IsConfig
<1>8. ASSUME NEW slug \in slugs
      PROVE  /\ config.access[slug] \in Accesses /\ end.access[slug] = more(config.access[slug])
      BY <1>1, <1>6
<1> HIDE DEF more
<1>9. ASSUME NEW ds, GainsNamed(config, ds) PROVE GainsNamed(end, ds)
  <2> SUFFICES ASSUME NEW slug \in slugs
               PROVE  Gains(end.access[slug], OriginalAccess(slug), ds, slug)
      BY <1>6 DEF GainsNamed
  <2>1. Gains(config.access[slug], OriginalAccess(slug), ds, slug)  BY <1>9 DEF GainsNamed
  <2> QED  BY <1>8, <2>1, SanitizedFollows DEF more
<1>10. ASSUME NEW ds, Enabled \subseteq slugs, FollowsFiles(config, ds) PROVE FollowsFiles(end, ds)
  <2> SUFFICES ASSUME NEW slug \in Enabled
               PROVE  Follows(end.access[slug], ProgramAccess[slug], ds, slug)
      BY DEF FollowsFiles
  <2>1. slug \in slugs /\ Follows(config.access[slug], ProgramAccess[slug], ds, slug)
        BY <1>10 DEF FollowsFiles
  <2> QED  BY <1>8, <2>1, SanitizedFollows DEF more
<1>11. DOMAIN config.fields = slugs  BY <1>1
<1> QED  BY <1>6, <1>7, <1>9, <1>10, <1>11 DEF end

-----------------------------------------------------------------------------
(* The invariant *)

\* The folder has one file for each slug; while the server is down there is nothing of
\* the last boot.  While it is up the files it could apply explain its collections, and
\* some of them and all the definitions saved since explain the copies.
FilesRead == {FromFile(d) : d \in Catalogue}
FolderInv == folder \subseteq Catalogue /\ IsFiniteSet(folder) /\ Distinct(folder)
DownInv == told = NoConfig /\ booted = <<>> /\ raw = <<>> /\ tried = {}
LiveInv ==
    /\ IsConfig(live) /\ IsInjective(live.slugs)
    /\ ToSet(live.slugs) = ServedBy(ToSet(booted)) /\ FirstRelated(ToSet(booted), live.slugs)
    /\ GainsNamed(live, ToSet(booted)) /\ FollowsFiles(live, AppliedBy(ToSet(booted)))
    /\ raw \in [ToSet(live.slugs) -> Seq(AllFields)]
    /\ live.fields = [slug \in DOMAIN raw |-> Check(raw[slug], ToSet(live.slugs))]
ToldInv ==
    /\ IsConfig(told) /\ told.slugs = live.slugs
    /\ GainsNamed(told, Applied)
    /\ \E B \in SUBSET ToSet(booted) : FollowsFiles(told, B \cup tried)
UpInv == LiveInv /\ ToldInv
ConfigInv ==
    /\ disabled \subseteq ToSet(Program) /\ tried \subseteq Catalogue /\ FolderInv
    /\ booted \in Seq(FilesRead) /\ saves \in 0 .. MaxSaves /\ boots \in 0 .. MaxBoots
    /\ live = NoConfig => DownInv
    /\ live # NoConfig => UpInv

\* The orders in which a folder may be listed.
LEMMA SeqsAre ==
    ASSUME NEW S, IsFiniteSet(S), NEW s \in SetToSeqs(S)
    PROVE  s \in Seq(S) /\ ToSet(s) = S /\ IsInjective(s)
<1> DEFINE n == Cardinality(S)
<1>1. n \in Nat  BY FS_CardinalityType
<1>2. s \in [1 .. n -> S] /\ \A i, j \in 1 .. n : i # j => s[i] # s[j]  BY DEF SetToSeqs
<1> HIDE DEF n
<1>3. s \in Seq(S) /\ DOMAIN s = 1 .. n  BY <1>1, <1>2
<1>4. IsInjective(s)  BY <1>2, <1>3 DEF IsInjective
<1>5. s \in Injection(1 .. n, S)  BY <1>2, <1>4 DEF Injection
<1>6. Cardinality(1 .. n) = n
  <2>1. 1 \in Int /\ n \in Int  BY <1>1
  <2>2. Cardinality(1 .. n) = IF 1 > n THEN 0 ELSE n - 1 + 1  BY <2>1, FS_Interval
  <2> QED  BY <1>1, <2>2
<1>7. s \in Surjection(1 .. n, S)  BY <1>5, <1>6, FS_Injection DEF n
<1>8. ToSet(s) = S  BY <1>2, <1>3, <1>7 DEF Surjection, ToSet
<1> QED  BY <1>3, <1>4, <1>8

LEMMA IncomingIs ==
    ASSUME FolderInv, NEW incoming \in SetToSeqs({FromFile(d) : d \in folder}) \cup {<<>>}
    PROVE  /\ ToSet(incoming) \in SUBSET Definitions /\ ToSet(incoming) \subseteq FilesRead
           /\ Distinct(ToSet(incoming)) /\ incoming \in Seq(ToSet(incoming)) /\ IsInjective(incoming)
<1> DEFINE read == {FromFile(d) : d \in folder}
<1>1. read \subseteq FilesRead /\ FilesRead \subseteq Definitions  BY DEF FolderInv, FilesRead, Definitions
<1>2. IsFiniteSet(read)
  <2> DEFINE f == [d \in folder |-> FromFile(d)]
  <2>1. f \in Surjection(folder, read)
    <3>1. f \in [folder -> read] /\ \A x \in read : \E d \in folder : f[d] = x  OBVIOUS
    <3> QED  BY <3>1 DEF Surjection
  <2> HIDE DEF f, read
  <2> QED  BY <2>1, FS_Surjection DEF FolderInv
<1>3. Distinct(read)
  <2> SUFFICES ASSUME NEW d \in folder, NEW e \in folder, FromFile(d).slug = FromFile(e).slug
               PROVE  FromFile(d) = FromFile(e)
      BY DEF Distinct
  <2>1. IsDefinition(d) /\ IsDefinition(e)  BY EntityAssumption DEF FolderInv
  <2>2. d.slug = e.slug  BY <2>1, FromFileIs
  <2> QED  BY <2>2 DEF FolderInv, Distinct
<1> HIDE DEF read
<1>4. CASE incoming \in SetToSeqs(read)
  <2>1. incoming \in Seq(read) /\ ToSet(incoming) = read /\ IsInjective(incoming)  BY <1>2, <1>4, SeqsAre
  <2> QED  BY <1>1, <1>3, <2>1
<1>5. CASE incoming = <<>>
  <2>1. ToSet(incoming) = {} /\ incoming \in Seq({})  BY <1>5 DEF ToSet
  <2>2. IsInjective(incoming)  BY <1>5 DEF IsInjective
  <2> QED  BY <2>1, <2>2 DEF Distinct
<1> QED  BY <1>4, <1>5 DEF read

LEMMA ConfigInitInv == ConfigInit => ConfigInv
<1> SUFFICES ASSUME ConfigInit PROVE ConfigInv  OBVIOUS
<1>1. FolderInv  BY DEF ConfigInit, FolderInv, Distinct
<1>2. live = NoConfig /\ DownInv  BY DEF ConfigInit, DownInv
<1>3. saves \in 0 .. MaxSaves /\ boots \in 0 .. MaxBoots  BY EntityAssumption DEF ConfigInit
<1>4. booted \in Seq(FilesRead)  BY DEF ConfigInit
<1> QED  BY <1>1, <1>2, <1>3, <1>4 DEF ConfigInit, ConfigInv

LEMMA EnabledStays ==
    ASSUME UNCHANGED disabled
    PROVE  Enabled' = Enabled
BY DEF Enabled

LEMMA LiveStays ==
    ASSUME LiveInv, UNCHANGED <<disabled, live, booted, raw>>
    PROVE  LiveInv'
<1>1. Enabled' = Enabled  BY EnabledStays
<1> QED  BY <1>1 DEF LiveInv, ServedBy, FirstRelated, GainsNamed, FollowsFiles, OriginalAccess, AppliedBy

\* A server that serves something is up.
LEMMA UpServes ==
    ASSUME NEW config, Forms \in ToSet(config.slugs)
    PROVE  config # NoConfig
BY DEF NoConfig, ToSet

LEMMA BootInv ==
    ASSUME ConfigInv, Boot
    PROVE  ConfigInv'
<1> DEFINE listed == SetToSeqs({FromFile(d) : d \in folder}) \cup {<<>>}
<1>1. PICK incoming \in listed :
          \E config \in {WithPlugins(FilterValidCollections(GetFilteredCollections, incoming), incoming)} :
              /\ IsInjective(config.slugs)
              /\ live' = FilterInvalidRelationships(Sanitized(config))
              /\ told' = live'
              /\ booted' = incoming
              /\ raw' = config.fields
      BY DEF Boot
<1> DEFINE config == WithPlugins(FilterValidCollections(GetFilteredCollections, incoming), incoming)
           D == ToSet(incoming)
<1>2. /\ IsInjective(config.slugs) /\ live' = FilterInvalidRelationships(Sanitized(config))
      /\ told' = live' /\ booted' = incoming /\ raw' = config.fields
      BY <1>1
<1>3. /\ boots' = boots + 1 /\ boots < MaxBoots /\ tried' = {} /\ UNCHANGED <<disabled, folder, saves>>
      BY DEF Boot
<1>4. D \in SUBSET Definitions /\ D \subseteq FilesRead /\ Distinct(D) /\ incoming \in Seq(D) /\ IsInjective(incoming)
      BY IncomingIs DEF ConfigInv
<1> HIDE DEF listed
<1>5. /\ IsConfig(config) /\ ToSet(config.slugs) = ServedBy(D) /\ FirstRelated(D, config.slugs)
      /\ GainsNamed(config, D) /\ AppliedBy(D) \subseteq D /\ FollowsFiles(config, AppliedBy(D))
      BY <1>2, <1>4, BootIs
<1> HIDE DEF config
<1>6. Enabled \subseteq ToSet(config.slugs) /\ Forms \in ToSet(config.slugs)  BY <1>5 DEF ServedBy
<1>7. /\ IsConfig(live') /\ live'.slugs = config.slugs
      /\ GainsNamed(live', D) /\ FollowsFiles(live', AppliedBy(D))
      /\ live'.fields = [slug \in DOMAIN config.fields |-> Check(config.fields[slug], ToSet(config.slugs))]
      BY <1>2, <1>5, <1>6, FinishedIs
<1>8. Enabled' = Enabled  BY <1>3, EnabledStays
<1>9. D = ToSet(booted') /\ Applied' = D  BY <1>2, <1>3 DEF Applied
<1>10. UpInv'
  <2>1. IsConfig(live') /\ IsInjective(live'.slugs)  BY <1>2, <1>7
  <2>2. (ToSet(live.slugs) = ServedBy(ToSet(booted)) /\ FirstRelated(ToSet(booted), live.slugs))'
        BY <1>5, <1>7, <1>8, <1>9 DEF ServedBy, FirstRelated
  <2>3. (GainsNamed(live, ToSet(booted)) /\ GainsNamed(told, Applied))'
        BY <1>2, <1>7, <1>8, <1>9 DEF GainsNamed, OriginalAccess
  <2>4. FollowsFiles(live, AppliedBy(ToSet(booted)))'  BY <1>7, <1>8, <1>9 DEF FollowsFiles, AppliedBy
  <2>7. (\E B \in SUBSET ToSet(booted) : FollowsFiles(told, B \cup tried))'
    <3>1. AppliedBy(D) \cup tried' = AppliedBy(D)  BY <1>3
    <3>2. FollowsFiles(told, AppliedBy(D) \cup tried)'
          BY <3>1, <1>2, <1>7, <1>8, <1>9 DEF FollowsFiles, AppliedBy
    <3>3. AppliedBy(D)' = AppliedBy(D)  BY <1>2, <1>8 DEF AppliedBy
    <3> QED  BY <1>5, <1>9, <3>2, <3>3
  <2>8. IsConfig(told') /\ told'.slugs = live'.slugs  BY <1>2, <1>7
  <2>5. raw' \in [ToSet(live'.slugs) -> Seq(AllFields)]  BY <1>2, <1>5, <1>7 DEF IsConfig
  <2>6. live'.fields = [slug \in DOMAIN raw' |-> Check(raw'[slug], ToSet(live'.slugs))]  BY <1>2, <1>7
  <2> QED  BY <2>1, <2>2, <2>3, <2>4, <2>5, <2>6, <2>7, <2>8 DEF UpInv, LiveInv, ToldInv
<1>11. live' # NoConfig  BY <1>6, <1>7, UpServes
<1>12. booted' \in Seq(FilesRead)  BY <1>2, <1>4, SeqMonotonic
<1>13. FolderInv'  BY <1>3 DEF ConfigInv, FolderInv
<1>14. boots' \in 0 .. MaxBoots  BY <1>3, EntityAssumption DEF ConfigInv
<1> QED  BY <1>3, <1>10, <1>11, <1>12, <1>13, <1>14 DEF ConfigInv

\* Saving a definition of a collection that is there merges it into its copy;
\* any other leaves the copies.
LEMMA SaveKeepsServing ==
    ASSUME UpInv, NEW d \in Catalogue, SaveDefinition(d), tried \subseteq Catalogue, booted \in Seq(FilesRead)
    PROVE  UpInv'
<1>1. /\ told' = (IF Extension(d) THEN Extend(told, d) ELSE told) /\ tried' = tried \cup {d}
      /\ UNCHANGED <<disabled, live, booted, raw, boots>>
      BY DEF SaveDefinition
<1>2. IsConfig(told) /\ ToSet(told.slugs) = ServedBy(ToSet(booted)) /\ d \in Definitions
      BY DEF UpInv, LiveInv, ToldInv, Definitions
<1>3. Enabled' = Enabled  BY <1>1, EnabledStays
<1>4. Applied' = Applied \cup {d}  BY <1>1 DEF Applied
<1>5. Enabled \subseteq ToSet(told.slugs) /\ Forms \in ToSet(told.slugs) /\ NoBase \notin Enabled
      /\ \A slug \in Enabled : ProgramAccess[slug] \in Accesses
  <2>1. Enabled \subseteq ToSet(Program)  BY BaseIs
  <2> QED  BY <1>2, <2>1, EntityAssumption, AccessesAre DEF ServedBy
<1>6. PICK B \in SUBSET ToSet(booted) : FollowsFiles(told, B \cup tried)  BY DEF UpInv, ToldInv
<1>7. B \cup tried \in SUBSET Definitions
  <2>1. ToSet(booted) \subseteq FilesRead  BY DEF ToSet
  <2> QED  BY <2>1 DEF FilesRead, Definitions
<1> DEFINE merges == Extension(d) /\ d.extends \in ToSet(told.slugs)
<1>8. /\ IsConfig(told') /\ told'.slugs = told.slugs
      /\ \A slug \in ToSet(told.slugs) : told'.access[slug] =
             IF merges /\ slug = d.extends THEN MergedAccess(d, told.access[slug]) ELSE told.access[slug]
  <2>1. CASE merges
    <3>1. /\ IsConfig(Extend(told, d)) /\ Extend(told, d).slugs = told.slugs
          /\ Extend(told, d).access =
                 [told.access EXCEPT ![d.extends] = MergedAccess(d, told.access[d.extends])]
          BY <1>2, <2>1, ExtendIs
    <3>2. told' = Extend(told, d)  BY <1>1, <2>1
    <3>3. DOMAIN told.access = ToSet(told.slugs)  BY <1>2 DEF IsConfig
    <3> QED  BY <2>1, <3>1, <3>2, <3>3
  <2>2. CASE ~merges
    <3>1. told' = told  BY <1>1, <2>2 DEF Extend
    <3> QED  BY <1>2, <2>2, <3>1
  <2> QED  BY <2>1, <2>2
<1>9. \A slug \in ToSet(told.slugs) : told.access[slug] \in Accesses  BY <1>2 DEF IsConfig
<1>10. GainsNamed(told, Applied)'
  <2> SUFFICES ASSUME NEW slug \in ToSet(told.slugs)
               PROVE  Gains(told'.access[slug], OriginalAccess(slug), Applied \cup {d}, slug)
      BY <1>3, <1>4, <1>8 DEF GainsNamed, OriginalAccess
  <2>1. Gains(told.access[slug], OriginalAccess(slug), Applied, slug)  BY DEF UpInv, ToldInv, GainsNamed
  <2>2. CASE merges /\ slug = d.extends
    <3>1. Concerns(d, slug)  BY <2>2 DEF Concerns
    <3> QED  BY <1>2, <1>8, <1>9, <2>1, <2>2, <3>1, MergedGains
  <2>3. CASE ~(merges /\ slug = d.extends)
    <3>1. Applied \subseteq Applied \cup {d}  OBVIOUS
    <3> QED  BY <1>8, <2>1, <2>3, <3>1, MoreGains
  <2> QED  BY <2>2, <2>3
<1>11. FollowsFiles(told, B \cup tried)'
  <2>0. (B \cup tried) \cup {d} = B \cup tried'  BY <1>1
  <2> SUFFICES ASSUME NEW slug \in Enabled
               PROVE  Follows(told'.access[slug], ProgramAccess[slug], (B \cup tried) \cup {d}, slug)
      BY <1>3, <2>0 DEF FollowsFiles
  <2>1. Follows(told.access[slug], ProgramAccess[slug], B \cup tried, slug)  BY <1>6 DEF FollowsFiles
  <2>2. CASE d.extends = slug
    <3>1. slug \in ToSet(told.slugs) /\ merges  BY <1>5, <2>2 DEF Extension
    <3>2. told'.access[slug] = MergedAccess(d, told.access[slug])  BY <1>8, <2>2, <3>1
    <3> DEFINE ds == B \cup tried
               access == told.access[slug]
               original == ProgramAccess[slug]
    <3>3. /\ ds \in SUBSET Definitions /\ Follows(access, original, ds, slug) /\ access \in Accesses
          /\ original \in Accesses /\ d \in Definitions
          BY <1>2, <1>5, <1>7, <1>9, <2>1, <3>1
    <3> HIDE DEF ds, access, original
    <3>4. Follows(MergedAccess(d, access), original, ds \cup {d}, slug)  BY <2>2, <3>3, MergedFollows
    <3> QED  BY <3>2, <3>4 DEF ds, access, original
  <2>3. CASE d.extends # slug
    <3>1. told'.access[slug] = told.access[slug]  BY <1>5, <1>8, <2>3
    <3> QED  BY <2>1, <2>3, <3>1, OthersFollow
  <2> QED  BY <2>2, <2>3
<1>12. (\E C \in SUBSET ToSet(booted) : FollowsFiles(told, C \cup tried))'  BY <1>1, <1>11
<1>13. LiveInv'  BY <1>1, LiveStays DEF UpInv
<1> QED  BY <1>1, <1>8, <1>10, <1>12, <1>13 DEF UpInv, ToldInv

LEMMA ConfigStepInv == ConfigInv /\ [ConfigNext]_configVars => ConfigInv'
<1> SUFFICES ASSUME ConfigInv, [ConfigNext]_configVars PROVE ConfigInv'  OBVIOUS
<1>0. /\ disabled \subseteq ToSet(Program) /\ tried \subseteq Catalogue /\ FolderInv
      /\ booted \in Seq(FilesRead) /\ saves \in 0 .. MaxSaves /\ boots \in 0 .. MaxBoots
      /\ live = NoConfig => DownInv
      /\ live # NoConfig => UpInv
      BY DEF ConfigInv
<1>1. CASE Boot  BY <1>1, BootInv
<1>2. CASE RestartServer
  <2>1. /\ live' = NoConfig /\ DownInv' /\ UNCHANGED <<disabled, folder, saves, boots>>
        /\ tried' = {} /\ booted' = <<>>
        BY <1>2 DEF RestartServer, DownInv
  <2>2. FolderInv'  BY <1>0, <2>1 DEF FolderInv
  <2>3. booted' \in Seq(FilesRead)  BY <2>1
  <2> QED  BY <1>0, <2>1, <2>2, <2>3 DEF ConfigInv
<1>3. ASSUME NEW d \in Catalogue, SaveDefinition(d) PROVE ConfigInv'
  <2>1. /\ live # NoConfig /\ saves < MaxSaves /\ saves' = saves + 1 /\ tried' = tried \cup {d}
        /\ folder' = (IF d.valid THEN {e \in folder : e.slug # d.slug} \cup {d} ELSE folder)
        /\ UNCHANGED <<disabled, live, booted, raw, boots>>
        BY <1>3 DEF SaveDefinition
  <2>2. UpInv' /\ live' # NoConfig  BY <1>0, <1>3, <2>1, SaveKeepsServing
  <2>3. FolderInv'
    <3>1. CASE d.valid
      <4> DEFINE others == {e \in folder : e.slug # d.slug}
      <4>1. folder' = others \cup {d} /\ others \in SUBSET folder  BY <2>1, <3>1
      <4>2. IsFiniteSet(others)
        <5>1. IsFiniteSet(folder)  BY <1>0 DEF FolderInv
        <5> HIDE DEF others
        <5> QED  BY <4>1, <5>1, FS_Subset
      <4>3. IsFiniteSet(folder')
        <5> HIDE DEF others
        <5> QED  BY <4>1, <4>2, FS_AddElement
      <4>4. Distinct(folder')  BY <1>0, <4>1 DEF FolderInv, Distinct
      <4> QED  BY <1>0, <4>1, <4>3, <4>4 DEF FolderInv
    <3>2. CASE ~d.valid  BY <1>0, <2>1, <3>2 DEF FolderInv
    <3> QED  BY <3>1, <3>2
  <2>4. saves' \in 0 .. MaxSaves  BY <1>0, <2>1, EntityAssumption
  <2> QED  BY <1>0, <2>1, <2>2, <2>3, <2>4 DEF ConfigInv
<1>4. ASSUME NEW d \in folder, DeleteDefinition(d) PROVE ConfigInv'
  <2>1. /\ live # NoConfig /\ saves < MaxSaves /\ saves' = saves + 1 /\ folder' = folder \ {d}
        /\ UNCHANGED <<disabled, live, told, booted, raw, tried, boots>>
        BY <1>4 DEF DeleteDefinition
  <2>2. FolderInv'
    <3>1. folder' \in SUBSET folder /\ IsFiniteSet(folder)  BY <1>0, <2>1 DEF FolderInv
    <3>2. IsFiniteSet(folder')  BY <3>1, FS_Subset
    <3> QED  BY <1>0, <3>1, <3>2 DEF FolderInv, Distinct
  <2>3. Enabled' = Enabled /\ Applied' = Applied  BY <2>1, EnabledStays DEF Applied
  <2>4. UpInv'
    <3>1. UpInv  BY <1>0, <2>1
    <3>2. LiveInv'  BY <2>1, <3>1, LiveStays DEF UpInv
    <3> QED  BY <2>1, <2>3, <3>1, <3>2 DEF UpInv, ToldInv, GainsNamed, FollowsFiles, OriginalAccess
  <2>5. saves' \in 0 .. MaxSaves  BY <1>0, <2>1, EntityAssumption
  <2> QED  BY <1>0, <2>1, <2>2, <2>4, <2>5 DEF ConfigInv
<1>5. CASE UNCHANGED configVars
  <2>1. /\ disabled' = disabled /\ folder' = folder /\ live' = live /\ told' = told /\ booted' = booted
        /\ raw' = raw /\ tried' = tried /\ saves' = saves /\ boots' = boots
        BY <1>5 DEF configVars
  <2>2. Enabled' = Enabled /\ Applied' = Applied  BY <2>1, EnabledStays DEF Applied
  <2>3. UpInv => UpInv'
    <3>1. LiveInv => LiveInv'  BY <2>1, LiveStays
    <3>2. ToldInv => ToldInv'
          BY <2>1, <2>2 DEF ToldInv, GainsNamed, FollowsFiles, OriginalAccess
    <3> QED  BY <3>1, <3>2 DEF UpInv
  <2>4. FolderInv' /\ (DownInv => DownInv')  BY <1>0, <2>1 DEF FolderInv, DownInv
  <2> QED  BY <1>0, <2>1, <2>3, <2>4 DEF ConfigInv
<1> QED  BY <1>1, <1>2, <1>3, <1>4, <1>5 DEF ConfigNext

LEMMA ConfigInvHolds == ConfigSpec => []ConfigInv
<1>1. ConfigInit => ConfigInv  BY ConfigInitInv
<1>2. ConfigInv /\ [ConfigNext]_configVars => ConfigInv'  BY ConfigStepInv
<1> QED  BY <1>1, <1>2, PTL DEF ConfigSpec

LEMMA ConfigIsServed ==
    ASSUME NEW config, IsConfig(config), IsInjective(config.slugs)
    PROVE  IsServed(config)
<1>1. /\ config.slugs \in Seq(AllSlugs)
      /\ config.access \in [ToSet(config.slugs) -> Accesses]
      /\ config.fields \in [ToSet(config.slugs) -> Seq(AllFields)]
      BY DEF IsConfig
<1>2. config.slugs \in Seq(ToSet(config.slugs))  BY <1>1 DEF ToSet
<1>3. ASSUME NEW slug \in ToSet(config.slugs)
      PROVE  IsAccess(config.access[slug]) /\ AreFields(config.fields[slug])
  <2>1. config.access[slug] \in Accesses /\ config.fields[slug] \in Seq(AllFields)  BY <1>1
  <2>2. /\ config.fields[slug] \in Seq(ToSet(config.fields[slug]))
        /\ ToSet(config.fields[slug]) \subseteq AllFields
        BY <2>1 DEF ToSet
  <2> QED  BY <2>1, <2>2, AccessesAre, FieldsAre DEF AreFields
<1>4. DOMAIN config.access = ToSet(config.slugs) /\ DOMAIN config.fields = ToSet(config.slugs)  BY <1>1
<1> QED  BY <1>2, <1>3, <1>4 DEF IsServed

LEMMA NothingIsServed == IsServed(NoConfig)
<1> DEFINE config == NoConfig
<1>1. /\ config.slugs = <<>> /\ DOMAIN config.access = {} /\ DOMAIN config.fields = {}
      /\ ToSet(config.slugs) = {}
      BY DEF NoConfig, ToSet
<1>2. IsInjective(config.slugs) /\ config.slugs \in Seq(ToSet(config.slugs))  BY <1>1 DEF IsInjective
<1> HIDE DEF config
<1>3. IsServed(config)  BY <1>1, <1>2 DEF IsServed
<1> QED  BY <1>3 DEF config

\* The collections of the server are of the shape they are said to be, whatever is
\* saved, deleted, disabled and restarted.
THEOREM ConfigTypeCorrect == ConfigSpec => []ConfigTypeOK
<1>1. ASSUME ConfigInv PROVE ConfigTypeOK
  <2>0. /\ disabled \subseteq ToSet(Program) /\ folder \subseteq Catalogue /\ tried \subseteq Catalogue
        /\ booted \in Seq(FilesRead) /\ saves \in 0 .. MaxSaves /\ boots \in 0 .. MaxBoots
        BY <1>1 DEF ConfigInv, FolderInv
  <2>1. ToSet(booted) \subseteq {FromFile(d) : d \in Catalogue}  BY <2>0 DEF ToSet, FilesRead
  <2>2. IsServed(live) /\ IsServed(told)
    <3>1. CASE live # NoConfig
      <4>1. /\ IsConfig(live) /\ IsInjective(live.slugs) /\ IsConfig(told) /\ told.slugs = live.slugs
            BY <1>1, <3>1 DEF ConfigInv, UpInv, LiveInv, ToldInv
      <4> QED  BY <4>1, ConfigIsServed
    <3>2. CASE live = NoConfig
      <4>1. told = NoConfig  BY <1>1, <3>2 DEF ConfigInv, DownInv
      <4> QED  BY <3>2, <4>1, NothingIsServed
    <3> QED  BY <3>1, <3>2
  <2> QED  BY <2>0, <2>1, <2>2 DEF ConfigTypeOK
<1> QED  BY <1>1, ConfigInvHolds, PTL

\* Whatever the order of the files, a boot serves what can be resolved and no other
\* definition.
THEOREM ResolvableIsServed == ConfigSpec => []EntitiesServed
<1>1. ConfigInv => EntitiesServed  BY DEF ConfigInv, UpInv, LiveInv, EntitiesServed, Up, ServedBy
<1> QED  BY <1>1, ConfigInvHolds, PTL

\* A collection somebody defines comes after those it relates to.
THEOREM RelationsAlwaysComeFirst == ConfigSpec => []RelationsComeFirst
<1>1. ASSUME ConfigInv PROVE RelationsComeFirst
  <2>1. CASE live # NoConfig  BY <1>1, <2>1 DEF ConfigInv, UpInv, LiveInv, FirstRelated, RelationsComeFirst
  <2>2. CASE live = NoConfig
    <3>1. DOMAIN live.slugs = {}  BY <2>2 DEF NoConfig
    <3> QED  BY <3>1 DEF RelationsComeFirst
  <2> QED  BY <2>1, <2>2
<1> QED  BY <1>1, ConfigInvHolds, PTL

\* What explains a server's collections says what they answer.
LEMMA ExplainedIsKept ==
    ASSUME NEW config, NEW applied, NEW B \in SUBSET applied,
           GainsNamed(config, applied), FollowsFiles(config, B)
    PROVE  GainsAreNamed(config, applied) /\ UnnamedIsKept(config, applied)
<1>1. GainsAreNamed(config, applied)
  <2> SUFFICES ASSUME NEW slug \in ToSet(config.slugs), NEW op \in Ops, NEW user \in Users,
                      Answers(config.access[slug], op, user) = "all"
               PROVE  \/ Answers(OriginalAccess(slug), op, user) = "all"
                      \/ \E d \in {e \in applied : Concerns(e, slug)} : Grants(d, op, user)
      BY DEF GainsAreNamed
  <2>1. Gains(config.access[slug], OriginalAccess(slug), applied, slug)  BY DEF GainsNamed
  <2> QED  BY <2>1 DEF Gains
<1>2. UnnamedIsKept(config, applied)
  <2> SUFFICES ASSUME NEW slug \in Enabled, NEW op \in DOMAIN ProgramAccess[slug],
                      SelfContained(ProgramAccess[slug][op]),
                      \A d \in applied : d.extends = slug => ~Names(d, op), NEW user \in Users
               PROVE  Answers(config.access[slug], op, user) = Answers(ProgramAccess[slug], op, user)
      BY DEF UnnamedIsKept, Kept
  <2>1. Follows(config.access[slug], ProgramAccess[slug], B, slug)  BY DEF FollowsFiles
  <2>2. \A d \in Extending(B, slug) : ~Names(d, op)  BY DEF Extending
  <2>3. /\ op \in DOMAIN config.access[slug]
        /\ config.access[slug][op] \in {ProgramAccess[slug][op], Moved(ProgramAccess[slug][op])}
        BY <2>1, <2>2 DEF Follows
  <2>4. ProgramAccess[slug][op] \in Rules
    <3>1. Enabled \subseteq ToSet(Program)  BY BaseIs
    <3>2. IsAccess(ProgramAccess[slug])  BY <3>1, EntityAssumption
    <3> QED  BY <3>2 DEF IsAccess
  <2> QED  BY <2>3, <2>4, MovedAnswers DEF Answers
<1> QED  BY <1>1, <1>2

\* Nobody gains an operation that no definition gives him, and what no extension
\* names stays as it was: for requests by the definitions of the boot, and in what
\* the panel is told by these and the ones saved since.
THEOREM OnlyNamedEverChange == ConfigSpec => []OnlyNamedChange
<1>1. ASSUME ConfigInv PROVE OnlyNamedChange
  <2>1. CASE live = NoConfig
    <3>0. told = NoConfig  BY <1>1, <2>1 DEF ConfigInv, DownInv
    <3>1. ToSet(live.slugs) = {} /\ ToSet(told.slugs) = {}  BY <2>1, <3>0 DEF NoConfig, ToSet
    <3> QED  BY <3>1 DEF OnlyNamedChange, GainsAreNamed, UnnamedIsKept
  <2>2. CASE live # NoConfig
    <3>0. LiveInv /\ ToldInv  BY <1>1, <2>2 DEF ConfigInv, UpInv
    <3>1. GainsAreNamed(live, ToSet(booted)) /\ UnnamedIsKept(live, ToSet(booted))
      <4>1. AppliedBy(ToSet(booted)) \in SUBSET ToSet(booted)  BY DEF AppliedBy, Resolvable
      <4> QED  BY <3>0, <4>1, ExplainedIsKept DEF LiveInv
    <3>2. GainsAreNamed(told, Applied) /\ UnnamedIsKept(told, Applied)
      <4>1. PICK B \in SUBSET ToSet(booted) : FollowsFiles(told, B \cup tried)  BY <3>0 DEF ToldInv
      <4>2. B \cup tried \in SUBSET Applied  BY DEF Applied
      <4> QED  BY <3>0, <4>1, <4>2, ExplainedIsKept DEF ToldInv
    <3> QED  BY <3>1, <3>2 DEF OnlyNamedChange
  <2> QED  BY <2>1, <2>2
<1> QED  BY <1>1, ConfigInvHolds, PTL

\* What the files ds, all of them of one definition, have made of an operation is
\* what merging it makes.
LEMMA OnlyMergeActs ==
    ASSUME NEW access, NEW ds \in SUBSET Definitions, NEW slug \in Enabled, NEW d \in Definitions,
           Follows(access, ProgramAccess[slug], ds, slug), Extending(ds, slug) # {},
           NEW op \in DOMAIN ProgramAccess[slug],
           \A e \in Extending(ds, slug) :
               FromFile(e) = FromFile(d) /\ op \notin e.texts \ FromFile(e).texts
    PROVE  AsMerged(access, d, slug, op)
<1> DEFINE f == FromFile(d)
           original == ProgramAccess[slug]
<1>1. f \in Definitions /\ IsDefinition(f)
  <2>1. f \in Definitions  BY DefinitionsAre
  <2> QED  BY <2>1, DefinitionsAre
<1>2. \A e \in Extending(ds, slug) : FromFile(e) = f /\ op \notin e.texts \ f.texts  OBVIOUS
<1>3. op \in DOMAIN access /\ access[op] = AfterMerge(f, op, original[op])
      BY <1>1, <1>2 DEF Follows
<1>4. original \in Accesses
  <2>1. Enabled \subseteq ToSet(Program)  BY BaseIs
  <2> QED  BY <2>1, EntityAssumption, AccessesAre
<1>5. op \in DOMAIN MergedAccess(f, original) /\ MergedAccess(f, original)[op] = AfterMerge(f, op, original[op])
  <2> HIDE DEF f, original
  <2>1. op \in DOMAIN original  BY DEF original
  <2> QED  BY <2>1, <1>1, <1>4, MergeIs
<1> QED  BY <1>3, <1>5 DEF Answers, AsMerged

\* What a file hands on it hands on as it is.
LEMMA FilesAre ==
    ASSUME NEW e \in FilesRead
    PROVE  e \in Definitions /\ FromFile(e) = e
<1>1. PICK x \in Catalogue : e = FromFile(x)  BY DEF FilesRead
<1> QED  BY <1>1, DefinitionsAre DEF Definitions

\* The panel is told of the only extension of a collection, once it is saved, what
\* requests are answered after a boot that finds its file.
THEOREM SavesAlwaysActLikeABoot == ConfigSpec => []SavesActLikeABoot
<1>1. ASSUME ConfigInv PROVE SavesActLikeABoot
  <2>1. CASE live = NoConfig
    <3>1. ToSet(live.slugs) = {}  BY <2>1 DEF NoConfig, ToSet
    <3> QED  BY <3>1 DEF SavesActLikeABoot
  <2>2. CASE live # NoConfig
    <3> DEFINE D == ToSet(booted)
    <3>0. LiveInv /\ ToldInv /\ tried \subseteq Catalogue /\ D \subseteq FilesRead
          BY <1>1, <2>2 DEF ConfigInv, UpInv, ToSet
    <3>1. ASSUME NEW slug \in Enabled, NEW d \in D, OnlyExtension(d, slug, D), \A e \in D : e.complete,
                 NEW op \in DOMAIN ProgramAccess[slug]
          PROVE  AsMerged(live.access[slug], d, slug, op)
      <4> DEFINE ds == AppliedBy(D)
      <4>1. Follows(live.access[slug], ProgramAccess[slug], ds, slug)  BY <3>0 DEF LiveInv, FollowsFiles
      <4>2. ds = Resolvable(Enabled, D) /\ ds \subseteq D  BY <3>1 DEF AppliedBy, Resolvable
      <4>3. ds \in SUBSET Definitions /\ d \in Definitions  BY <3>0, <4>2, FilesAre
      <4>4. d \in Extending(ds, slug)
        <5>1. d.extends = slug  BY <3>1 DEF OnlyExtension
        <5>2. NoBase \notin Enabled  BY EntityAssumption, BaseIs
        <5>3. GetRelationsForCollection(d) = {}  BY <5>1, <5>2 DEF GetRelationsForCollection, Extension
        <5>4. d \in Resolvable(Enabled, D)  BY <5>3 DEF Resolvable, Closed
        <5> QED  BY <4>2, <5>1, <5>4 DEF Extending
      <4>5. ASSUME NEW e \in Extending(ds, slug)
            PROVE  FromFile(e) = FromFile(d) /\ op \notin e.texts \ FromFile(e).texts
        <5>1. e \in D /\ e.extends = slug  BY <4>2 DEF Extending
        <5>2. FromFile(e) = FromFile(d)  BY <3>1, <5>1 DEF OnlyExtension
        <5>3. FromFile(e) = e  BY <3>0, <5>1, FilesAre
        <5> QED  BY <5>2, <5>3
      <4> HIDE DEF ds
      <4> QED  BY <4>1, <4>3, <4>4, <4>5, OnlyMergeActs
    <3>2. ASSUME NEW slug \in Enabled, NEW d \in tried, OnlyExtension(d, slug, Applied),
                 NEW op \in DOMAIN ProgramAccess[slug] \ NotHandedOn(slug)
          PROVE  AsMerged(told.access[slug], d, slug, op)
      <4>1. PICK B \in SUBSET D : FollowsFiles(told, B \cup tried)  BY <3>0 DEF ToldInv
      <4> DEFINE ds == B \cup tried
      <4>2. Follows(told.access[slug], ProgramAccess[slug], ds, slug)  BY <4>1 DEF FollowsFiles
      <4>3. ds \in SUBSET Definitions /\ d \in Definitions  BY <3>0, FilesAre DEF Definitions
      <4>4. d \in Extending(ds, slug)
        <5>1. d.extends = slug  BY <3>2 DEF OnlyExtension, Applied
        <5> QED  BY <5>1 DEF Extending
      <4>5. ASSUME NEW e \in Extending(ds, slug)
            PROVE  FromFile(e) = FromFile(d) /\ op \notin e.texts \ FromFile(e).texts
        <5>1. e \in ds /\ e.extends = slug /\ e \in Applied  BY DEF Extending, Applied
        <5>2. FromFile(e) = FromFile(d)  BY <3>2, <5>1 DEF OnlyExtension
        <5>3. CASE e \in tried
          <6>1. e.texts \ FromFile(e).texts \subseteq NotHandedOn(slug)  BY <5>1, <5>3 DEF NotHandedOn
          <6> QED  BY <5>2, <6>1
        <5>4. CASE e \in B
          <6>1. FromFile(e) = e  BY <3>0, <5>4, FilesAre
          <6> QED  BY <5>2, <6>1
        <5> QED  BY <5>1, <5>2, <5>3, <5>4
      <4> HIDE DEF ds
      <4> QED  BY <4>2, <4>3, <4>4, <4>5, OnlyMergeActs
    <3> HIDE DEF D
    <3> QED  BY <3>1, <3>2 DEF SavesActLikeABoot, D
  <2> QED  BY <2>1, <2>2
<1> QED  BY <1>1, ConfigInvHolds, PTL

\* The filter is exact unless two fields that relate to nothing are neighbours or
\* one has two such relations.
THEOREM FilterAlwaysExactWhenSparse == ConfigSpec => []FilterIsExactWhenSparse
<1>1. ASSUME ConfigInv PROVE FilterIsExactWhenSparse
  <2> SUFFICES ASSUME Up, NEW slug \in DOMAIN raw, Sparse(raw[slug])
               PROVE  live.fields[slug] = Picked(raw[slug], {i \in DOMAIN raw[slug] : ~Dangling(raw[slug][i])})
      BY DEF FilterIsExactWhenSparse
  <2> DEFINE fields == raw[slug]
             slugs == ToSet(live.slugs)
  <2>1. /\ raw \in [slugs -> Seq(AllFields)]
        /\ live.fields = [s \in DOMAIN raw |-> Check(raw[s], slugs)]
        BY <1>1 DEF ConfigInv, UpInv, LiveInv, Up
  <2>2. fields \in Seq(AllFields) /\ live.fields[slug] = Check(fields, slugs)  BY <2>1
  <2>3. {i \in DOMAIN fields : ~Dangling(fields[i])} = Whole(fields, slugs)
        BY DEF Dangling, Whole, Missings
  <2>4. IsSparse(fields, slugs)
    <3>0. Len(fields) \in Nat /\ DOMAIN fields = 1 .. Len(fields)  BY <2>2
    <3>1. \A i \in DOMAIN fields : Missing(fields[i], slugs) <= 1  BY DEF Sparse
    <3>2. \A i \in 1 .. Len(fields) - 1 : ~(Dangling(fields[i]) /\ Dangling(fields[i + 1]))  BY DEF Sparse
    <3>3. \A i \in Missings(fields, slugs) : Dangling(fields[i])  BY DEF Missings, Dangling
    <3> HIDE DEF fields, slugs
    <3> QED  BY <3>1, <3>2, <3>3 DEF IsSparse
  <2>5. \A f \in AllFields : Missing(f, slugs) \in Nat  BY FieldsAre
  <2> HIDE DEF fields, slugs
  <2>6. Check(fields, slugs) = Picked(fields, Whole(fields, slugs))  BY <2>2, <2>4, <2>5, CheckIs
  <2> QED  BY <2>2, <2>3, <2>6 DEF fields
<1> QED  BY <1>1, ConfigInvHolds, PTL

-----------------------------------------------------------------------------
(* The documents and the files: CustomEntities *)

USE CustomEntitiesAssumption DEF CustomEntitiesAssumption

Request == [slug : Slugs, version : Files, at : Steps]

\* A load that fails, or is going to, has met a delete; and while it runs a
\* file it has still to import is there, unless a delete has been met.
FailsAfterDelete ==
    \A s \in Servers :
        /\ loader[s] \in {"import, failing", "failed"} => removed[s]
        /\ loader[s] \in Importing =>
               \A f \in toImport[s] : definitions[f] # None \/ removed[s]

\* Of a slug whose files match its documents: it has one document at most, and
\* one unfinished request at most, which agrees with that document; when it has
\* none, the file a load will find does.
Holds(f, v) == \E d \in Holders(f) : docs[d].version = v
Agrees(f, k) ==
    IF requests[k].at = "drop" THEN Holds(f, requests[k].version)
    ELSE Holders(f) = {} /\ (requests[k].at = "rm definitions" => drops[f] = None)
Matches(f) ==
    /\ \A d, e \in Holders(f) : d = e
    /\ \A k \in DOMAIN requests : requests[k].slug = f /\ Unfinished(k) =>
          /\ Agrees(f, k)
          /\ \A j \in DOMAIN requests : requests[j].slug = f /\ Unfinished(j) => j = k
    /\ ~Busy(f) => IF Holders(f) = {} THEN Effective(f) = None ELSE Holds(f, Effective(f))
ClearSlugsMatch == \A f \in Slugs \ murky : Matches(f)

IInv == TypeOK /\ FailsAfterDelete /\ ClearSlugsMatch

-----------------------------------------------------------------------------
(* The type, in parts: the database, the volume, the servers *)

DatabaseTyped ==
    /\ docs \in [Docs -> {None} \cup [slug : Slugs, version : Versions]]
    /\ requests \in Seq(Request)
    /\ murky \subseteq Slugs
    /\ lost \in 0 .. MaxLost
VolumeTyped ==
    /\ drops \in [Slugs -> Files] /\ definitions \in [Slugs -> Files]
    /\ enabler \in [Enablers -> {"ls", "expand", "mv"}] /\ batch \in [Enablers -> SUBSET Slugs]
ServersTyped ==
    /\ loader \in [Servers -> Importing \cup {"idle", "loaded", "failed"}]
    /\ toImport \in [Servers -> SUBSET Slugs] /\ cache \in [Servers -> [Slugs -> Files]]
    /\ loads \in 0 .. MaxLoads /\ removed \in [Servers -> BOOLEAN]

LEMMA TypeInParts == TypeOK <=> DatabaseTyped /\ VolumeTyped /\ ServersTyped
BY DEF TypeOK, DatabaseTyped, VolumeTyped, ServersTyped, Request

\* A request is one of its sequence.
LEMMA RequestTyped ==
    ASSUME requests \in Seq(Request), NEW k \in DOMAIN requests
    PROVE  requests[k] \in Request
<1>1. k \in 1 .. Len(requests)  OBVIOUS
<1> QED  BY <1>1, ElementOfSeq

\* A request that goes on to another step keeps its type.
LEMMA ReachTyped ==
    ASSUME requests \in Seq(Request), NEW k \in DOMAIN requests, NEW step \in Steps,
           Reach(k, step)
    PROVE  requests' \in Seq(Request)
<1>1. k \in 1 .. Len(requests)  OBVIOUS
<1>2. [requests[k] EXCEPT !.at = step] \in Request  BY RequestTyped DEF Request
<1>3. [requests EXCEPT ![k] = [requests[k] EXCEPT !.at = step]] \in Seq(Request)
      BY <1>1, <1>2, ExceptSeq
<1> QED  BY <1>3 DEF Reach

LEMMA HolderTyped ==
    ASSUME DatabaseTyped, NEW d \in Docs, docs[d] # None
    PROVE  docs[d].slug \in Slugs /\ docs[d].version \in Versions
BY DEF DatabaseTyped

LEMMA NextDatabaseTyped ==
    ASSUME DatabaseTyped, [Next]_vars
    PROVE  DatabaseTyped'
<1> USE DEF DatabaseTyped
<1>1. ASSUME NEW d \in Docs, NEW f \in Slugs, NEW v \in Versions, Save(d, f, v)
      PROVE  DatabaseTyped'
  <2>1. [slug |-> f, version |-> v, at |-> "drop"] \in Request  BY DEF Request, Files, Steps
  <2>2. requests' \in Seq(Request)  BY <1>1, <2>1, AppendProperties DEF Save
  <2>3. docs' \in [Docs -> {None} \cup [slug : Slugs, version : Versions]]  BY <1>1 DEF Save
  <2>4. murky' \subseteq Slugs  BY <1>1, HolderTyped DEF Save
  <2> QED  BY <1>1, <2>2, <2>3, <2>4 DEF Save
<1>2. ASSUME NEW d \in Docs, NEW v \in Versions, SaveDraft(d, v)
      PROVE  DatabaseTyped'
  <2>1. docs[d].slug \in Slugs  BY <1>2, HolderTyped DEF SaveDraft
  <2>2. [slug |-> docs[d].slug, version |-> v, at |-> "drop"] \in Request
        BY <2>1 DEF Request, Files, Steps
  <2>3. requests' \in Seq(Request)  BY <1>2, <2>2, AppendProperties DEF SaveDraft
  <2>4. docs' = docs /\ lost' = lost /\ murky' \subseteq Slugs  BY <1>2, <2>1 DEF SaveDraft
  <2> QED  BY <2>3, <2>4
<1>3. ASSUME NEW d \in Docs, Delete(d)
      PROVE  DatabaseTyped'
  <2>1. docs[d].slug \in Slugs  BY <1>3, HolderTyped DEF Delete
  <2>2. [slug |-> docs[d].slug, version |-> None, at |-> "rm drops"] \in Request
        BY <2>1 DEF Request, Files, Steps
  <2>3. requests' \in Seq(Request)  BY <1>3, <2>2, AppendProperties DEF Delete
  <2>4. docs' \in [Docs -> {None} \cup [slug : Slugs, version : Versions]]  BY <1>3 DEF Delete
  <2>5. lost' = lost /\ murky' \subseteq Slugs  BY <1>3, <2>1 DEF Delete
  <2> QED  BY <2>3, <2>4, <2>5
<1>4. ASSUME NEW k \in DOMAIN requests, RequestStep(k)
      PROVE  DatabaseTyped'
  <2>1. PICK step \in Steps : Reach(k, step)
        BY <1>4 DEF RequestStep, DropFile, RemoveDrop, RemoveDefinition, Steps
  <2>2. requests' \in Seq(Request)  BY <2>1, ReachTyped
  <2>3. docs' = docs /\ murky' = murky /\ lost' = lost
        BY <1>4 DEF RequestStep, DropFile, RemoveDrop, RemoveDefinition
  <2> QED  BY <2>2, <2>3
<1>5. ASSUME NEW k \in DOMAIN requests, Lose(k)
      PROVE  DatabaseTyped'
  <2>1. requests' \in Seq(Request)  BY <1>5, ReachTyped DEF Lose, Steps
  <2>2. requests[k].slug \in Slugs  BY RequestTyped DEF Request
  <2>3. docs' = docs /\ murky' \subseteq Slugs /\ lost' \in 0 .. MaxLost  BY <1>5, <2>2 DEF Lose
  <2> QED  BY <2>1, <2>3
<1>6. ASSUME NEW e \in Enablers, EnablerStep(e)
      PROVE  DatabaseTyped'
      BY <1>6 DEF EnablerStep, List, Expand, Move, Sleep
<1>7. ASSUME NEW s \in Servers, StartLoad(s) \/ LoadStep(s) \/ Restart(s)
      PROVE  DatabaseTyped'
      BY <1>7 DEF StartLoad, LoadStep, Import, FinishLoad, Restart
<1>8. CASE UNCHANGED vars  BY <1>8 DEF vars
<1> QED  BY <1>1, <1>2, <1>3, <1>4, <1>5, <1>6, <1>7, <1>8 DEF Next

LEMMA NextVolumeTyped ==
    ASSUME DatabaseTyped, VolumeTyped, [Next]_vars
    PROVE  VolumeTyped'
<1> USE DEF VolumeTyped
<1>1. ASSUME NEW d \in Docs, NEW v \in Versions, NEW f \in Slugs,
             SaveDraft(d, v) \/ Save(d, f, v) \/ Delete(d)
      PROVE  VolumeTyped'
      BY <1>1 DEF SaveDraft, Save, Delete, files, moving
<1>2. ASSUME NEW d \in Docs, NEW v \in Versions, SaveDraft(d, v)
      PROVE  VolumeTyped'
      BY <1>2 DEF SaveDraft, files, moving
<1>3. ASSUME NEW d \in Docs, Delete(d)
      PROVE  VolumeTyped'
      BY <1>3 DEF Delete, files, moving
<1>4. ASSUME NEW k \in DOMAIN requests, RequestStep(k) \/ Lose(k)
      PROVE  VolumeTyped'
  <2>1. requests[k].slug \in Slugs /\ requests[k].version \in Files
        BY RequestTyped DEF DatabaseTyped, Request
  <2>2. CASE DropFile(k)  BY <2>1, <2>2 DEF DropFile, moving
  <2>3. CASE RemoveDrop(k)  BY <2>3 DEF RemoveDrop, moving, Files
  <2>4. CASE RemoveDefinition(k)  BY <2>4 DEF RemoveDefinition, moving, Files
  <2>5. CASE Lose(k)  BY <2>5 DEF Lose, files, moving
  <2> QED  BY <1>4, <2>2, <2>3, <2>4, <2>5 DEF RequestStep
<1>5. ASSUME NEW e \in Enablers, EnablerStep(e)
      PROVE  VolumeTyped'
  <2>1. CASE List(e)  BY <2>1 DEF List, GoesTo, files
  <2>2. CASE Expand(e)  BY <2>2 DEF Expand, GoesTo, Present, files
  <2>3. CASE Sleep(e)  BY <2>3 DEF Sleep, GoesTo, files
  <2>4. ASSUME NEW f \in batch[e], Move(e, f)
        PROVE  VolumeTyped'
        BY <2>4 DEF Move, files, Files
  <2> QED  BY <1>5, <2>1, <2>2, <2>3, <2>4 DEF EnablerStep
<1>6. ASSUME NEW s \in Servers, StartLoad(s) \/ LoadStep(s) \/ Restart(s)
      PROVE  VolumeTyped'
      BY <1>6 DEF StartLoad, LoadStep, Import, FinishLoad, Restart, files, moving
<1>7. CASE UNCHANGED vars  BY <1>7 DEF vars, files, moving
<1> QED  BY <1>1, <1>2, <1>3, <1>4, <1>5, <1>6, <1>7 DEF Next

LEMMA NextServersTyped ==
    ASSUME VolumeTyped, ServersTyped, [Next]_vars
    PROVE  ServersTyped'
<1> USE DEF ServersTyped
<1>1. ASSUME NEW d \in Docs, NEW v \in Versions, NEW f \in Slugs, Save(d, f, v)
      PROVE  ServersTyped'
      BY <1>1 DEF Save, loading
<1>2. ASSUME NEW d \in Docs, NEW v \in Versions, SaveDraft(d, v)
      PROVE  ServersTyped'
      BY <1>2 DEF SaveDraft, loading
<1>3. ASSUME NEW d \in Docs, Delete(d)
      PROVE  ServersTyped'
      BY <1>3 DEF Delete, loading
<1>4. ASSUME NEW k \in DOMAIN requests, RequestStep(k) \/ Lose(k)
      PROVE  ServersTyped'
      BY <1>4 DEF RequestStep, DropFile, RemoveDrop, RemoveDefinition, Lose, loading
<1>5. ASSUME NEW e \in Enablers, EnablerStep(e)
      PROVE  ServersTyped'
      BY <1>5 DEF EnablerStep, List, Expand, Move, Sleep, loading
<1>6. ASSUME NEW s \in Servers, StartLoad(s)
      PROVE  ServersTyped'
  <2>1. loads' \in 0 .. MaxLoads  BY <1>6 DEF StartLoad
  <2>2. Present(definitions) \in SUBSET Slugs  BY DEF Present
  <2>3. toImport' \in [Servers -> SUBSET Slugs]  BY <1>6, <2>2 DEF StartLoad
  <2>4. loader' \in [Servers -> Importing \cup {"idle", "loaded", "failed"}]
        BY <1>6 DEF StartLoad, Importing
  <2>5. cache' = cache /\ removed' \in [Servers -> BOOLEAN]  BY <1>6 DEF StartLoad
  <2> QED  BY <2>1, <2>3, <2>4, <2>5
<1>7. ASSUME NEW s \in Servers, NEW f \in toImport[s], Import(s, f)
      PROVE  ServersTyped'
  <2>1. definitions[f] \in Files  BY DEF VolumeTyped
  <2>2. toImport' \in [Servers -> SUBSET Slugs]  BY <1>7 DEF Import
  <2>3. loader' \in [Servers -> Importing \cup {"idle", "loaded", "failed"}]
        BY <1>7 DEF Import, Importing
  <2>4. cache' \in [Servers -> [Slugs -> Files]]
    <3> DEFINE v == IF cache[s][f] = None THEN definitions[f] ELSE cache[s][f]
    <3>1. f \in Slugs /\ cache[s] \in [Slugs -> Files]  OBVIOUS
    <3>2. v \in Files  BY <2>1, <3>1
    <3>3. CASE UNCHANGED cache  BY <3>3
    <3>4. CASE cache' = [cache EXCEPT ![s][f] = v]
      <4> HIDE DEF v
      <4>1. [cache[s] EXCEPT ![f] = v] \in [Slugs -> Files]  BY <3>1, <3>2
      <4> QED  BY <3>4, <4>1
    <3> QED  BY <1>7, <3>3, <3>4 DEF Import
  <2> QED  BY <1>7, <2>2, <2>3, <2>4 DEF Import
<1>8. ASSUME NEW s \in Servers, FinishLoad(s)
      PROVE  ServersTyped'
      BY <1>8 DEF FinishLoad, Importing
<1>9. ASSUME NEW s \in Servers, Restart(s)
      PROVE  ServersTyped'
      BY <1>9 DEF Restart, NoFiles, Files
<1>10. CASE UNCHANGED vars  BY <1>10 DEF vars, loading
<1> QED  BY <1>1, <1>2, <1>3, <1>4, <1>5, <1>6, <1>7, <1>8, <1>9, <1>10 DEF Next, LoadStep

LEMMA InitTyped == Init => TypeOK
<1> SUFFICES ASSUME Init PROVE TypeOK  OBVIOUS
<1>1. requests \in Seq(Request)  BY DEF Init
<1> QED  BY <1>1, TypeInParts
         DEF Init, DatabaseTyped, VolumeTyped, ServersTyped, NoFiles, Files, Importing

-----------------------------------------------------------------------------
(* Only a delete makes a load fail *)

LEMMA NextFailsAfterDelete ==
    ASSUME VolumeTyped, ServersTyped, FailsAfterDelete, [Next]_vars
    PROVE  FailsAfterDelete'
<1> USE DEF FailsAfterDelete, VolumeTyped, ServersTyped
<1>1. ASSUME NEW d \in Docs, NEW v \in Versions, NEW f \in Slugs, Save(d, f, v)
      PROVE  FailsAfterDelete'
      BY <1>1 DEF Save, files, loading
<1>2. ASSUME NEW d \in Docs, NEW v \in Versions, SaveDraft(d, v)
      PROVE  FailsAfterDelete'
      BY <1>2 DEF SaveDraft, files, loading
<1>3. ASSUME NEW d \in Docs, Delete(d)
      PROVE  FailsAfterDelete'
      BY <1>3 DEF Delete, files, loading
<1>4. ASSUME NEW k \in DOMAIN requests, DropFile(k) \/ RemoveDrop(k) \/ Lose(k)
      PROVE  FailsAfterDelete'
      BY <1>4 DEF DropFile, RemoveDrop, Lose, files, loading
<1>5. ASSUME NEW k \in DOMAIN requests, RemoveDefinition(k)
      PROVE  FailsAfterDelete'
  \* Every load under way has now met a delete, and no load starts here.
  <2>1. \A s \in Servers : removed'[s] = (removed[s] \/ loader[s] \in Importing)
        BY <1>5 DEF RemoveDefinition
  <2>2. loader' = loader /\ toImport' = toImport  BY <1>5 DEF RemoveDefinition, loading
  <2> QED  BY <2>1, <2>2
<1>6. ASSUME NEW e \in Enablers, List(e) \/ Expand(e) \/ Sleep(e)
      PROVE  FailsAfterDelete'
      BY <1>6 DEF List, Expand, Sleep, files, loading
<1>7. ASSUME NEW e \in Enablers, NEW f \in batch[e], Move(e, f)
      PROVE  FailsAfterDelete'
  \* A move puts a file where there was one, or none: it never takes one away.
  <2>1. \A g \in Slugs : definitions[g] # None => definitions'[g] # None  BY <1>7 DEF Move, files
  <2>2. loader' = loader /\ toImport' = toImport /\ removed' = removed  BY <1>7 DEF Move, loading
  <2> QED  BY <2>1, <2>2
<1>8. ASSUME NEW s \in Servers, StartLoad(s)
      PROVE  FailsAfterDelete'
      BY <1>8 DEF StartLoad, Present, files
<1>9. ASSUME NEW s \in Servers, NEW f \in toImport[s], Import(s, f)
      PROVE  FailsAfterDelete'
  <2>1. removed' = removed /\ definitions' = definitions  BY <1>9 DEF Import, files
  <2>2. loader[s] \in Importing /\ toImport' = [toImport EXCEPT ![s] = @ \ {f}]  BY <1>9 DEF Import
  <2>3. CASE cache[s][f] = None /\ definitions[f] = None
    <3>1. removed[s]  BY <2>2, <2>3
    <3>2. loader' = [loader EXCEPT ![s] = "import, failing"]  BY <1>9, <2>3 DEF Import
    <3> QED  BY <2>1, <2>2, <3>1, <3>2 DEF Importing
  <2>4. CASE ~(cache[s][f] = None /\ definitions[f] = None)
    <3>1. loader' = loader  BY <1>9, <2>4 DEF Import
    <3> QED  BY <2>1, <2>2, <3>1
  <2> QED  BY <2>3, <2>4
<1>10. ASSUME NEW s \in Servers, FinishLoad(s)
      PROVE  FailsAfterDelete'
      BY <1>10 DEF FinishLoad, Importing, files
<1>11. ASSUME NEW s \in Servers, Restart(s)
      PROVE  FailsAfterDelete'
      BY <1>11 DEF Restart, Importing, files
<1>12. CASE UNCHANGED vars  BY <1>12 DEF vars, files, loading
<1> QED  BY <1>1, <1>2, <1>3, <1>4, <1>5, <1>6, <1>7, <1>8, <1>9, <1>10, <1>11, <1>12
         DEF Next, RequestStep, EnablerStep, LoadStep

-----------------------------------------------------------------------------
(* The files follow the documents *)

\* An enabler moves a file to where a load finds it, and a load touches none.
LEMMA UnmovedMatches ==
    ASSUME NEW f, Matches(f), docs' = docs, requests' = requests,
           Effective(f)' = Effective(f), drops[f] = None => drops'[f] = None
    PROVE  Matches(f)'
BY DEF Matches, Holds, Agrees, Holders, Busy, Unfinished

\* A request for one slug leaves the others alone.
LEMMA NewRequestSparesOthers ==
    ASSUME requests \in Seq(Request), NEW r, requests' = Append(requests, r),
           NEW f, r.slug # f, Matches(f), Holders(f)' = Holders(f),
           \A d \in Holders(f) : docs'[d] = docs[d], UNCHANGED files
    PROVE  Matches(f)'
<1>1. /\ DOMAIN requests' = DOMAIN requests \cup {Len(requests) + 1}
      /\ \A k \in DOMAIN requests : requests'[k] = requests[k]
      /\ requests'[Len(requests) + 1] = r
      OBVIOUS
<1>2. /\ \A k \in DOMAIN requests : Unfinished(k)' = Unfinished(k)
      /\ Busy(f)' = Busy(f)
      /\ Effective(f)' = Effective(f)
      /\ \A v : Holds(f, v)' = Holds(f, v)
      BY <1>1 DEF Unfinished, Busy, Effective, Holds, files
<1>3. \A k \in DOMAIN requests : Agrees(f, k)' = Agrees(f, k)
      BY <1>1, <1>2 DEF Agrees, files
<1> QED  BY <1>1, <1>2, <1>3 DEF Matches

LEMMA StepSparesOthers ==
    ASSUME requests \in Seq(Request), NEW k \in DOMAIN requests, NEW step, Reach(k, step),
           NEW f, requests[k].slug # f, Matches(f), docs' = docs,
           drops'[f] = drops[f], definitions'[f] = definitions[f]
    PROVE  Matches(f)'
<1>1. /\ DOMAIN requests' = DOMAIN requests
      /\ requests'[k].slug = requests[k].slug
      /\ \A j \in DOMAIN requests : j # k => requests'[j] = requests[j]
      BY RequestTyped DEF Reach, Request
<1>2. /\ \A j \in DOMAIN requests : j # k => Unfinished(j)' = Unfinished(j)
      /\ Busy(f)' = Busy(f)
      /\ Effective(f)' = Effective(f)
      /\ Holders(f)' = Holders(f) /\ \A v : Holds(f, v)' = Holds(f, v)
      BY <1>1 DEF Unfinished, Busy, Effective, Holds, Holders
<1>3. \A j \in DOMAIN requests : j # k => Agrees(f, j)' = Agrees(f, j)
      BY <1>1, <1>2 DEF Agrees
<1> QED  BY <1>1, <1>2, <1>3 DEF Matches

\* A request that starts where nobody is busy is the only one of its slug.
LEMMA NewRequestMatches ==
    ASSUME requests \in Seq(Request), NEW r, requests' = Append(requests, r),
           NEW k, k = Len(requests) + 1,
           NEW f, r.slug = f, r.at \notin {"done", "lost"}, ~Busy(f),
           \A d, e \in Holders(f)' : d = e, Agrees(f, k)'
    PROVE  Matches(f)'
<1>1. /\ DOMAIN requests' = DOMAIN requests \cup {k}
      /\ \A j \in DOMAIN requests : requests'[j] = requests[j]
      /\ requests'[k] = r
      OBVIOUS
<1>2. Busy(f)'  BY <1>1 DEF Busy, Unfinished
<1>3. \A j \in DOMAIN requests : requests[j].slug = f => ~Unfinished(j)'
      BY <1>1 DEF Busy, Unfinished
<1> QED  BY <1>1, <1>2, <1>3 DEF Matches

\* What the one unfinished request of a clear slug does to the match.
LEMMA StepMatches ==
    ASSUME requests \in Seq(Request), NEW k \in DOMAIN requests, NEW step \in Steps,
           Reach(k, step), NEW f, requests[k].slug = f, Unfinished(k), Matches(f), docs' = docs,
           IF step \in {"done", "lost"}
           THEN IF Holders(f) = {} THEN Effective(f)' = None ELSE Holds(f, Effective(f)')
           ELSE Agrees(f, k)'
    PROVE  Matches(f)'
<1>1. /\ DOMAIN requests' = DOMAIN requests
      /\ requests'[k].slug = f /\ requests'[k].at = step
      /\ \A j \in DOMAIN requests : j # k => requests'[j] = requests[j]
      BY RequestTyped DEF Reach, Request
<1>2. Holders(f)' = Holders(f) /\ \A v : Holds(f, v)' = Holds(f, v)  BY DEF Holders, Holds
<1>3. \A j \in DOMAIN requests : j # k /\ requests[j].slug = f => ~Unfinished(j)'
      BY <1>1 DEF Matches, Unfinished
<1>4. Busy(f)' <=> step \notin {"done", "lost"}  BY <1>1, <1>3 DEF Busy, Unfinished
<1>5. Effective(f)' = Effective(f)' /\ (Unfinished(k)' <=> step \notin {"done", "lost"})
      BY <1>1 DEF Unfinished
<1> QED  BY <1>1, <1>2, <1>3, <1>4, <1>5 DEF Matches

LEMMA NextClearSlugsMatch ==
    ASSUME DatabaseTyped, VolumeTyped, ClearSlugsMatch, [Next]_vars
    PROVE  ClearSlugsMatch'
<1> SUFFICES ASSUME NEW f \in Slugs, f \notin murky' PROVE Matches(f)'  BY DEF ClearSlugsMatch
<1> USE DEF DatabaseTyped, VolumeTyped
<1>1. ASSUME NEW d \in Docs, NEW g \in Slugs, NEW v \in Versions, Save(d, g, v)
      PROVE  Matches(f)'
  <2>1. PICK r : r = [slug |-> g, version |-> v, at |-> "drop"]  OBVIOUS
  <2>2. r.slug = g /\ r.version = v /\ r.at = "drop"  BY <2>1
  <2>3. /\ docs' = [docs EXCEPT ![d] = [slug |-> g, version |-> v]]
        /\ requests' = Append(requests, r) /\ UNCHANGED files
        BY <1>1, <2>1 DEF Save
  <2>4. Matches(f) /\ (docs[d] # None /\ docs[d].slug = f => f = g)
        BY <1>1 DEF Save, ClearSlugsMatch
  <2>5. docs'[d] # None /\ docs'[d].slug = g /\ docs'[d].version = v
    <3>1. [slug |-> g, version |-> v] # None  OBVIOUS
    <3> QED  BY <2>3, <3>1
  <2>6. CASE f # g
    <3>1. Holders(f)' = Holders(f) /\ d \notin Holders(f)
          BY <2>3, <2>4, <2>5, <2>6 DEF Holders
    <3>2. \A e \in Holders(f) : docs'[e] = docs[e]  BY <2>3, <3>1 DEF Holders
    <3> QED  BY <2>2, <2>3, <2>4, <2>6, <3>1, <3>2, NewRequestSparesOthers
  <2>7. CASE f = g
    <3>1. ~Busy(f) /\ Holders(f) \subseteq {d}  BY <1>1, <2>7 DEF Save
    <3>2. Holders(f)' = {d}  BY <2>3, <2>5, <2>7, <3>1 DEF Holders
    <3>3. PICK k : k = Len(requests) + 1  OBVIOUS
    <3>4. requests'[k] = r  BY <2>3, <3>3
    <3>5. Agrees(f, k)'  BY <2>2, <2>5, <3>2, <3>4 DEF Agrees, Holds
    <3> QED  BY <2>2, <2>3, <2>7, <3>1, <3>2, <3>3, <3>5, NewRequestMatches
  <2> QED  BY <2>6, <2>7
<1>2. ASSUME NEW d \in Docs, NEW v \in Versions, SaveDraft(d, v)
      PROVE  Matches(f)'
  <2>1. PICK r : r = [slug |-> docs[d].slug, version |-> v, at |-> "drop"]  OBVIOUS
  <2>2. requests' = Append(requests, r) /\ docs' = docs /\ UNCHANGED files
        BY <1>2, <2>1 DEF SaveDraft
  <2>3. r.slug # f /\ Matches(f)  BY <1>2, <2>1 DEF SaveDraft, ClearSlugsMatch
  <2>4. Holders(f)' = Holders(f)  BY <2>2 DEF Holders
  <2> QED  BY <2>2, <2>3, <2>4, NewRequestSparesOthers
<1>3. ASSUME NEW d \in Docs, Delete(d)
      PROVE  Matches(f)'
  <2>1. PICK r : r = [slug |-> docs[d].slug, version |-> None, at |-> "rm drops"]  OBVIOUS
  <2>2. r.slug = docs[d].slug /\ r.at = "rm drops"  BY <2>1
  <2>3. /\ docs' = [docs EXCEPT ![d] = None] /\ docs[d] # None
        /\ requests' = Append(requests, r) /\ UNCHANGED files
        BY <1>3, <2>1 DEF Delete
  <2>4. Matches(f)  BY <1>3 DEF Delete, ClearSlugsMatch
  <2>5. CASE f # docs[d].slug
    <3>1. Holders(f)' = Holders(f) /\ d \notin Holders(f)  BY <2>3, <2>5 DEF Holders
    <3>2. \A e \in Holders(f) : docs'[e] = docs[e]  BY <2>3, <3>1 DEF Holders
    <3> QED  BY <2>2, <2>3, <2>4, <2>5, <3>1, <3>2, NewRequestSparesOthers
  <2>6. CASE f = docs[d].slug
    <3>1. ~Busy(f) /\ Holders(f) = {d}  BY <1>3, <2>6 DEF Delete
    <3>2. Holders(f)' = {}  BY <2>3, <3>1 DEF Holders
    <3>3. PICK k : k = Len(requests) + 1  OBVIOUS
    <3>4. requests'[k] = r  BY <2>3, <3>3
    <3>5. Agrees(f, k)'  BY <2>2, <3>2, <3>4 DEF Agrees
    <3> QED  BY <2>2, <2>3, <2>6, <3>1, <3>2, <3>3, <3>5, NewRequestMatches
  <2> QED  BY <2>5, <2>6
<1>4. ASSUME NEW k \in DOMAIN requests, DropFile(k)
      PROVE  Matches(f)'
  <2>1. /\ Matches(f) /\ Reach(k, "done") /\ requests[k].at = "drop" /\ docs' = docs
        /\ drops' = [drops EXCEPT ![requests[k].slug] = requests[k].version]
        /\ definitions' = definitions
        BY <1>4 DEF DropFile, ClearSlugsMatch
  <2>2. CASE requests[k].slug # f  BY <2>1, <2>2, StepSparesOthers
  <2>3. CASE requests[k].slug = f
    <3>1. Unfinished(k) /\ Holds(f, requests[k].version)
          BY <2>1, <2>3 DEF Matches, Agrees, Unfinished
    <3>2. requests[k].version # None  BY <3>1, HolderTyped DEF Holds, Holders
    <3>3. Holders(f) # {} /\ Effective(f)' = requests[k].version
          BY <2>1, <2>3, <3>1, <3>2 DEF Holds, Effective
    <3> QED  BY <2>1, <2>3, <3>1, <3>3, StepMatches DEF Steps
  <2> QED  BY <2>2, <2>3
<1>5. ASSUME NEW k \in DOMAIN requests, RemoveDrop(k)
      PROVE  Matches(f)'
  <2>1. /\ Matches(f) /\ Reach(k, "rm definitions") /\ requests[k].at = "rm drops"
        /\ drops' = [drops EXCEPT ![requests[k].slug] = None]
        /\ docs' = docs /\ definitions' = definitions
        BY <1>5 DEF RemoveDrop, ClearSlugsMatch
  <2>2. CASE requests[k].slug # f  BY <2>1, <2>2, StepSparesOthers
  <2>3. CASE requests[k].slug = f
    <3>1. Unfinished(k) /\ Holders(f) = {}  BY <2>1, <2>3 DEF Matches, Agrees, Unfinished
    <3>2. Holders(f)' = {} /\ drops'[f] = None  BY <2>1, <2>3, <3>1 DEF Holders
    <3>3. requests'[k].at = "rm definitions"  BY <2>1, RequestTyped DEF Reach, Request
    <3>4. Agrees(f, k)'  BY <3>2, <3>3 DEF Agrees
    <3> QED  BY <2>1, <2>3, <3>1, <3>4, StepMatches DEF Steps
  <2> QED  BY <2>2, <2>3
<1>6. ASSUME NEW k \in DOMAIN requests, RemoveDefinition(k)
      PROVE  Matches(f)'
  <2>1. /\ Matches(f) /\ Reach(k, "done") /\ requests[k].at = "rm definitions"
        /\ definitions' = [definitions EXCEPT ![requests[k].slug] = None]
        /\ docs' = docs /\ drops' = drops
        BY <1>6 DEF RemoveDefinition, ClearSlugsMatch
  <2>2. CASE requests[k].slug # f  BY <2>1, <2>2, StepSparesOthers
  <2>3. CASE requests[k].slug = f
    \* Its drop is gone since its first step, and nobody dropped another since.
    <3>1. Unfinished(k) /\ Holders(f) = {} /\ drops[f] = None
          BY <2>1, <2>3 DEF Matches, Agrees, Unfinished
    <3>2. Effective(f)' = None  BY <2>1, <2>3, <3>1 DEF Effective
    <3> QED  BY <2>1, <2>3, <3>1, <3>2, StepMatches DEF Steps
  <2> QED  BY <2>2, <2>3
<1>7. ASSUME NEW k \in DOMAIN requests, Lose(k)
      PROVE  Matches(f)'
  <2>1. /\ Matches(f) /\ Reach(k, "lost") /\ requests[k].slug # f
        /\ docs' = docs /\ UNCHANGED files
        BY <1>7 DEF Lose, ClearSlugsMatch
  <2> QED  BY <2>1, StepSparesOthers DEF files
<1>8. ASSUME NEW e \in Enablers, List(e) \/ Expand(e) \/ Sleep(e)
      PROVE  Matches(f)'
  <2>1. docs' = docs /\ requests' = requests /\ murky' = murky /\ UNCHANGED files
        BY <1>8 DEF List, Expand, Sleep
  <2> QED  BY <2>1, UnmovedMatches DEF files, Effective, ClearSlugsMatch
<1>9. ASSUME NEW e \in Enablers, NEW g \in batch[e], Move(e, g)
      PROVE  Matches(f)'
  <2>1. docs' = docs /\ requests' = requests /\ Matches(f)  BY <1>9 DEF Move, ClearSlugsMatch
  <2>2. Effective(f)' = Effective(f) /\ (drops[f] = None => drops'[f] = None)
        BY <1>9 DEF Move, Effective, files
  <2> QED  BY <2>1, <2>2, UnmovedMatches
<1>10. ASSUME NEW s \in Servers, StartLoad(s) \/ LoadStep(s) \/ Restart(s)
       PROVE  Matches(f)'
  <2>1. docs' = docs /\ requests' = requests /\ murky' = murky /\ UNCHANGED files
        BY <1>10 DEF StartLoad, LoadStep, Import, FinishLoad, Restart
  <2> QED  BY <2>1, UnmovedMatches DEF files, Effective, ClearSlugsMatch
<1>11. CASE UNCHANGED vars
       BY <1>11, UnmovedMatches DEF vars, files, Effective, ClearSlugsMatch
<1> QED  BY <1>1, <1>2, <1>3, <1>4, <1>5, <1>6, <1>7, <1>8, <1>9, <1>10, <1>11
         DEF Next, RequestStep, EnablerStep

-----------------------------------------------------------------------------
(* The theorems *)

LEMMA Inductive == Spec => []IInv
<1>1. Init => IInv
  <2> SUFFICES ASSUME Init PROVE FailsAfterDelete /\ ClearSlugsMatch  BY InitTyped DEF IInv
  <2>1. FailsAfterDelete  BY DEF Init, FailsAfterDelete, Importing
  <2>2. ClearSlugsMatch
        BY DEF Init, ClearSlugsMatch, Matches, Holders, Busy, Effective, NoFiles
  <2> QED  BY <2>1, <2>2
<1>2. IInv /\ [Next]_vars => IInv'
  <2> SUFFICES ASSUME IInv, [Next]_vars PROVE IInv'  OBVIOUS
  <2>1. DatabaseTyped /\ VolumeTyped /\ ServersTyped  BY TypeInParts DEF IInv
  <2>2. DatabaseTyped' /\ VolumeTyped' /\ ServersTyped'
        BY <2>1, NextDatabaseTyped, NextVolumeTyped, NextServersTyped
  <2>3. TypeOK'  BY <2>2 DEF TypeOK, DatabaseTyped, VolumeTyped, ServersTyped, Request
  <2>4. FailsAfterDelete'  BY <2>1, NextFailsAfterDelete DEF IInv
  <2>5. ClearSlugsMatch'  BY <2>1, NextClearSlugsMatch DEF IInv
  <2> QED  BY <2>3, <2>4, <2>5 DEF IInv
<1> QED  BY <1>1, <1>2, PTL DEF Spec

\* The state of the pipeline keeps its type.
THEOREM TypeCorrect == Spec => []TypeOK
<1>1. IInv => TypeOK  BY DEF IInv
<1> QED  BY <1>1, Inductive, PTL

\* A load fails only when a definition was deleted while it ran, whatever saves,
\* enablers and other servers do meanwhile.
THEOREM LoadsFailOnlyOnDelete == Spec => []LoadFailsOnlyOnDelete
<1>1. IInv => LoadFailsOnlyOnDelete  BY DEF IInv, FailsAfterDelete, LoadFailsOnlyOnDelete
<1> QED  BY <1>1, Inductive, PTL

\* The files follow the documents: for any number of documents, enablers,
\* requests and losses, the last version saved of an entity is the one the next
\* load finds, and a deleted entity leaves no file, wherever the enablers are.
THEOREM FilesAlwaysFollowDocuments == Spec => []FilesFollowDocuments
<1>1. IInv => FilesFollowDocuments
  <2> SUFFICES ASSUME IInv, NEW f \in Slugs \ murky, ~Busy(f)
               PROVE  Effective(f) = Wanted(f)
      BY DEF FilesFollowDocuments
  <2>1. Matches(f)  BY DEF IInv, ClearSlugsMatch
  <2>2. CASE Holders(f) = {}  BY <2>1, <2>2 DEF Matches, Wanted
  <2>3. CASE Holders(f) # {}
    <3> DEFINE holder == CHOOSE d \in Holders(f) : TRUE
    <3>1. holder \in Holders(f)  BY <2>3
    <3>2. PICK d \in Holders(f) : docs[d].version = Effective(f)
          BY <2>1, <2>3 DEF Matches, Holds
    <3>3. d = holder  BY <2>1, <3>1, <3>2 DEF Matches
    <3> QED  BY <2>3, <3>2, <3>3 DEF Wanted
  <2> QED  BY <2>2, <2>3
<1> QED  BY <1>1, Inductive, PTL

-----------------------------------------------------------------------------
(* The form in which a custom entity is defined: what it saves was on its  *)
(* screen, and an extension nobody picked a collection for inherits one.   *)

\* Only a form without a kind is empty for the lack of one.
KindsComeFirst ==
    /\ form.kind = "" => form.json = "Empty"
    /\ \A d \in Edited : stored[d] # Nothing => stored[d].kind # ""

\* The form holds the last text shown that could be parsed; another text is
\* shown only with an error.
TextIsHeld ==
    open # Nothing /\ Shown(form, selected) =>
        seen = ContentOf(form, template) /\ (IF text = "Bad" THEN jsonError ELSE text = seen)

\* Where the collection of the open extension comes from.
Inherited ==
    /\ template \in picks \cup {Placeholder}
    /\ open # Nothing /\ ContentOf(form, template) \in Targets =>
          IF last # Nothing
          THEN ContentOf(form, template) = last
          ELSE ContentOf(form, template) \in picks \cup {Placeholder}

EditorInvariant == EditorTypeOK /\ KindsComeFirst /\ TextIsHeld /\ Inherited

\* What a form holds is the content of a text.
LEMMA ContentType ==
    ASSUME EditorTypeOK
    PROVE  ContentOf(form, template) \in Contents
BY DEF EditorTypeOK, ContentOf, Contents

THEOREM EditorInvariantInit == EditorInit => EditorInvariant
<1> SUFFICES ASSUME EditorInit PROVE EditorInvariant
    OBVIOUS
<1>1. EditorTypeOK
    BY DEF EditorInit, EditorTypeOK, Blank, Definition, Contents, Targets
<1>2. KindsComeFirst /\ TextIsHeld /\ Inherited
    BY DEF EditorInit, KindsComeFirst, TextIsHeld, Inherited, Blank
<1> QED BY <1>1, <1>2 DEF EditorInvariant

THEOREM EditorInvariantStep == EditorInvariant /\ [EditorNext]_editorVars => EditorInvariant'
<1> SUFFICES ASSUME EditorInvariant, [EditorNext]_editorVars PROVE EditorInvariant'
    OBVIOUS
<1> USE EditorAssumption DEF EditorInvariant
<1>0. /\ "Empty" \in Contents /\ "Bad" \notin Contents /\ "Template" \notin Contents
      /\ Looked /\ EditorTypeOK /\ text' \in Contents \cup {"Bad"} => seen' \in Contents
    BY DEF Contents, Plain, Targets, Looked, EditorTypeOK
<1>1. ASSUME NEW d \in Edited, Open(d), Looked PROVE EditorInvariant'
    <2>0. form' \in Definition
        BY <1>1 DEF Open, EditorTypeOK, Blank, Definition, Contents
    <2>1. EditorTypeOK'
        BY <1>0, <1>1, <2>0 DEF Open, EditorTypeOK, Definition, Contents, Targets
    <2>2. KindsComeFirst'
        BY <1>1 DEF Open, KindsComeFirst, Blank
    <2>3. form'.json # "Template"
        BY <2>0 DEF Definition, Contents, Targets, Plain
    <2>4. TextIsHeld' /\ Inherited'
        BY <1>0, <1>1, <2>0, <2>3 DEF Open, Looked, Definition, TextIsHeld, Inherited, ContentOf, Targets
    <2> QED BY <2>1, <2>2, <2>4
<1>2. CASE Leave /\ Looked
    BY <1>0, <1>2 DEF Leave, EditorTypeOK, KindsComeFirst, TextIsHeld, Inherited
<1>3. ASSUME NEW kind \in Kinds, onSelectChange(kind), Looked PROVE EditorInvariant'
    <2>1. EditorTypeOK'
        BY <1>0, <1>3, ContentType
           DEF onSelectChange, Render, getExtensionCollection, EditorTypeOK, ContentOf, Contents, Targets,
               Kinds, Plain
    <2>2. KindsComeFirst' /\ Inherited'
        BY <1>3 DEF onSelectChange, Render, KindsComeFirst, Inherited, ContentOf, Kinds, Targets
    <2>3. /\ open # Nothing /\ jsonError' = jsonError
          /\ ContentOf(form', template') \in Contents
          /\ text' = IF Shown(form, selected) /\ ContentOf(form', template') = ContentOf(form, template)
                     THEN text ELSE ContentOf(form', template')
        BY <1>0, <1>3 DEF onSelectChange, Render, EditorTypeOK, ContentOf, Contents, Targets, Plain, Kinds
    <2>4. TextIsHeld'
        BY <1>0, <1>3, <2>3 DEF TextIsHeld, Looked, Shown
    <2> QED BY <2>1, <2>2, <2>4
<1>4. ASSUME NEW c \in Collections, onExtensionSelectChange(c), Looked PROVE EditorInvariant'
    <2>1. EditorTypeOK'
        BY <1>0, <1>4, ContentType
           DEF onExtensionSelectChange, Render, EditorTypeOK, ContentOf, Contents, Targets, Kinds
    <2>2. KindsComeFirst' /\ TextIsHeld' /\ Inherited'
        BY <1>0, <1>4, ContentType DEF onExtensionSelectChange, Looked, Render, KindsComeFirst, TextIsHeld, Inherited, Shown,
                    ContentOf, Targets
    <2> QED BY <2>1, <2>2
<1>5. ASSUME NEW content \in Contents, onEditorChange(content), Looked PROVE EditorInvariant'
    <2>1. EditorTypeOK'
        BY <1>0, <1>5 DEF onEditorChange, getExtensionCollection, EditorTypeOK, Contents, Targets
    <2>2. KindsComeFirst' /\ TextIsHeld' /\ Inherited'
        BY <1>0, <1>5 DEF onEditorChange, Looked, EditorTypeOK, KindsComeFirst, TextIsHeld, Inherited, Shown, ContentOf,
                    Contents, Targets, Plain
    <2> QED BY <2>1, <2>2
<1>6. CASE onEditorChangeBad /\ Looked
    BY <1>0, <1>6 DEF onEditorChangeBad, Looked, Shown, ContentOf, EditorTypeOK, KindsComeFirst, TextIsHeld, Inherited
<1>7. ASSUME SubmitForm, Looked, drafts' \subseteq Edited PROVE EditorInvariant'
    <2>1. /\ stored' = [stored EXCEPT ![open] = [form EXCEPT !.json = ContentOf(form, template)]]
          /\ open \in Edited
          /\ form' = [form EXCEPT !.json = ContentOf(form, template)]
          /\ template' = template /\ selected' = selected
        BY <1>7 DEF SubmitForm, Render, EditorTypeOK
    <2>2. ContentOf(form', template') = ContentOf(form, template)
        BY <2>1, ContentType DEF ContentOf, EditorTypeOK, Contents, Targets, Plain
    <2>3. form' \in Definition
        BY <2>1, ContentType DEF EditorTypeOK, Definition
    <2>4. text' \in Contents \cup {"Bad"}
        BY <1>7, <2>2, ContentType DEF SubmitForm, Render, EditorTypeOK
    <2>5. stored' \in [Edited -> Definition \cup {Nothing}]
        BY <2>1, <2>3 DEF EditorTypeOK
    <2>6. EditorTypeOK'
        BY <1>0, <1>7, <2>1, <2>3, <2>4, <2>5 DEF SubmitForm, EditorTypeOK, Definition
    <2>7. form.kind # "" /\ form'.kind = form.kind
        BY <1>7, <2>1 DEF SubmitForm, KindsComeFirst, EditorTypeOK, ContentOf
    <2>8. KindsComeFirst'
        BY <2>1, <2>7 DEF KindsComeFirst, EditorTypeOK
    <2>9. TextIsHeld' /\ Inherited'
        BY <1>0, <1>7, <2>1, <2>2, ContentType DEF SubmitForm, Looked, Render, TextIsHeld, Inherited, Shown
    <2> QED BY <2>6, <2>8, <2>9
<1>8. CASE Reload /\ Looked
    BY <1>0, <1>8 DEF Reload, EditorTypeOK, KindsComeFirst, TextIsHeld, Inherited, Targets
<1>9. CASE UNCHANGED editorVars
    BY <1>9 DEF editorVars, EditorTypeOK, KindsComeFirst, TextIsHeld, Inherited
<1>10. (SaveForm \/ SaveFormAsDraft) => SubmitForm /\ drafts' \subseteq Edited
    BY DEF SaveForm, SaveFormAsDraft, SubmitForm, EditorTypeOK
<1> QED BY <1>1, <1>2, <1>3, <1>4, <1>5, <1>6, <1>7, <1>8, <1>9, <1>10 DEF EditorNext, Handled

THEOREM EditorInvariantHolds == EditorSpec => []EditorInvariant
BY EditorInvariantInit, EditorInvariantStep, PTL DEF EditorSpec

\* Every variable of the field keeps its type.
THEOREM EditorTypeCorrect == EditorSpec => []EditorTypeOK
BY EditorInvariantHolds, PTL DEF EditorInvariant

\* Only a save changes what is stored, and only the open document's.
LEMMA OnlySavesStore ==
    ASSUME EditorInvariant, [EditorNext]_editorVars, NEW d \in Edited,
           (stored'[d] # stored[d]) \/ (drafts' # drafts /\ d = open)
    PROVE  /\ (SaveForm \/ SaveFormAsDraft) /\ d = open
           /\ stored'[d].json = ContentOf(form, template)
<1>1. SaveForm \/ SaveFormAsDraft
    BY DEF EditorNext, Handled, editorVars, Open, Leave, onSelectChange, onExtensionSelectChange,
           onEditorChange, onEditorChangeBad, Reload
<1>2. SubmitForm /\ open \in Edited /\ d = open
    BY <1>1 DEF SaveForm, SaveFormAsDraft, SubmitForm, EditorInvariant, EditorTypeOK
<1> QED BY <1>1, <1>2 DEF SubmitForm, EditorInvariant, EditorTypeOK

\* What the form stores is the last text on its screen that could be parsed,
\* and what it publishes the text still there, but for an extension of nothing
\* selected.
THEOREM SavedWasAlwaysShown == EditorSpec => SavedWasShown
<1>1. EditorInvariant /\ [EditorNext]_editorVars =>
          [\A d \in Edited : (stored'[d] # stored[d]) \/ (drafts' # drafts /\ d = open) =>
              IF Shown(form, selected)
              THEN stored'[d].json = seen /\ (d \notin drafts' => text = seen)
              ELSE form.kind = "ExtensionEntity" /\ selected = Nothing]_editorVars
    <2> SUFFICES ASSUME EditorInvariant, [EditorNext]_editorVars, NEW d \in Edited,
                        (stored'[d] # stored[d]) \/ (drafts' # drafts /\ d = open)
                 PROVE  IF Shown(form, selected)
                        THEN stored'[d].json = seen /\ (d \notin drafts' => text = seen)
                        ELSE form.kind = "ExtensionEntity" /\ selected = Nothing
        OBVIOUS
    <2>1. (SaveForm \/ SaveFormAsDraft) /\ d = open /\ stored'[d].json = ContentOf(form, template)
        BY OnlySavesStore
    <2>2. open # Nothing /\ ContentOf(form, template) # "Empty"
        BY <2>1 DEF SaveForm, SaveFormAsDraft, SubmitForm
    <2>3. d \notin drafts' => ~jsonError
        BY <2>1 DEF SaveForm, SaveFormAsDraft
    <2>4. CASE Shown(form, selected)
        BY <2>1, <2>2, <2>3, <2>4 DEF EditorInvariant, TextIsHeld
    <2>5. CASE ~Shown(form, selected)
        BY <2>2, <2>5 DEF EditorInvariant, KindsComeFirst, Shown, ContentOf
    <2> QED BY <2>4, <2>5
<1> QED BY <1>1, EditorInvariantHolds, PTL DEF EditorSpec, SavedWasShown

\* An extension nobody picked or typed a collection for inherits that of the
\* template.
THEOREM UnpickedAlwaysInherit == EditorSpec => UnpickedExtensionsInherit
<1>1. EditorInvariant /\ [EditorNext]_editorVars =>
          [\A d \in Edited : stored'[d] # stored[d] /\ stored'[d].json \in Targets =>
              IF last # Nothing
              THEN stored'[d].json = last
              ELSE stored'[d].json \in picks \cup {Placeholder}]_editorVars
    BY OnlySavesStore DEF SaveForm, SaveFormAsDraft, SubmitForm, EditorInvariant, Inherited
<1> QED BY <1>1, EditorInvariantHolds, PTL DEF EditorSpec, UnpickedExtensionsInherit
=============================================================================
