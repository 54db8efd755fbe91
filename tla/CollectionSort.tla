--------------------------- MODULE CollectionSort ---------------------------
(***************************************************************************)
(* In which order ConfigUtils applies the definitions of collections it    *)
(* has read: those that relate to nothing, then those that relate to       *)
(* collections of the program only, then each of the others after those it *)
(* relates to.  What cannot be reached that way is left out.  traverse()   *)
(* walks a list from which the calls of traverse() inside it take elements *)
(* out, one at a time.                                                     *)
(***************************************************************************)
EXTENDS Integers, SequencesExt, Subsequences

CONSTANT NoBase  (* a definition of a new collection extends nothing *)

Extension(d) == d.extends # NoBase
SlugsOf(ds) == {ds[i].slug : i \in DOMAIN ds}

\* Only the fields of a new collection count: what an extension adds does not.
GetRelationsForCollection(d) ==
    IF Extension(d) THEN {} ELSE UNION {ToSet(d.fields[i].to) : i \in DOMAIN d.fields}

\* What has been placed, in the order in which it is applied.
Sorted(graph) == graph.none \o graph.base \o graph.custom

\* Mutant: a definition is placed as soon as the others have been seen.
Place_Eager(d, config, related, graph) ==
    IF d.slug \in SlugsOf(Sorted(graph)) THEN "placed"
    ELSE IF GetRelationsForCollection(d) \cap config # {} THEN "base"
    ELSE IF GetRelationsForCollection(d) = {} THEN "none"
    ELSE "later"

\* Where in the graph a definition belongs, seen from a call of traverse() that
\* began with these definitions placed.
Place(d, config, related, graph) ==
    LET relations == GetRelationsForCollection(d)
    IN  IF d.slug \in SlugsOf(Sorted(graph)) THEN "placed"
        ELSE IF relations = {} THEN "none"
        ELSE IF relations \subseteq config THEN "base"
        ELSE IF relations \subseteq config \cup related THEN "custom"
        ELSE "later"

\* A call of traverse(): the position it has come to, and how many definitions were
\* left and which were placed when it began.
Call(left, graph) == [at |-> 1, length |-> Len(left), related |-> SlugsOf(Sorted(graph))]

Put(graph, place, d) == [graph EXCEPT ![place] = Append(@, d)]

\* A definition that is placed is taken out, and what is left is traversed before
\* the call goes on with the position after it.
TakeOut(work, i, place) ==
    LET left == RemoveAt(work.left, i)
        graph == IF place = "placed" THEN work.graph ELSE Put(work.graph, place, work.left[i])
    IN  [left |-> left, graph |-> graph, calls |-> Append(work.calls, Call(left, graph))]

\* One step of the innermost call: forEach visits the positions up to the first
\* length, as long as they exist.
Traverse(config, work) ==
    LET n == Len(work.calls)
        call == work.calls[n]
        place == Place(work.left[call.at], config, call.related, work.graph)
        next == [work EXCEPT !.calls[n].at = @ + 1]
    IN  IF n = 0 THEN work
        ELSE IF call.at > call.length \/ call.at > Len(work.left) THEN [work EXCEPT !.calls = Front(@)]
        ELSE IF place = "later" THEN next
        ELSE TakeOut(next, call.at, place)

\* Mutant: the definitions left over are not traversed again.
SortCollectionsByRelations_OnePass(config, incoming) ==
    SelectSeq(incoming, LAMBDA d : GetRelationsForCollection(d) \subseteq config \cup SlugsOf(incoming))

\* There are at most so many calls as definitions and one, and none has more steps.
SortCollectionsByRelations(config, incoming) ==
    LET nothing == [none |-> <<>>, base |-> <<>>, custom |-> <<>>]
        steps == (Len(incoming) + 1) * (Len(incoming) + 1)
        after[n \in 0 .. steps] ==
            IF n = 0 THEN [left |-> incoming, graph |-> nothing, calls |-> <<Call(incoming, nothing)>>]
            ELSE Traverse(config, after[n - 1])
    IN  Sorted(after[steps].graph)

-----------------------------------------------------------------------------
\* The definitions that can be sorted are the least set that has all those whose
\* relations are in it or in the program.
Closed(config, ds, all) ==
    \A d \in all : GetRelationsForCollection(d) \subseteq config \cup {e.slug : e \in ds} => d \in ds
Resolvable(config, all) == {d \in all : \A ds \in SUBSET all : Closed(config, ds, all) => d \in ds}
=============================================================================
