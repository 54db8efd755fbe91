--------------------------- MODULE WebHooks_proofs ---------------------------
(***************************************************************************)
(* Proofs about the webhooks of a deployment, for any servers, documents,  *)
(* hook points, rows, variables and page size.                             *)
(*                                                                         *)
(* Constructing a registry only adds to it and meets every row it goes     *)
(* through; enriching attaches all that is registered.  The invariant then *)
(* follows a server through its reads of the pages: what it has read are   *)
(* the rows of the documents that have not changed, and together with what *)
(* it still waits for they are the pages of the table.                     *)
(***************************************************************************)
EXTENDS WebHooks, Subsequences_proofs

-----------------------------------------------------------------------------
(* Rows *)

Regs == [Points -> Seq(Targets)]
Hooks == (Targets \ {Empty}) \cup {Own}
HookLists == [Points -> Seq(Hooks)]

LEMMA RowType ==
    ASSUME NEW row \in AllRows
    PROVE  /\ row.point \in Points \cup {NoPoint} /\ row.type \in {"http", "rabbitmq"}
           /\ TargetOf(row) \in Targets
<1>1. PICK rows \in Contents : row \in ToSet(rows)  BY DEF AllRows
<1> QED  BY <1>1, WebHooksAssumption DEF ToSet, Targets

LEMMA RowsType == \A rows \in Contents : rows \in Seq(AllRows) /\ ToSet(rows) \subseteq AllRows
<1> SUFFICES ASSUME NEW rows \in Contents PROVE rows \in Seq(AllRows) /\ ToSet(rows) \subseteq AllRows
    OBVIOUS
<1>1. ToSet(rows) \subseteq AllRows  BY DEF AllRows
<1>2. rows \in Seq(ToSet(rows))  BY WebHooksAssumption
<1> QED  BY <1>1, <1>2

LEMMA DeploymentType == Deployment \in Regs
<1> DEFINE Parts == UNION {ToSet(Deployment[p]) : p \in Points}
<1>1. Deployment \in [Points -> Seq(Parts)]  BY WebHooksAssumption
<1>2. Parts \subseteq Targets  BY DEF Targets
<1> HIDE DEF Parts
<1> QED  BY <1>1, <1>2 DEF Regs

-----------------------------------------------------------------------------
(* The registry *)

Grows(reg, later) == \A p \in Points : IsPrefix(reg[p], later[p])

\* The constructor leaves such a row alone.
Meets(reg, row) == TargetOf(row) = Empty \/ Registered(reg[row.point], row)

LEMMA GrowsIsTransitive ==
    ASSUME NEW S, NEW f \in [Points -> Seq(S)], NEW g \in [Points -> Seq(S)], NEW h \in [Points -> Seq(S)],
           Grows(f, g), Grows(g, h)
    PROVE  Grows(f, h)
<1> SUFFICES ASSUME NEW p \in Points PROVE IsPrefix(f[p], h[p])  BY DEF Grows
<1>1. f[p] \in Seq(S) /\ g[p] \in Seq(S) /\ h[p] \in Seq(S)  OBVIOUS
<1>2. IsPrefix(f[p], g[p]) /\ IsPrefix(g[p], h[p])  BY DEF Grows
<1> QED  BY <1>1, <1>2, PrefixIsTransitive

LEMMA GrowsIsReflexive ==
    ASSUME NEW S, NEW f \in [Points -> Seq(S)]
    PROVE  Grows(f, f)
<1> SUFFICES ASSUME NEW p \in Points PROVE IsPrefix(f[p], f[p])  BY DEF Grows
<1>1. f[p] \in Seq(S) /\ Len(f[p]) \in Nat  OBVIOUS
<1> QED  BY <1>1 DEF IsPrefix

LEMMA MeetsLasts ==
    ASSUME NEW reg \in Regs, NEW later \in Regs, Grows(reg, later),
           NEW row \in AllRows, row.point \in Points, Meets(reg, row)
    PROVE  Meets(later, row)
<1> DEFINE p == row.point
<1>1. reg[p] \in Seq(Targets) /\ later[p] \in Seq(Targets) /\ IsPrefix(reg[p], later[p])
      BY DEF Regs, Grows
<1>2. \A x : Contains(reg[p], x) => Contains(later[p], x)  BY <1>1, PrefixContains
<1> QED  BY <1>2 DEF Meets, Registered

LEMMA RegisterWorks ==
    ASSUME NEW reg \in Regs, NEW row \in AllRows, row.point \in Points
    PROVE  /\ Register(reg, row) \in Regs /\ Grows(reg, Register(reg, row))
           /\ Meets(Register(reg, row), row)
<1> DEFINE p == row.point
           t == TargetOf(row)
           new == Register(reg, row)
<1>1. /\ t \in Targets /\ reg[p] \in Seq(Targets) /\ NewTargets(row) \in Seq(Targets)
      /\ Append(reg[p], t) \in Seq(Targets)
      BY RowType DEF Regs, NewTargets
<1>2. \A s \in Seq(Targets) : Contains(s, t) => t = Empty \/ Registered(s, row)
      BY RowType DEF TargetOf, Registered
<1>3. CASE reg[p] = <<>>
  <2>1. new = [reg EXCEPT ![p] = NewTargets(row)]  BY <1>3 DEF Register, Added
  <2>2. new \in Regs /\ new[p] = NewTargets(row) /\ \A q \in Points \ {p} : new[q] = reg[q]
        BY <2>1, <1>1 DEF Regs
  <2>3. IsPrefix(reg[p], NewTargets(row))  BY <1>3, <1>1 DEF IsPrefix
  <2>4. t = Empty \/ Contains(NewTargets(row), t)  BY DEF NewTargets, Contains
  <2>5. Grows(reg, new)  BY <2>2, <2>3, GrowsIsReflexive DEF Grows, Regs
  <2> QED  BY <2>2, <2>4, <2>5, <1>1, <1>2 DEF Meets
<1>4. CASE reg[p] # <<>> /\ Registered(reg[p], row)
  <2>1. new = reg  BY <1>4 DEF Register, Added, Regs
  <2> QED  BY <2>1, <1>4, GrowsIsReflexive DEF Meets, Regs
<1>5. CASE reg[p] # <<>> /\ ~Registered(reg[p], row)
  <2>1. new = [reg EXCEPT ![p] = Append(reg[p], t)]  BY <1>5 DEF Register, Added
  <2>2. new \in Regs /\ new[p] = Append(reg[p], t) /\ \A q \in Points \ {p} : new[q] = reg[q]
        BY <2>1, <1>1 DEF Regs
  <2>3. <<t>> \in Seq(Targets) /\ Append(reg[p], t) = reg[p] \o <<t>>
    <3> HIDE DEF t
    <3>1. <<t>> \in Seq(Targets)  BY <1>1
    <3>2. Append(reg[p], t) = reg[p] \o <<t>>  BY <1>1, AppendIsConcat
    <3> QED  BY <3>1, <3>2
  <2>4. IsPrefix(reg[p], Append(reg[p], t))  BY <2>3, <1>1, PrefixOfConcat
  <2>5. Contains(Append(reg[p], t), t)
    <3>1. /\ Len(reg[p]) \in Nat /\ Len(Append(reg[p], t)) = Len(reg[p]) + 1
          /\ Append(reg[p], t)[Len(reg[p]) + 1] = t
          BY <1>1
    <3> QED  BY <3>1 DEF Contains
  <2>6. Grows(reg, new)  BY <2>2, <2>4, GrowsIsReflexive DEF Grows, Regs
  <2> QED  BY <2>2, <2>5, <2>6, <1>1, <1>2 DEF Meets
<1> QED  BY <1>3, <1>4, <1>5

-----------------------------------------------------------------------------
\* The constructor goes through all rows, or those before the first without an
\* event: each of them has a hook point.
LEMMA FaultWorks ==
    ASSUME NEW rows \in Seq(AllRows)
    PROVE  /\ LastOf(rows) \in 0 .. Len(rows) /\ (Fault(rows) = 0 => LastOf(rows) = Len(rows))
           /\ \A k \in 1 .. LastOf(rows) : rows[k].point \in Points
<1> DEFINE I == {k \in 1 .. Len(rows) : rows[k].point = NoPoint}
<1>1. Len(rows) \in Nat /\ \A k \in 1 .. Len(rows) : rows[k] \in AllRows  OBVIOUS
<1>2. \A k \in 1 .. Len(rows) : k \notin I => rows[k].point \in Points  BY <1>1, RowType
<1>3. CASE I = {}
  <2>1. Fault(rows) = 0  BY <1>3 DEF Fault, SelectInSeq
  <2> QED  BY <2>1, <1>1, <1>2, <1>3 DEF LastOf
<1>4. CASE I # {}
  <2>1. Fault(rows) = Min(I)  BY <1>4 DEF Fault, SelectInSeq
  <2>2. I \in SUBSET Nat  OBVIOUS
  <2>3. Min(I) \in I /\ \A k \in I : Min(I) <= k
    <3> HIDE DEF I
    <3> QED  BY <2>2, <1>4, LeastElement
  <2>4. Fault(rows) \in 1 .. Len(rows) /\ LastOf(rows) = Fault(rows) - 1  BY <2>1, <2>3 DEF LastOf
  <2>5. \A k \in 1 .. LastOf(rows) : k \notin I /\ k \in 1 .. Len(rows)  BY <2>1, <2>3, <2>4, <1>1
  <2> QED  BY <2>4, <2>5, <1>1, <1>2
<1> QED  BY <1>3, <1>4

LEMMA ConstructWorks ==
    ASSUME NEW reg \in Regs, NEW rows \in Seq(AllRows)
    PROVE  /\ Construct(reg, rows) \in Regs /\ Grows(reg, Construct(reg, rows))
           /\ Fault(rows) = 0 => \A k \in 1 .. Len(rows) : Meets(Construct(reg, rows), rows[k])
<1> DEFINE last == LastOf(rows)
           step == [n \in 1 .. last |-> [r \in Regs |-> Register(r, rows[n])]]
           after[n \in 0 .. last] == IF n = 0 THEN reg ELSE Register(after[n - 1], rows[n])
<1>1. /\ last \in 0 .. Len(rows) /\ Len(rows) \in Nat /\ last \in Nat
      /\ Fault(rows) = 0 => last = Len(rows)
      /\ \A n \in 1 .. last : rows[n] \in AllRows /\ rows[n].point \in Points
      BY FaultWorks
<1>2. Construct(reg, rows) = after[last]  BY DEF Construct
<1> HIDE DEF last
<1>3. \E f : f = [n \in 0 .. last |-> IF n = 0 THEN reg ELSE Register(f[n - 1], rows[n])]
  <2>1. step \in [1 .. last -> [Regs -> Regs]]
    <3>1. \A n \in 1 .. last, r \in Regs : Register(r, rows[n]) \in Regs  BY <1>1, RegisterWorks
    <3> QED  BY <3>1
  <2> HIDE DEF step, after
  <2>2. PICK f \in [0 .. last -> Regs] : Takes(f, reg, last, step)
        BY <1>1, <2>1, RecursionExists
  <2>3. ASSUME NEW n \in 0 .. last PROVE f[n] = IF n = 0 THEN reg ELSE Register(f[n - 1], rows[n])
    <3>1. CASE n = 0  BY <3>1, <2>2 DEF Takes
    <3>2. CASE n # 0
      <4>1. n \in 1 .. last /\ n - 1 \in 0 .. last  BY <3>2, <1>1
      <4>2. f[n] = step[n][f[n - 1]] /\ f[n - 1] \in Regs  BY <4>1, <2>2 DEF Takes
      <4> QED  BY <3>2, <4>1, <4>2 DEF step
    <3> QED  BY <3>1, <3>2
  <2>4. f = [n \in 0 .. last |-> f[n]]  OBVIOUS
  <2>5. f = [n \in 0 .. last |-> IF n = 0 THEN reg ELSE Register(f[n - 1], rows[n])]
        BY <2>3, <2>4
  <2> QED  BY <2>5
<1>4. after = [n \in 0 .. last |-> IF n = 0 THEN reg ELSE Register(after[n - 1], rows[n])]
      BY <1>3, Zenon DEF after
<1> HIDE DEF after
<1>5. \A n \in 0 .. last : after[n] = IF n = 0 THEN reg ELSE Register(after[n - 1], rows[n])
      BY <1>4, Zenon
<1> DEFINE T == {n \in 0 .. last : /\ after[n] \in Regs /\ Grows(reg, after[n])
                                   /\ \A k \in 1 .. n : Meets(after[n], rows[k])}
<1>6. 0 \in T
  <2>1. after[0] = reg  BY <1>1, <1>5
  <2> QED  BY <2>1, <1>1, GrowsIsReflexive DEF Regs
<1>7. ASSUME NEW n \in 1 .. last, n - 1 \in T PROVE n \in T
  <2> DEFINE r == after[n - 1]
             q == after[n]
  <2>1. r \in Regs /\ Grows(reg, r) /\ \A k \in 1 .. n - 1 : Meets(r, rows[k])  BY <1>7
  <2>2. q = Register(r, rows[n]) /\ n \in 0 .. last  BY <1>1, <1>5
  <2> HIDE DEF r, q
  <2>3. q \in Regs /\ Grows(r, q) /\ Meets(q, rows[n])  BY <1>1, <2>1, <2>2, RegisterWorks
  <2>4. Grows(reg, q)  BY <2>1, <2>3, GrowsIsTransitive DEF Regs
  <2>5. ASSUME NEW k \in 1 .. n PROVE Meets(q, rows[k])
    <3>1. CASE k = n  BY <3>1, <2>3
    <3>2. CASE k # n
      <4>1. k \in 1 .. n - 1 /\ k \in 1 .. last  BY <3>2, <1>1
      <4> QED  BY <4>1, <1>1, <2>1, <2>3, MeetsLasts
    <3> QED  BY <3>1, <3>2
  <2> QED  BY <2>2, <2>3, <2>4, <2>5 DEF q
<1> HIDE DEF T
<1>8. last \in T
  <2>1. 0 .. last \subseteq T  BY <1>1, <1>6, <1>7, InductionUpTo
  <2> QED  BY <2>1, <1>1
<1> QED  BY <1>1, <1>2, <1>8 DEF T

-----------------------------------------------------------------------------
(* The hooks of the collections *)

\* Every target that is registered for p is attached to it.
Attached(reg, hooks, p) == \A t \in Targets \ {Empty} : Contains(reg[p], t) => Contains(hooks[p], t)

LEMMA EnrichedWorks ==
    ASSUME NEW hooks \in HookLists, NEW reg \in Regs
    PROVE  /\ Enriched(hooks, reg) \in HookLists /\ Grows(hooks, Enriched(hooks, reg))
           /\ \A p \in Points : Attached(reg, Enriched(hooks, reg), p)
<1> DEFINE later == Enriched(hooks, reg)
<1>1. ASSUME NEW p \in Points
      PROVE  /\ Named(reg[p]) \in Seq(Hooks)
             /\ ToSet(Named(reg[p])) = ToSet(reg[p]) \ {Empty}
  <2>1. reg[p] \in Seq(Targets)  BY DEF Regs
  <2> DEFINE T == ToSet(reg[p]) \ {Empty}
  <2>2. Among(reg[p], T) \in Seq(Targets \cap T) /\ ToSet(Among(reg[p], T)) = ToSet(reg[p]) \cap T
        BY <2>1, AmongElements
  <2>3. Targets \cap T \subseteq Hooks  BY DEF Hooks
  <2>4. Named(reg[p]) = Among(reg[p], T)  BY DEF Named
  <2>5. ToSet(reg[p]) \cap T = T  OBVIOUS
  <2> HIDE DEF T
  <2>6. Named(reg[p]) \in Seq(Hooks)  BY <2>2, <2>3, <2>4
  <2> QED  BY <2>2, <2>4, <2>5, <2>6 DEF T
<1>2. ASSUME NEW p \in Points
      PROVE  later[p] = hooks[p] \o Named(reg[p]) /\ hooks[p] \in Seq(Hooks)
      BY DEF Enriched, HookLists
<1>3. ASSUME NEW p \in Points
      PROVE  /\ later[p] \in Seq(Hooks) /\ IsPrefix(hooks[p], later[p])
             /\ ToSet(later[p]) = ToSet(hooks[p]) \cup ToSet(Named(reg[p]))
  <2> DEFINE a == hooks[p]
             b == Named(reg[p])
             c == later[p]
  <2>1. a \in Seq(Hooks) /\ b \in Seq(Hooks) /\ c = a \o b  BY <1>1, <1>2
  <2> HIDE DEF a, b, c
  <2>2. c \in Seq(Hooks) /\ ToSet(c) = ToSet(a) \cup ToSet(b)  BY <2>1, ToSetConcat
  <2>3. IsPrefix(a, c)  BY <2>1, PrefixOfConcat
  <2> QED  BY <2>2, <2>3 DEF a, b, c
<1>4. later \in HookLists  BY <1>3 DEF HookLists, Enriched
<1>5. Grows(hooks, later)  BY <1>3 DEF Grows
<1>6. ASSUME NEW p \in Points PROVE Attached(reg, later, p)
  <2>1. \A t : Contains(reg[p], t) => t \in ToSet(reg[p])
    <3>1. reg[p] \in Seq(Targets)  BY DEF Regs
    <3> QED  BY <3>1 DEF Contains, ToSet
  <2>2. \A t : t \in ToSet(later[p]) => Contains(later[p], t)
    <3>1. later[p] \in Seq(Hooks)  BY <1>3
    <3> HIDE DEF later
    <3> QED  BY <3>1 DEF Contains, ToSet
  <2> HIDE DEF later
  <2> QED  BY <1>1, <1>3, <2>1, <2>2 DEF Attached
<1> QED  BY <1>4, <1>5, <1>6

-----------------------------------------------------------------------------
(* The invariant *)

\* A collection keeps the hook it brought itself, and first.
OwnIsFirst == \A s \in Servers, p \in Points : live[s][p] # <<>> /\ live[s][p][1] = Own

\* A save that was not cut off was taken by a server that is still up.
SavesAreServed ==
    \A k \in DOMAIN saves : saves[k].status \in {"written", "handled", "thrown"} =>
        phase[saves[k].server] = "serving"

\* What a server has read and what it waits for are the first so many pages.
PagesAreCounted ==
    \A s \in Servers :
        IF phase[s] = "pages" THEN \E n \in Nat : DOMAIN pages[s] \cup unread[s] = 1 .. n
        ELSE DOMAIN pages[s] = {} /\ unread[s] = {}

\* While the table stays, they are the pages of the table, and those that were
\* read have the rows of the documents that have not changed.
ShownOn(s, i) ==
    \A j \in OnPage(table, PageSize, i) :
        table[j] \in untouched[s] => ToSet(content[table[j]]) \subseteq ToSet(pages[s][i])
PagesFollowTable ==
    \A s \in Servers : phase[s] = "pages" /\ ~shifted[s] =>
        /\ untouched[s] \subseteq ToSet(table)
        /\ DOMAIN pages[s] \cup unread[s] = {1} \cup 2 .. TotalPages
        /\ \A i \in DOMAIN pages[s] : ShownOn(s, i)

Inv ==
    /\ TypeOK /\ OwnIsFirst /\ SavesAreServed /\ PagesAreCounted /\ PagesFollowTable
    /\ AnsweredSavesAreRun /\ BootRunsStoredHooks

-----------------------------------------------------------------------------
(* Reads *)

LEMMA RowsOnWorks ==
    ASSUME TypeOK, NEW i \in Nat \ {0}
    PROVE  /\ RowsOn(i) \in Seq(AllRows)
           /\ \A j \in OnPage(table, PageSize, i) : ToSet(content[table[j]]) \subseteq ToSet(RowsOn(i))
<1> DEFINE ids == Page(table, PageSize, i)
           lists == [k \in DOMAIN ids |-> content[ids[k]]]
<1>1. table \in Seq(Docs) /\ content \in [Docs -> Contents] /\ PageSize \in Nat \ {0}
      BY WebHooksAssumption DEF TypeOK
<1>2. ids \in Seq(Docs) /\ ToSet(ids) = At(table, OnPage(table, PageSize, i))  BY <1>1, PageShows
<1>3. RowsOn(i) = FlattenSeq(lists)  BY DEF RowsOn
<1> HIDE DEF ids
<1>4. DOMAIN ids = 1 .. Len(ids) /\ Len(ids) \in Nat /\ \A k \in DOMAIN ids : ids[k] \in Docs  BY <1>2
<1>5. \A k \in DOMAIN ids : content[ids[k]] \in Seq(AllRows)  BY <1>1, <1>4, RowsType
<1>6. lists \in Seq(Seq(AllRows)) /\ DOMAIN lists = DOMAIN ids
      /\ \A k \in DOMAIN ids : lists[k] = content[ids[k]]
  <2>1. lists \in [1 .. Len(ids) -> Seq(AllRows)]  BY <1>4, <1>5
  <2> QED  BY <2>1, <1>4
<1> HIDE DEF lists
<1>7. /\ FlattenSeq(lists) \in Seq(AllRows)
      /\ \A x : x \in ToSet(FlattenSeq(lists)) <=> \E k \in DOMAIN lists : x \in ToSet(lists[k])
      BY <1>6, FlattenSeqElements
<1>8. ASSUME NEW j \in OnPage(table, PageSize, i) PROVE ToSet(content[table[j]]) \subseteq ToSet(RowsOn(i))
  <2>1. table[j] \in ToSet(ids)  BY <1>2 DEF At
  <2>2. PICK k \in DOMAIN ids : ids[k] = table[j]  BY <2>1 DEF ToSet
  <2>3. lists[k] = content[table[j]]  BY <2>2, <1>6
  <2> QED  BY <2>2, <2>3, <1>3, <1>6, <1>7
<1> QED  BY <1>3, <1>7, <1>8

LEMMA AnsweredWorks ==
    ASSUME TypeOK, NEW s \in Servers, NEW i \in Nat \ {0}
    PROVE  /\ DOMAIN Answered(s, i) = DOMAIN pages[s] \cup {i}
           /\ Answered(s, i) \in [DOMAIN pages[s] \cup {i} -> Seq(AllRows)]
           /\ Answered(s, i)[i] = RowsOn(i)
           /\ \A k \in DOMAIN pages[s] \ {i} : Answered(s, i)[k] = pages[s][k]
<1>1. pages[s] \in [DOMAIN pages[s] -> Seq(AllRows)]  BY DEF TypeOK
<1>2. RowsOn(i) \in Seq(AllRows)  BY RowsOnWorks
<1> QED  BY <1>1, <1>2 DEF Answered

\* Once all pages are there, their rows are one list.
Held(s) == FlattenSeq(pages[s])
LEMMA HeldWorks ==
    ASSUME TypeOK, PagesAreCounted, NEW s \in Servers, phase[s] = "pages", unread[s] = {}
    PROVE  /\ Held(s) \in Seq(AllRows)
           /\ \A i \in DOMAIN pages[s] : ToSet(pages[s][i]) \subseteq ToSet(Held(s))
<1>1. PICK n \in Nat : DOMAIN pages[s] = 1 .. n  BY DEF PagesAreCounted
<1>2. pages[s] \in [1 .. n -> Seq(AllRows)]  BY <1>1 DEF TypeOK
<1>3. pages[s] \in Seq(Seq(AllRows))  BY <1>2
<1>4. /\ FlattenSeq(pages[s]) \in Seq(AllRows)
      /\ \A x : x \in ToSet(FlattenSeq(pages[s])) <=> \E i \in DOMAIN pages[s] : x \in ToSet(pages[s][i])
      BY <1>3, FlattenSeqElements
<1> QED  BY <1>4 DEF Held

-----------------------------------------------------------------------------
(* Types *)

LEMMA TypeInit == Init => TypeOK
<1> SUFFICES ASSUME Init PROVE TypeOK  OBVIOUS
<1>1. table \in Seq(Docs) /\ IsInjective(table)
  <2>1. PICK D \in SUBSET Docs : table \in SetToSeqs(D)  BY DEF Init, SetToAllKPermutations
  <2>2. Cardinality(D) \in Nat  BY WebHooksAssumption, FS_Subset, FS_CardinalityType
  <2>3. table \in [1 .. Cardinality(D) -> D]  BY <2>1 DEF SetToSeqs
  <2>4. table \in Seq(Docs)  BY <2>2, <2>3
  <2>5. \A i, j \in 1 .. Cardinality(D) : i # j => table[i] # table[j]  BY <2>1 DEF SetToSeqs
  <2> QED  BY <2>3, <2>4, <2>5 DEF IsInjective
<1>2. env \in [Servers -> [Points -> Seq(Targets)]]  BY DeploymentType DEF Init, Regs
<1>3. live \in [Servers -> [Points -> Seq((Targets \ {Empty}) \cup {Own})]]
  <2>1. <<Own>> \in Seq((Targets \ {Empty}) \cup {Own})  OBVIOUS
  <2> QED  BY <2>1 DEF Init
<1>4. \A s \in Servers : pages[s] = <<>> /\ DOMAIN pages[s] = {}  BY DEF Init
<1>5. <<>> \in [{} -> Seq(AllRows)]  OBVIOUS
<1>6. \A s \in Servers : pages[s] \in [DOMAIN pages[s] -> Seq(AllRows)]  BY <1>4, <1>5
<1>7. deletes \in 0 .. MaxDeletes /\ crashes \in 0 .. MaxCrashes  BY WebHooksAssumption DEF Init
<1>8. starts \in [Servers -> 0 .. MaxAttempts + 1]
  <2>1. 0 \in 0 .. MaxAttempts + 1  BY WebHooksAssumption
  <2> QED  BY <2>1 DEF Init
<1> QED  BY <1>1, <1>2, <1>3, <1>4, <1>6, <1>7, <1>8 DEF Init, TypeOK

LEMMA TypeStep == TypeOK /\ PagesAreCounted /\ [Next]_vars => TypeOK'
<1> SUFFICES ASSUME TypeOK, PagesAreCounted, [Next]_vars PROVE TypeOK'  OBVIOUS
<1> USE DEF db, boot, history
<1>0. /\ phase \in [Servers -> {"down", "page 1", "pages", "serving"}]
      /\ env \in [Servers -> Regs] /\ live \in [Servers -> HookLists]
      /\ DOMAIN pages = Servers /\ DOMAIN unread = Servers
      /\ untouched \in [Servers -> SUBSET Docs] /\ shifted \in [Servers -> BOOLEAN]
      BY DEF TypeOK, Regs, HookLists, Hooks
<1>1. /\ MaxDeletes \in Nat /\ MaxCrashes \in Nat
      /\ deletes \in 0 .. MaxDeletes /\ crashes \in 0 .. MaxCrashes
  <2>1. MaxDeletes \in Nat /\ MaxCrashes \in Nat  BY WebHooksAssumption
  <2>2. deletes \in 0 .. MaxDeletes /\ crashes \in 0 .. MaxCrashes  BY DEF TypeOK
  <2> QED  BY <2>1, <2>2
<1>12. table \in Seq(Docs) /\ IsInjective(table) /\ content \in [Docs -> Contents]  BY DEF TypeOK
<1>13. saves \in Seq(Requests)  BY DEF TypeOK
<1>2. ASSUME NEW s \in Servers, LoadConfig(s) PROVE TypeOK'
  <2> DEFINE own == [p \in Points |-> <<Own>>]
             hooks == Enriched(own, Deployment)
  <2>1. own \in HookLists
    <3>1. <<Own>> \in Seq(Hooks)  BY DEF Hooks
    <3> QED  BY <3>1 DEF HookLists
  <2>2. hooks \in HookLists /\ Deployment \in Regs  BY <2>1, DeploymentType, EnrichedWorks
  <2> HIDE DEF own, hooks
  <2>3. env' \in [Servers -> Regs]  BY <1>0, <1>2, <2>2 DEF LoadConfig
  <2>4. live' = [live EXCEPT ![s] = hooks]  BY <1>2 DEF LoadConfig, hooks, own
  <2>5. live' \in [Servers -> HookLists]  BY <1>0, <2>2, <2>4
  <2>6. phase' \in [Servers -> {"down", "page 1", "pages", "serving"}]  BY <1>0, <1>2 DEF LoadConfig
  <2>7. starts' \in [Servers -> 0 .. MaxAttempts + 1]
    <3>1. starts \in [Servers -> 0 .. MaxAttempts + 1] /\ MaxAttempts \in Nat
          BY WebHooksAssumption DEF TypeOK
    <3>2. starts' = [starts EXCEPT ![s] = starts[s] + 1] /\ starts[s] <= MaxAttempts
          BY <1>2 DEF LoadConfig
    <3>3. starts[s] + 1 \in 0 .. MaxAttempts + 1  BY <3>1, <3>2
    <3> QED  BY <3>1, <3>2, <3>3
  <2> QED  BY <1>2, <2>3, <2>5, <2>6, <2>7 DEF TypeOK, LoadConfig, Regs, HookLists, Hooks
<1>3. ASSUME NEW s \in Servers, NEW i \in Nat \ {0}, NEW left \in SUBSET (Nat \ {0}),
             pages' = [pages EXCEPT ![s] = Answered(s, i)], unread' = [unread EXCEPT ![s] = left]
      PROVE  /\ DOMAIN pages' = Servers /\ DOMAIN unread' = Servers
             /\ \A t \in Servers : unread'[t] \cup DOMAIN pages'[t] \subseteq Nat \ {0}
             /\ \A t \in Servers : pages'[t] \in [DOMAIN pages'[t] -> Seq(AllRows)]
  <2>1. DOMAIN pages' = Servers /\ DOMAIN unread' = Servers  BY <1>0, <1>3
  <2>2. pages'[s] = Answered(s, i) /\ unread'[s] = left
        /\ \A t \in Servers \ {s} : pages'[t] = pages[t] /\ unread'[t] = unread[t]
        BY <1>0, <1>3
  <2>3. DOMAIN pages[s] \subseteq Nat \ {0}  BY DEF TypeOK
  <2> DEFINE asked == DOMAIN pages[s] \cup {i}
  <2>4. DOMAIN Answered(s, i) = asked /\ Answered(s, i) \in [asked -> Seq(AllRows)]  BY AnsweredWorks
  <2>5. asked \subseteq Nat \ {0}  BY <2>3
  <2> HIDE DEF asked
  <2>6. DOMAIN pages'[s] = asked /\ pages'[s] \in [asked -> Seq(AllRows)]  BY <2>2, <2>4
  <2>7. /\ \A t \in Servers \ {s} : unread[t] \cup DOMAIN pages[t] \subseteq Nat \ {0}
        /\ \A t \in Servers \ {s} : pages[t] \in [DOMAIN pages[t] -> Seq(AllRows)]
        BY DEF TypeOK
  <2>8. ASSUME NEW t \in Servers
        PROVE  /\ unread'[t] \cup DOMAIN pages'[t] \subseteq Nat \ {0}
               /\ pages'[t] \in [DOMAIN pages'[t] -> Seq(AllRows)]
    <3>1. CASE t = s  BY <3>1, <2>2, <2>5, <2>6
    <3>2. CASE t # s  BY <3>2, <2>2, <2>7
    <3> QED  BY <3>1, <3>2
  <2> QED  BY <2>1, <2>8
<1>4. ASSUME NEW s \in Servers, ReadFirstPage(s) PROVE TypeOK'
  <2>1. 2 .. TotalPages \in SUBSET (Nat \ {0})
    <3>1. \A k \in 2 .. TotalPages : k \in Int /\ 2 <= k  OBVIOUS
    <3> QED  BY <3>1
  <2>2. ToSet(table) \subseteq Docs  BY <1>12 DEF ToSet
  <2>3. /\ DOMAIN pages' = Servers /\ DOMAIN unread' = Servers
        /\ \A t \in Servers : unread'[t] \cup DOMAIN pages'[t] \subseteq Nat \ {0}
        /\ \A t \in Servers : pages'[t] \in [DOMAIN pages'[t] -> Seq(AllRows)]
    <3>1. /\ pages' = [pages EXCEPT ![s] = Answered(s, 1)]
          /\ unread' = [unread EXCEPT ![s] = 2 .. TotalPages]
          BY <1>4 DEF ReadFirstPage
    <3>2. 1 \in Nat \ {0}  OBVIOUS
    <3> QED  BY <1>3, <2>1, <3>1, <3>2
  <2>4. /\ phase' \in [Servers -> {"down", "page 1", "pages", "serving"}]
        /\ untouched' \in [Servers -> SUBSET Docs] /\ shifted' \in [Servers -> BOOLEAN]
        BY <1>0, <1>4, <2>2 DEF ReadFirstPage
  <2> QED  BY <1>4, <2>3, <2>4 DEF TypeOK, ReadFirstPage
<1>5. ASSUME NEW s \in Servers, NEW i \in unread[s], ReadPage(s, i) PROVE TypeOK'
  <2>1. i \in Nat \ {0} /\ unread[s] \ {i} \in SUBSET (Nat \ {0})  BY DEF TypeOK
  <2>2. unread' = [unread EXCEPT ![s] = unread[s] \ {i}]  BY <1>5 DEF ReadPage
  <2>3. /\ DOMAIN pages' = Servers /\ DOMAIN unread' = Servers
        /\ \A t \in Servers : unread'[t] \cup DOMAIN pages'[t] \subseteq Nat \ {0}
        /\ \A t \in Servers : pages'[t] \in [DOMAIN pages'[t] -> Seq(AllRows)]
        BY <1>3, <1>5, <2>1, <2>2 DEF ReadPage
  <2> QED  BY <1>5, <2>3 DEF TypeOK, ReadPage
<1>6. ASSUME NEW s \in Servers, FinishInit(s) PROVE TypeOK'
  <2>1. Held(s) \in Seq(AllRows)  BY <1>6, HeldWorks DEF FinishInit
  <2> DEFINE reg == Construct(env[s], Held(s))
  <2>2. env[s] \in Regs /\ live[s] \in HookLists  BY <1>0
  <2>3. reg \in Regs  BY <2>1, <2>2, ConstructWorks
  <2>4. Enriched(live[s], reg) \in HookLists  BY <2>2, <2>3, EnrichedWorks
  <2>5. \/ UNCHANGED <<env, live>>
        \/ env' = [env EXCEPT ![s] = reg] /\ live' = [live EXCEPT ![s] = Enriched(live[s], reg)]
        BY <1>6 DEF FinishInit, Held
  <2> HIDE DEF reg
  <2>6. env' \in [Servers -> Regs] /\ live' \in [Servers -> HookLists]
        BY <1>0, <2>3, <2>4, <2>5
  <2>7. pages' = [pages EXCEPT ![s] = <<>>]  BY <1>6 DEF FinishInit
  <2>8. DOMAIN pages' = Servers /\ pages'[s] = <<>> /\ \A t \in Servers \ {s} : pages'[t] = pages[t]
        BY <2>7, <1>0
  <2>9. <<>> \in [{} -> Seq(AllRows)] /\ DOMAIN <<>> = {}  OBVIOUS
  <2>10. \A t \in Servers : /\ DOMAIN pages'[t] \subseteq Nat \ {0}
                            /\ pages'[t] \in [DOMAIN pages'[t] -> Seq(AllRows)]
         BY <2>8, <2>9 DEF TypeOK
  <2>11. phase' \in [Servers -> {"down", "page 1", "pages", "serving"}]  BY <1>0, <1>6 DEF FinishInit
  <2> QED  BY <1>6, <2>6, <2>8, <2>10, <2>11 DEF TypeOK, FinishInit, Regs, HookLists, Hooks
<1>7. ASSUME NEW s \in Servers, Crash(s) PROVE TypeOK'
  <2>1. phase' \in [Servers -> {"down", "page 1", "pages", "serving"}] /\ crashes' \in 0 .. MaxCrashes
    <3>1. phase' = [phase EXCEPT ![s] = "down"] /\ crashes' = crashes + 1 /\ crashes < MaxCrashes
          BY <1>7 DEF Crash
    <3>2. crashes' \in 0 .. MaxCrashes  BY <3>1, <1>1
    <3> QED  BY <3>1, <3>2, <1>0
  <2>2. saves' \in Seq(Requests)
    <3> DEFINE at(k) == IF saves[k].server # s THEN saves[k]
                        ELSE [saves[k] EXCEPT !.status = IF @ = "written" THEN "lost" ELSE "past"]
    <3>1. Len(saves) \in Nat /\ DOMAIN saves = 1 .. Len(saves) /\ \A k \in DOMAIN saves : saves[k] \in Requests
          BY <1>13
    <3>2. \A k \in DOMAIN saves : at(k) \in Requests  BY <3>1 DEF Requests
    <3>3. saves' = [k \in DOMAIN saves |-> at(k)]  BY <1>7 DEF Crash
    <3> HIDE DEF at
    <3>4. saves' \in [1 .. Len(saves) -> Requests]  BY <3>1, <3>2, <3>3
    <3> QED  BY <3>1, <3>4
  <2> QED  BY <1>7, <2>1, <2>2 DEF TypeOK, Crash
<1>8. ASSUME NEW s \in Servers, NEW d \in Docs, NEW rows \in Contents, Save(s, d, rows) PROVE TypeOK'
  <2>1. saves' \in Seq(Requests)
    <3>1. [server |-> s, rows |-> rows, status |-> "written"] \in Requests  BY DEF Requests
    <3>2. saves' = Append(saves, [server |-> s, rows |-> rows, status |-> "written"])  BY <1>8 DEF Save
    <3> QED  BY <3>1, <3>2, <1>13
  <2>2. /\ content' \in [Docs -> Contents] /\ untouched' \in [Servers -> SUBSET Docs]
        /\ shifted' \in [Servers -> BOOLEAN]
        BY <1>0, <1>12, <1>8 DEF Save, Touch, Shift
  <2>3. table' \in Seq(Docs) /\ IsInjective(table')
    <3>1. CASE Contains(table, d)  BY <3>1, <1>12, <1>8 DEF Save
    <3>2. CASE ~Contains(table, d)
      <4>1. table' = <<d>> \o table  BY <3>2, <1>8 DEF Save
      <4>2. \A j \in 1 .. Len(table) : table[j] # d  BY <3>2 DEF Contains
      <4>3. <<d>> \in Seq(Docs)  OBVIOUS
      <4>4. /\ table' \in Seq(Docs) /\ Len(table') = Len(table) + 1 /\ DOMAIN table' = 1 .. Len(table) + 1
            /\ table'[1] = d /\ \A j \in 2 .. Len(table) + 1 : table'[j] = table[j - 1]
            BY <4>1, <4>3, <1>12
      <4>5. Len(table) \in Nat /\ \A i, j \in 1 .. Len(table) : table[i] = table[j] => i = j
            BY <1>12 DEF IsInjective
      <4>6. ASSUME NEW i \in 1 .. Len(table) + 1, NEW j \in 1 .. Len(table) + 1, table'[i] = table'[j]
            PROVE  i = j
        <5>1. CASE i = 1 /\ j = 1  BY <5>1
        <5>2. CASE i = 1 /\ j # 1
          <6>1. j \in 2 .. Len(table) + 1 /\ j - 1 \in 1 .. Len(table)  BY <5>2, <4>5
          <6> QED  BY <6>1, <5>2, <4>2, <4>4, <4>6
        <5>3. CASE i # 1 /\ j = 1
          <6>1. i \in 2 .. Len(table) + 1 /\ i - 1 \in 1 .. Len(table)  BY <5>3, <4>5
          <6> QED  BY <6>1, <5>3, <4>2, <4>4, <4>6
        <5>4. CASE i # 1 /\ j # 1
          <6>1. /\ i \in 2 .. Len(table) + 1 /\ i - 1 \in 1 .. Len(table)
                /\ j \in 2 .. Len(table) + 1 /\ j - 1 \in 1 .. Len(table)
                BY <5>4, <4>5
          <6>2. i - 1 = j - 1  BY <6>1, <4>4, <4>5, <4>6
          <6> QED  BY <6>1, <6>2
        <5> QED  BY <5>1, <5>2, <5>3, <5>4
      <4> QED  BY <4>4, <4>6 DEF IsInjective
    <3> QED  BY <3>1, <3>2
  <2> QED  BY <1>8, <2>1, <2>2, <2>3 DEF TypeOK, Save
<1>9. ASSUME NEW s \in Servers, NEW d \in Docs, Delete(s, d) PROVE TypeOK'
  <2>1. table' \in Seq(Docs) /\ IsInjective(table')
    <3>1. /\ Among(table, Docs \ {d}) \in Seq(Docs \cap (Docs \ {d}))
          /\ IsInjective(Among(table, Docs \ {d}))
          BY <1>12, AmongElements
    <3>2. Among(table, Docs \ {d}) \in Seq(Docs)  BY <3>1
    <3> QED  BY <3>1, <3>2, <1>9 DEF Delete
  <2>2. /\ untouched' \in [Servers -> SUBSET Docs] /\ shifted' \in [Servers -> BOOLEAN]
        /\ deletes' \in 0 .. MaxDeletes
    <3>1. /\ untouched' = [t \in Servers |-> untouched[t] \ {d}]
          /\ shifted' = [t \in Servers |-> shifted[t] \/ phase[t] = "pages"]
          /\ deletes' = deletes + 1 /\ deletes < MaxDeletes
          BY <1>9 DEF Delete, Touch, Shift
    <3>2. deletes' \in 0 .. MaxDeletes  BY <3>1, <1>1
    <3> QED  BY <3>1, <3>2, <1>0
  <2> QED  BY <1>9, <2>1, <2>2 DEF TypeOK, Delete
<1>10. ASSUME NEW k \in DOMAIN saves, AfterChange(k) PROVE TypeOK'
  <2> DEFINE s == saves[k].server
             rows == saves[k].rows
             reg == Construct(env[s], rows)
  <2>0. saves[k] \in Requests  BY <1>13
  <2>1. s \in Servers /\ rows \in Seq(AllRows)  BY <2>0, RowsType DEF Requests
  <2>2. env[s] \in Regs /\ live[s] \in HookLists  BY <1>0, <2>1
  <2>3. reg \in Regs  BY <2>1, <2>2, ConstructWorks
  <2>4. Enriched(live[s], reg) \in HookLists  BY <2>2, <2>3, EnrichedWorks
  <2>5. /\ env' = [env EXCEPT ![s] = reg]
        /\ \/ live' = live
           \/ live' = [live EXCEPT ![s] = Enriched(live[s], reg)]
        /\ \/ saves' = [saves EXCEPT ![k].status = "handled"]
           \/ saves' = [saves EXCEPT ![k].status = "thrown"]
        BY <1>10 DEF AfterChange
  <2> HIDE DEF s, rows, reg
  <2>6. env' \in [Servers -> Regs] /\ live' \in [Servers -> HookLists]
        BY <1>0, <2>1, <2>3, <2>4, <2>5
  <2>7. saves' \in Seq(Requests)
    <3>1. \A st \in {"handled", "thrown"} : [saves[k] EXCEPT !.status = st] \in Requests
          BY <2>0 DEF Requests
    <3>2. PICK st \in {"handled", "thrown"} : saves' = [saves EXCEPT ![k] = [saves[k] EXCEPT !.status = st]]
          BY <2>5
    <3> DEFINE new == [saves[k] EXCEPT !.status = st]
    <3>3. new \in Requests /\ saves' = [saves EXCEPT ![k] = new]  BY <3>1, <3>2
    <3> HIDE DEF new
    <3> QED  BY <3>3, <1>13, ExceptSeq
  <2> QED  BY <1>10, <2>6, <2>7 DEF TypeOK, AfterChange, Regs, HookLists, Hooks
<1>11. CASE UNCHANGED vars  BY <1>11 DEF vars, TypeOK
<1> QED  BY <1>2, <1>4, <1>5, <1>6, <1>7, <1>8, <1>9, <1>10, <1>11 DEF Next, Boot

-----------------------------------------------------------------------------
(* What a server runs, it goes on running *)

RunsIn(reg, hooks, row) ==
    \/ TargetOf(row) = Empty
    \/ Contains(hooks[row.point], TargetOf(row))
    \/ \E word \in {row.url, row.type} \ {TargetOf(row)} : Contains(reg[row.point], word)

LEMMA RunsLasts ==
    ASSUME NEW reg \in Regs, NEW reg2 \in Regs, Grows(reg, reg2),
           NEW hooks \in HookLists, NEW hooks2 \in HookLists, Grows(hooks, hooks2),
           NEW row, row.point \in Points, RunsIn(reg, hooks, row)
    PROVE  RunsIn(reg2, hooks2, row)
<1> DEFINE p == row.point
<1>1. reg[p] \in Seq(Targets) /\ reg2[p] \in Seq(Targets) /\ IsPrefix(reg[p], reg2[p])
      BY DEF Regs, Grows
<1>2. hooks[p] \in Seq(Hooks) /\ hooks2[p] \in Seq(Hooks) /\ IsPrefix(hooks[p], hooks2[p])
      BY DEF HookLists, Grows
<1>3. \A x : Contains(reg[p], x) => Contains(reg2[p], x)  BY <1>1, PrefixContains
<1>4. \A x : Contains(hooks[p], x) => Contains(hooks2[p], x)  BY <1>2, PrefixContains
<1> QED  BY <1>3, <1>4 DEF Runs, RunsIn

\* After a construction that went through, every hook of its rows is run.
LEMMA RegisteringWorks ==
    ASSUME NEW reg \in Regs, NEW hooks \in HookLists, NEW rows \in Seq(AllRows), Fault(rows) = 0
    PROVE  LET later == Construct(reg, rows)
           IN  \A row \in ToSet(rows) : row.point \in Points /\ RunsIn(later, Enriched(hooks, later), row)
<1> DEFINE later == Construct(reg, rows)
           all == Enriched(hooks, later)
<1>1. later \in Regs /\ \A k \in 1 .. Len(rows) : Meets(later, rows[k])  BY ConstructWorks
<1>2. \A k \in 1 .. Len(rows) : rows[k].point \in Points /\ rows[k] \in AllRows
  <2>1. LastOf(rows) = Len(rows) /\ \A k \in 1 .. LastOf(rows) : rows[k].point \in Points  BY FaultWorks
  <2> QED  BY <2>1
<1> HIDE DEF later
<1>3. all \in HookLists /\ \A p \in Points : Attached(later, all, p)  BY <1>1, EnrichedWorks
<1> HIDE DEF all
<1> SUFFICES ASSUME NEW k \in 1 .. Len(rows)
             PROVE  rows[k].point \in Points /\ RunsIn(later, all, rows[k])
    BY DEF ToSet, later, all
<1> DEFINE row == rows[k]
<1>4. row.point \in Points /\ row \in AllRows /\ Meets(later, row)  BY <1>1, <1>2
<1>5. Attached(later, all, row.point)  BY <1>3, <1>4
<1> HIDE DEF row
<1>6. TargetOf(row) \in Targets /\ row.type \in {"http", "rabbitmq"}  BY <1>4, RowType
<1>7. RunsIn(later, all, row)
  <2>1. CASE TargetOf(row) = Empty  BY <2>1 DEF Runs, RunsIn
  <2>2. CASE TargetOf(row) # Empty /\ Contains(later[row.point], TargetOf(row))
        BY <2>2, <1>5, <1>6 DEF RunsIn, Attached
  <2>3. CASE TargetOf(row) # Empty /\ ~Contains(later[row.point], TargetOf(row))
    <3>1. Registered(later[row.point], row)  BY <2>3, <1>4 DEF Meets
    <3>2. \/ row.url # TargetOf(row) /\ Contains(later[row.point], row.url)
          \/ row.type # TargetOf(row) /\ Contains(later[row.point], row.type)
          BY <3>1, <2>3 DEF Registered
    <3>3. CASE row.url # TargetOf(row) /\ Contains(later[row.point], row.url)
          BY <3>3 DEF Runs, RunsIn
    <3>4. CASE row.type # TargetOf(row) /\ Contains(later[row.point], row.type)
          BY <3>4 DEF Runs, RunsIn
    <3> QED  BY <3>2, <3>3, <3>4
  <2> QED  BY <2>1, <2>2, <2>3
<1> QED  BY <1>4, <1>7 DEF row

LEMMA StepGrows ==
    ASSUME TypeOK, PagesAreCounted, [Next]_vars, NEW s \in Servers
    PROVE  LoadConfig(s) \/ (Grows(env[s], env'[s]) /\ Grows(live[s], live'[s]))
<1> USE DEF db, boot, history
<1>0. /\ env \in [Servers -> Regs] /\ live \in [Servers -> HookLists]
      /\ env[s] \in Regs /\ live[s] \in HookLists
      BY DEF TypeOK, Regs, HookLists, Hooks
<1>1. Grows(env[s], env[s]) /\ Grows(live[s], live[s])  BY <1>0, GrowsIsReflexive DEF Regs, HookLists
<1>2. ASSUME NEW t \in Servers, LoadConfig(t), t # s PROVE env'[s] = env[s] /\ live'[s] = live[s]
      BY <1>0, <1>2 DEF LoadConfig
<1>3. ASSUME NEW t \in Servers, FinishInit(t)
      PROVE  Grows(env[s], env'[s]) /\ Grows(live[s], live'[s])
  <2> DEFINE reg == Construct(env[t], Held(t))
  <2>1. \/ UNCHANGED <<env, live>>
        \/ env' = [env EXCEPT ![t] = reg] /\ live' = [live EXCEPT ![t] = Enriched(live[t], reg)]
        BY <1>3 DEF FinishInit, Held
  <2>2. Held(t) \in Seq(AllRows)  BY <1>3, HeldWorks DEF FinishInit
  <2>3. reg \in Regs /\ Grows(env[t], reg)  BY <1>0, <2>2, ConstructWorks
  <2> HIDE DEF reg
  <2>4. Grows(live[t], Enriched(live[t], reg))  BY <1>0, <2>3, EnrichedWorks
  <2> QED  BY <1>0, <1>1, <2>1, <2>3, <2>4
<1>4. ASSUME NEW k \in DOMAIN saves, AfterChange(k)
      PROVE  Grows(env[s], env'[s]) /\ Grows(live[s], live'[s])
  <2> DEFINE t == saves[k].server
             reg == Construct(env[t], saves[k].rows)
  <2>a. saves \in Seq(Requests)  BY DEF TypeOK
  <2>0. saves[k] \in Requests  BY <2>a
  <2>1. t \in Servers /\ saves[k].rows \in Seq(AllRows)  BY <2>0, RowsType DEF Requests
  <2>2. /\ env' = [env EXCEPT ![t] = reg]
        /\ live' = live \/ live' = [live EXCEPT ![t] = Enriched(live[t], reg)]
        BY <1>4 DEF AfterChange
  <2>3. reg \in Regs /\ Grows(env[t], reg)  BY <1>0, <2>1, ConstructWorks
  <2> HIDE DEF reg, t
  <2>4. Grows(live[t], Enriched(live[t], reg))  BY <1>0, <2>1, <2>3, EnrichedWorks
  <2> QED  BY <1>0, <1>1, <2>1, <2>2, <2>3, <2>4
<1>5. ASSUME NEW t \in Servers, ReadFirstPage(t) PROVE UNCHANGED <<env, live>>  BY <1>5 DEF ReadFirstPage
<1>6. ASSUME NEW t \in Servers, NEW i \in unread[t], ReadPage(t, i) PROVE UNCHANGED <<env, live>>
      BY <1>6 DEF ReadPage
<1>7. ASSUME NEW t \in Servers, Crash(t) PROVE UNCHANGED <<env, live>>  BY <1>7 DEF Crash
<1>8. ASSUME NEW t \in Servers, NEW d \in Docs, NEW rows \in Contents, Save(t, d, rows)
      PROVE  UNCHANGED <<env, live>>
      BY <1>8 DEF Save
<1>9. ASSUME NEW t \in Servers, NEW d \in Docs, Delete(t, d) PROVE UNCHANGED <<env, live>>
      BY <1>9 DEF Delete
<1>10. CASE UNCHANGED vars  BY <1>1, <1>10 DEF vars
<1> QED  BY <1>1, <1>2, <1>3, <1>4, <1>5, <1>6, <1>7, <1>8, <1>9, <1>10 DEF Next, Boot

\* A list of hooks that begins with that of the collection goes on doing so.
LEMMA OwnStays ==
    ASSUME NEW hooks \in HookLists, NEW later \in HookLists, Grows(hooks, later), NEW p \in Points,
           hooks[p] # <<>>, hooks[p][1] = Own
    PROVE  later[p] # <<>> /\ later[p][1] = Own
<1>1. hooks[p] \in Seq(Hooks) /\ later[p] \in Seq(Hooks) /\ IsPrefix(hooks[p], later[p])
      BY DEF HookLists, Grows
<1>2. Len(hooks[p]) <= Len(later[p]) /\ \A i \in 1 .. Len(hooks[p]) : hooks[p][i] = later[p][i]
      BY <1>1, PrefixElements
<1>3. Len(hooks[p]) \in Nat \ {0}  BY <1>1
<1>4. 1 \in 1 .. Len(hooks[p])  BY <1>3
<1> QED  BY <1>1, <1>2, <1>3, <1>4

-----------------------------------------------------------------------------
(* The invariant holds *)

LEMMA OwnStep ==
    ASSUME TypeOK, TypeOK', PagesAreCounted, OwnIsFirst, [Next]_vars
    PROVE  OwnIsFirst'
<1>0. /\ live \in [Servers -> HookLists]
      /\ live' \in [Servers -> HookLists]
      BY DEF TypeOK, HookLists, Hooks
<1> SUFFICES ASSUME NEW s \in Servers, NEW p \in Points
             PROVE  live'[s][p] # <<>> /\ live'[s][p][1] = Own
    BY DEF OwnIsFirst
<1>1. CASE LoadConfig(s)
  <2> DEFINE own == [q \in Points |-> <<Own>>]
  <2>1. own \in HookLists /\ own[p] # <<>> /\ own[p][1] = Own
    <3>1. <<Own>> \in Seq(Hooks)  BY DEF Hooks
    <3> QED  BY <3>1 DEF HookLists
  <2>2. live'[s] = Enriched(own, Deployment)  BY <1>0, <1>1 DEF LoadConfig
  <2> HIDE DEF own
  <2>3. Enriched(own, Deployment) \in HookLists /\ Grows(own, Enriched(own, Deployment))
        BY <2>1, DeploymentType, EnrichedWorks
  <2> QED  BY <2>1, <2>2, <2>3, OwnStays
<1>2. CASE Grows(live[s], live'[s])  BY <1>0, <1>2, OwnStays DEF OwnIsFirst
<1> QED  BY <1>1, <1>2, StepGrows

LEMMA ServedStep ==
    ASSUME TypeOK, SavesAreServed, [Next]_vars
    PROVE  SavesAreServed'
<1> USE DEF db, boot, history
<1> DEFINE Served == {"written", "handled", "thrown"}
<1>a. phase \in [Servers -> {"down", "page 1", "pages", "serving"}] /\ saves \in Seq(Requests)
      BY DEF TypeOK
<1>b. DOMAIN saves = 1 .. Len(saves) /\ Len(saves) \in Nat  BY <1>a, LenProperties
<1>c. \A k \in DOMAIN saves : saves[k] \in Requests  BY <1>a, <1>b, ElementOfSeq
<1>0. /\ phase \in [Servers -> {"down", "page 1", "pages", "serving"}]
      /\ saves \in Seq(Requests) /\ DOMAIN saves = 1 .. Len(saves) /\ Len(saves) \in Nat
      /\ \A k \in DOMAIN saves : saves[k] \in Requests
      BY <1>a, <1>b, <1>c
<1>1. ASSUME UNCHANGED saves, \A s \in Servers : phase[s] = "serving" => phase'[s] = "serving"
      PROVE  SavesAreServed'
  <2>1. \A k \in DOMAIN saves : saves[k].server \in Servers  BY <1>0 DEF Requests
  <2> QED  BY <1>1, <2>1 DEF SavesAreServed
<1>2. ASSUME NEW s \in Servers, Boot(s) PROVE SavesAreServed'
  <2>1. \A t \in Servers : phase[t] = "serving" => phase'[t] = "serving"
        BY <1>0, <1>2 DEF Boot, LoadConfig, ReadFirstPage, ReadPage, FinishInit
  <2>2. UNCHANGED saves  BY <1>2 DEF Boot, LoadConfig, ReadFirstPage, ReadPage, FinishInit
  <2> QED  BY <1>1, <2>1, <2>2
<1>3. ASSUME NEW s \in Servers, Crash(s) PROVE SavesAreServed'
  <2> SUFFICES ASSUME NEW k \in DOMAIN saves', saves'[k].status \in Served
               PROVE  phase'[saves'[k].server] = "serving"
      BY DEF SavesAreServed
  <2>1. k \in DOMAIN saves  BY <1>3 DEF Crash
  <2>2. saves[k] \in Requests  BY <1>0, <2>1
  <2>3. saves[k].server # s
    <3> SUFFICES ASSUME saves[k].server = s PROVE FALSE  OBVIOUS
    <3>1. saves'[k] = [saves[k] EXCEPT !.status = IF @ = "written" THEN "lost" ELSE "past"]
          BY <2>1, <1>3 DEF Crash
    <3>2. saves'[k].status = IF saves[k].status = "written" THEN "lost" ELSE "past"
          BY <2>2, <3>1 DEF Requests
    <3> QED  BY <3>2
  <2>4. saves'[k] = saves[k]  BY <2>1, <2>3, <1>3 DEF Crash
  <2>5. phase[saves[k].server] = "serving"  BY <2>1, <2>4 DEF SavesAreServed
  <2> QED  BY <1>0, <1>3, <2>2, <2>3, <2>4, <2>5 DEF Crash, Requests
<1>4. ASSUME NEW s \in Servers, NEW d \in Docs, NEW rows \in Contents, Save(s, d, rows)
      PROVE  SavesAreServed'
  <2> DEFINE new == [server |-> s, rows |-> rows, status |-> "written"]
  <2>1. saves' = Append(saves, new) /\ phase' = phase /\ phase[s] = "serving"  BY <1>4 DEF Save
  <2>2. /\ DOMAIN saves' = 1 .. Len(saves) + 1 /\ saves'[Len(saves) + 1] = new
        /\ \A k \in 1 .. Len(saves) : saves'[k] = saves[k]
    <3>1. new \in Requests  BY DEF Requests
    <3> HIDE DEF new
    <3>2. saves' = Append(saves, new)  BY <2>1
    <3>3. saves' \in Seq(Requests) /\ Len(saves') = Len(saves) + 1 /\ saves'[Len(saves) + 1] = new
          BY <1>a, <3>1, <3>2, AppendProperties
    <3>4. DOMAIN saves' = 1 .. Len(saves) + 1  BY <3>3, LenProperties
    <3>5. ASSUME NEW k \in 1 .. Len(saves) PROVE saves'[k] = saves[k]
      <4>1. saves \in Seq(Requests) /\ new \in Requests  BY <1>a, <3>1
      <4>2. Append(saves, new)[k] = saves[k]  BY <4>1
      <4> QED  BY <4>2, <3>2
    <3> QED  BY <3>3, <3>4, <3>5
  <2>3. new.server = s  OBVIOUS
  <2> HIDE DEF new
  <2> SUFFICES ASSUME NEW k \in DOMAIN saves', saves'[k].status \in Served
               PROVE  phase'[saves'[k].server] = "serving"
      BY DEF SavesAreServed
  <2>4. CASE k = Len(saves) + 1  BY <2>1, <2>2, <2>3, <2>4
  <2>5. CASE k # Len(saves) + 1
    <3>1. k \in 1 .. Len(saves)  BY <2>2, <2>5, <1>b
    <3> QED  BY <1>0, <2>1, <2>2, <3>1 DEF SavesAreServed
  <2> QED  BY <2>4, <2>5
<1>5. ASSUME NEW s \in Servers, NEW d \in Docs, Delete(s, d) PROVE SavesAreServed'
      BY <1>1, <1>5 DEF Delete
<1>6. ASSUME NEW k \in DOMAIN saves, AfterChange(k) PROVE SavesAreServed'
  <2>1. /\ phase' = phase /\ saves[k].status = "written"
        /\ \E st \in {"handled", "thrown"} : saves' = [saves EXCEPT ![k].status = st]
        BY <1>6 DEF AfterChange
  <2>2. saves[k] \in Requests  BY <1>0
  <2>3. \A j \in DOMAIN saves : saves'[j].server = saves[j].server /\ (j # k => saves'[j] = saves[j])
        BY <2>1, <2>2 DEF Requests
  <2>4. DOMAIN saves' = DOMAIN saves  BY <2>1
  <2> QED  BY <2>1, <2>3, <2>4 DEF SavesAreServed
<1>7. CASE UNCHANGED vars  BY <1>1, <1>7 DEF vars
<1> QED  BY <1>2, <1>3, <1>4, <1>5, <1>6, <1>7 DEF Next

LEMMA CountedStep ==
    ASSUME TypeOK, PagesAreCounted, [Next]_vars
    PROVE  PagesAreCounted'
<1> USE DEF db, boot, history
<1>0. /\ phase \in [Servers -> {"down", "page 1", "pages", "serving"}]
      /\ DOMAIN pages = Servers /\ DOMAIN unread = Servers
      BY DEF TypeOK
<1> DEFINE Counted(t) ==
        IF phase[t] = "pages" THEN \E n \in Nat : DOMAIN pages[t] \cup unread[t] = 1 .. n
        ELSE DOMAIN pages[t] = {} /\ unread[t] = {}
<1> SUFFICES ASSUME NEW t \in Servers PROVE Counted(t)'  BY DEF PagesAreCounted
<1>a. Counted(t)  BY DEF PagesAreCounted
<1>1. ASSUME pages'[t] = pages[t], unread'[t] = unread[t],
             phase'[t] = "pages" <=> phase[t] = "pages"
      PROVE  Counted(t)'
      BY <1>a, <1>1
<1>2. ASSUME NEW s \in Servers, LoadConfig(s) PROVE Counted(t)'
      BY <1>0, <1>1, <1>2 DEF LoadConfig
<1>3. ASSUME NEW s \in Servers, ReadFirstPage(s) PROVE Counted(t)'
  <2>1. CASE t = s
    <3>1. phase[s] = "page 1" /\ phase'[s] = "pages"  BY <1>0, <1>3 DEF ReadFirstPage
    <3>2. DOMAIN pages[s] = {}  BY <1>a, <2>1, <3>1
    <3>3. pages'[s] = Answered(s, 1) /\ unread'[s] = 2 .. TotalPages  BY <1>0, <1>3 DEF ReadFirstPage
    <3>4. DOMAIN Answered(s, 1) = {1}  BY <3>2 DEF Answered
    <3>5. TotalPages \in Int
      <4>1. table \in Seq(Docs)  BY DEF TypeOK
      <4>2. Len(table) \in Nat /\ PageSize \in Nat \ {0}  BY <4>1, WebHooksAssumption
      <4> QED  BY <4>2 DEF TotalPages, PagesOf
    <3> DEFINE n == IF TotalPages >= 1 THEN TotalPages ELSE 1
    <3>6. n \in Nat /\ {1} \cup 2 .. TotalPages = 1 .. n  BY <3>5
    <3>7. DOMAIN pages'[s] \cup unread'[s] = 1 .. n  BY <3>3, <3>4, <3>6
    <3> HIDE DEF n
    <3> QED  BY <2>1, <3>1, <3>6, <3>7
  <2>2. CASE t # s  BY <1>0, <1>1, <1>3, <2>2 DEF ReadFirstPage
  <2> QED  BY <2>1, <2>2
<1>4. ASSUME NEW s \in Servers, NEW i \in unread[s], ReadPage(s, i) PROVE Counted(t)'
  <2>1. CASE t = s
    <3>1. phase[s] = "pages" /\ phase' = phase  BY <1>4 DEF ReadPage
    <3>2. pages'[s] = Answered(s, i) /\ unread'[s] = unread[s] \ {i}  BY <1>0, <1>4 DEF ReadPage
    <3>3. DOMAIN pages'[s] = DOMAIN pages[s] \cup {i}  BY <3>2 DEF Answered
    <3>4. DOMAIN pages'[s] \cup unread'[s] = DOMAIN pages[s] \cup unread[s]  BY <3>2, <3>3
    <3> QED  BY <1>a, <2>1, <3>1, <3>4
  <2>2. CASE t # s  BY <1>0, <1>1, <1>4, <2>2 DEF ReadPage
  <2> QED  BY <2>1, <2>2
<1>5. ASSUME NEW s \in Servers, FinishInit(s) PROVE Counted(t)'
  <2>1. CASE t = s
    <3>1. phase'[s] # "pages" /\ pages'[s] = <<>> /\ unread'[s] = {}  BY <1>0, <1>5 DEF FinishInit
    <3>2. DOMAIN pages'[s] = {}  BY <3>1
    <3> QED  BY <2>1, <3>1, <3>2
  <2>2. CASE t # s  BY <1>0, <1>1, <1>5, <2>2 DEF FinishInit
  <2> QED  BY <2>1, <2>2
<1>6. ASSUME NEW s \in Servers, Crash(s) PROVE Counted(t)'  BY <1>0, <1>1, <1>6 DEF Crash
<1>7. ASSUME NEW s \in Servers, NEW d \in Docs, NEW rows \in Contents, Save(s, d, rows) PROVE Counted(t)'
      BY <1>1, <1>7 DEF Save
<1>8. ASSUME NEW s \in Servers, NEW d \in Docs, Delete(s, d) PROVE Counted(t)'
      BY <1>1, <1>8 DEF Delete
<1>9. ASSUME NEW k \in DOMAIN saves, AfterChange(k) PROVE Counted(t)'
      BY <1>1, <1>9 DEF AfterChange
<1>10. CASE UNCHANGED vars  BY <1>1, <1>10 DEF vars
<1> HIDE DEF Counted
<1> QED  BY <1>2, <1>3, <1>4, <1>5, <1>6, <1>7, <1>8, <1>9, <1>10 DEF Next, Boot

\* What a step does to a server that is reading the pages and goes on.
LEMMA FollowStep ==
    ASSUME TypeOK, TypeOK', PagesAreCounted, PagesFollowTable, [Next]_vars
    PROVE  PagesFollowTable'
<1> USE DEF db, boot, history
<1>0. /\ phase \in [Servers -> {"down", "page 1", "pages", "serving"}]
      /\ DOMAIN pages = Servers /\ DOMAIN unread = Servers
      /\ untouched \in [Servers -> SUBSET Docs] /\ shifted \in [Servers -> BOOLEAN]
      /\ content \in [Docs -> Contents]
      BY DEF TypeOK
<1>12. table \in Seq(Docs)  BY DEF TypeOK
<1> DEFINE Asked(t) == DOMAIN pages[t] \cup unread[t]
           Follows(t) == /\ untouched[t] \subseteq ToSet(table)
                         /\ Asked(t) = {1} \cup 2 .. TotalPages
                         /\ \A i \in DOMAIN pages[t] : ShownOn(t, i)
<1> SUFFICES ASSUME NEW t \in Servers, phase'[t] = "pages", ~shifted'[t] PROVE Follows(t)'
    BY DEF PagesFollowTable
<1>a. phase[t] = "pages" /\ ~shifted[t] => Follows(t)  BY DEF PagesFollowTable
<1>1. ASSUME pages'[t] = pages[t], unread'[t] = unread[t], phase[t] = "pages", ~shifted[t],
             table' = table, untouched'[t] \subseteq untouched[t],
             \A d \in untouched'[t] : content'[d] = content[d]
      PROVE  Follows(t)'
  <2>1. Follows(t)  BY <1>a, <1>1
  <2>2. TotalPages' = TotalPages  BY <1>1 DEF TotalPages
  <2>3. ASSUME NEW i \in DOMAIN pages[t], NEW j \in OnPage(table, PageSize, i), table[j] \in untouched'[t]
        PROVE  ToSet(content'[table[j]]) \subseteq ToSet(pages[t][i])
        BY <2>1, <2>3, <1>1 DEF ShownOn
  <2>4. \A i \in DOMAIN pages'[t] : ShownOn(t, i)'  BY <2>3, <1>1 DEF ShownOn
  <2>5. untouched'[t] \subseteq ToSet(table')  BY <2>1, <1>1
  <2>6. Asked(t)' = {1} \cup 2 .. TotalPages'  BY <2>1, <2>2, <1>1
  <2> QED  BY <2>4, <2>5, <2>6
<1>2. ASSUME NEW s \in Servers, LoadConfig(s) PROVE Follows(t)'
  <2>1. t # s  BY <1>0, <1>2 DEF LoadConfig
  <2> QED  BY <1>0, <1>1, <1>2, <2>1 DEF LoadConfig
<1>3. ASSUME NEW s \in Servers, ReadFirstPage(s) PROVE Follows(t)'
  <2>1. CASE t = s
    <3>1. /\ phase[s] = "page 1" /\ table' = table /\ content' = content
          /\ pages'[s] = Answered(s, 1) /\ unread'[s] = 2 .. TotalPages /\ untouched'[s] = ToSet(table)
          BY <1>0, <1>3 DEF ReadFirstPage
    <3>2. DOMAIN pages[s] = {}  BY <3>1 DEF PagesAreCounted
    <3>3. DOMAIN Answered(s, 1) = {1} /\ Answered(s, 1)[1] = RowsOn(1)  BY <3>2 DEF Answered
    <3>4. 1 \in Nat \ {0}  OBVIOUS
    <3>5. \A j \in OnPage(table, PageSize, 1) : ToSet(content[table[j]]) \subseteq ToSet(RowsOn(1))
          BY <3>4, RowsOnWorks
    <3>6. ShownOn(s, 1)'  BY <3>1, <3>3, <3>5 DEF ShownOn
    <3>7. TotalPages' = TotalPages  BY <3>1 DEF TotalPages
    <3>8. Asked(s)' = {1} \cup 2 .. TotalPages'  BY <3>1, <3>3, <3>7
    <3>9. \A i \in DOMAIN pages'[s] : ShownOn(s, i)'  BY <3>1, <3>3, <3>6
    <3> QED  BY <2>1, <3>1, <3>8, <3>9
  <2>2. CASE t # s  BY <1>0, <1>1, <1>3, <2>2 DEF ReadFirstPage
  <2> QED  BY <2>1, <2>2
<1>4. ASSUME NEW s \in Servers, NEW n \in unread[s], ReadPage(s, n) PROVE Follows(t)'
  <2>1. CASE t = s
    <3>1. /\ phase[s] = "pages" /\ UNCHANGED <<table, content, untouched, shifted>>
          /\ pages'[s] = Answered(s, n) /\ unread'[s] = unread[s] \ {n}
          BY <1>0, <1>4 DEF ReadPage
    <3>2. Follows(s)  BY <1>a, <2>1, <3>1
    <3>3. n \in Nat \ {0}  BY DEF TypeOK
    <3>4. /\ DOMAIN Answered(s, n) = DOMAIN pages[s] \cup {n} /\ Answered(s, n)[n] = RowsOn(n)
          /\ \A i \in DOMAIN pages[s] \ {n} : Answered(s, n)[i] = pages[s][i]
          BY <3>3, AnsweredWorks
    <3>5. \A j \in OnPage(table, PageSize, n) : ToSet(content[table[j]]) \subseteq ToSet(RowsOn(n))
          BY <3>3, RowsOnWorks
    <3>6. ASSUME NEW i \in DOMAIN pages'[s] PROVE ShownOn(s, i)'
      <4>1. CASE i = n  BY <4>1, <3>1, <3>4, <3>5 DEF ShownOn
      <4>2. CASE i # n
        <5>1. i \in DOMAIN pages[s] /\ pages'[s][i] = pages[s][i]  BY <4>2, <3>1, <3>4
        <5>2. ShownOn(s, i)  BY <5>1, <3>2
        <5> QED  BY <5>1, <5>2, <3>1 DEF ShownOn
      <4> QED  BY <4>1, <4>2
    <3>7. TotalPages' = TotalPages  BY <3>1 DEF TotalPages
    <3>8. Asked(s)' = Asked(s)  BY <3>1, <3>4
    <3> QED  BY <2>1, <3>1, <3>2, <3>6, <3>7, <3>8
  <2>2. CASE t # s  BY <1>0, <1>1, <1>4, <2>2 DEF ReadPage
  <2> QED  BY <2>1, <2>2
<1>5. ASSUME NEW s \in Servers, FinishInit(s) PROVE Follows(t)'
  <2>1. t # s  BY <1>0, <1>5 DEF FinishInit
  <2> QED  BY <1>0, <1>1, <1>5, <2>1 DEF FinishInit
<1>6. ASSUME NEW s \in Servers, Crash(s) PROVE Follows(t)'
  <2>1. t # s  BY <1>0, <1>6 DEF Crash
  <2> QED  BY <1>0, <1>1, <1>6, <2>1 DEF Crash
<1>7. ASSUME NEW s \in Servers, NEW d \in Docs, NEW rows \in Contents, Save(s, d, rows)
      PROVE  Follows(t)'
  <2>1. CASE Contains(table, d)
    <3>1. /\ UNCHANGED <<table, shifted, phase, pages, unread>> /\ untouched'[t] = untouched[t] \ {d}
          /\ content' = [content EXCEPT ![d] = rows]
          BY <1>7, <2>1 DEF Save, Touch
    <3>2. \A e \in untouched'[t] : content'[e] = content[e]  BY <1>0, <3>1
    <3> QED  BY <1>1, <3>1, <3>2
  <2>2. CASE ~Contains(table, d)
    <3>1. phase' = phase /\ shifted'[t] = (shifted[t] \/ phase[t] = "pages")
          BY <1>7, <2>2 DEF Save, Shift
    <3> QED  BY <3>1
  <2> QED  BY <2>1, <2>2
<1>8. ASSUME NEW s \in Servers, NEW d \in Docs, Delete(s, d) PROVE Follows(t)'
  <2>1. phase' = phase /\ shifted'[t] = (shifted[t] \/ phase[t] = "pages")  BY <1>8 DEF Delete, Shift
  <2> QED  BY <2>1
<1>9. ASSUME NEW k \in DOMAIN saves, AfterChange(k) PROVE Follows(t)'
      BY <1>1, <1>9 DEF AfterChange
<1>10. CASE UNCHANGED vars  BY <1>1, <1>10 DEF vars
<1> HIDE DEF Follows
<1> QED  BY <1>2, <1>3, <1>4, <1>5, <1>6, <1>7, <1>8, <1>9, <1>10 DEF Next, Boot

\* A hook that a server runs, it runs after any step in which it does not start.
LEMMA FitsLasts ==
    ASSUME TypeOK, TypeOK', PagesAreCounted, [Next]_vars,
           NEW s \in Servers, phase[s] # "down", NEW row, Runs(s, row)
    PROVE  Runs(s, row)'
<1>1. ~LoadConfig(s)  BY DEF LoadConfig
<1>2. Grows(env[s], env'[s]) /\ Grows(live[s], live'[s])  BY <1>1, StepGrows
<1>3. env[s] \in Regs /\ env'[s] \in Regs  BY DEF TypeOK, Regs
<1>4. live[s] \in HookLists /\ live'[s] \in HookLists  BY DEF TypeOK, HookLists, Hooks
<1>5. row.point \in Points /\ RunsIn(env[s], live[s], row)  BY DEF Runs, RunsIn
<1>6. RunsIn(env'[s], live'[s], row)  BY <1>2, <1>3, <1>4, <1>5, RunsLasts
<1> QED  BY <1>5, <1>6 DEF Runs, RunsIn

LEMMA AnsweredSavesAreRunStep ==
    ASSUME TypeOK, TypeOK', PagesAreCounted, SavesAreServed, AnsweredSavesAreRun, [Next]_vars
    PROVE  AnsweredSavesAreRun'
<1> USE DEF db, boot, history
<1>a. saves \in Seq(Requests)  BY DEF TypeOK
<1>b. DOMAIN saves = 1 .. Len(saves) /\ Len(saves) \in Nat  BY <1>a, LenProperties
<1>c. \A k \in DOMAIN saves : saves[k] \in Requests  BY <1>a, <1>b, ElementOfSeq
<1> SUFFICES ASSUME NEW k \in DOMAIN saves', saves'[k].status = "handled",
                    NEW row \in ToSet(saves'[k].rows), NEW t, t = saves'[k].server
             PROVE  Runs(t, row)'
    BY DEF AnsweredSavesAreRun, Runs
<1>1. ASSUME k \in DOMAIN saves, saves'[k] = saves[k] PROVE Runs(t, row)'
  <2>1. t \in Servers  BY <1>c, <1>1 DEF Requests
  <2>2. phase[t] = "serving"  BY <1>1 DEF SavesAreServed
  <2>3. Runs(t, row)  BY <1>1 DEF AnsweredSavesAreRun
  <2> QED  BY <2>1, <2>2, <2>3, FitsLasts
<1>2. ASSUME NEW s \in Servers, Boot(s) PROVE Runs(t, row)'
      BY <1>1, <1>2 DEF Boot, LoadConfig, ReadFirstPage, ReadPage, FinishInit
<1>3. ASSUME NEW s \in Servers, Crash(s) PROVE Runs(t, row)'
  <2>1. k \in DOMAIN saves  BY <1>3 DEF Crash
  <2>2. saves[k].server # s
    <3> SUFFICES ASSUME saves[k].server = s PROVE FALSE  OBVIOUS
    <3>1. saves'[k] = [saves[k] EXCEPT !.status = IF @ = "written" THEN "lost" ELSE "past"]
          BY <2>1, <1>3 DEF Crash
    <3>2. saves'[k].status = IF saves[k].status = "written" THEN "lost" ELSE "past"
          BY <2>1, <1>c, <3>1 DEF Requests
    <3> QED  BY <3>2
  <2>3. saves'[k] = saves[k]  BY <2>1, <2>2, <1>3 DEF Crash
  <2> QED  BY <1>1, <2>1, <2>3
<1>4. ASSUME NEW s \in Servers, NEW d \in Docs, NEW rows \in Contents, Save(s, d, rows)
      PROVE  Runs(t, row)'
  <2> DEFINE new == [server |-> s, rows |-> rows, status |-> "written"]
  <2>1. saves' = Append(saves, new)  BY <1>4 DEF Save
  <2>2. new \in Requests /\ new.status = "written"  BY DEF Requests
  <2> HIDE DEF new
  <2>3. Len(saves') = Len(saves) + 1 /\ saves'[Len(saves) + 1] = new
        BY <1>a, <2>1, <2>2, AppendProperties
  <2>4. saves' \in Seq(Requests)  BY <1>a, <2>1, <2>2, AppendProperties
  <2>5. k \in 1 .. Len(saves) + 1  BY <2>3, <2>4, LenProperties
  <2>6. k # Len(saves) + 1  BY <2>2, <2>3
  <2>7. k \in 1 .. Len(saves)  BY <2>5, <2>6, <1>b
  <2>8. saves'[k] = saves[k]
    <3>1. Append(saves, new)[k] = saves[k]  BY <1>a, <2>2, <2>7
    <3> QED  BY <3>1, <2>1
  <2> QED  BY <1>1, <1>b, <2>7, <2>8
<1>5. ASSUME NEW s \in Servers, NEW d \in Docs, Delete(s, d) PROVE Runs(t, row)'
      BY <1>1, <1>5 DEF Delete
<1>6. ASSUME NEW m \in DOMAIN saves, AfterChange(m) PROVE Runs(t, row)'
  <2>1. PICK st \in {"handled", "thrown"} : saves' = [saves EXCEPT ![m].status = st]
        BY <1>6 DEF AfterChange
  <2>2. k \in DOMAIN saves /\ saves[m] \in Requests  BY <2>1, <1>c
  <2>3. CASE k # m
    <3>1. saves'[k] = saves[k]  BY <2>1, <2>2, <2>3
    <3> QED  BY <1>1, <2>2, <3>1
  <2>4. CASE k = m
    <3> DEFINE rows == saves[m].rows
               reg == Construct(env[t], rows)
    <3>1. t = saves[m].server /\ saves'[k].rows = rows /\ saves'[k].status = st
          BY <2>1, <2>2, <2>4 DEF Requests
    <3>2. /\ Fault(rows) = 0 /\ env' = [env EXCEPT ![t] = reg]
          /\ live' = [live EXCEPT ![t] = Enriched(live[t], reg)]
      <4>1. Fault(rows) # 0 => saves' = [saves EXCEPT ![m].status = "thrown"]  BY <1>6 DEF AfterChange
      <4>2. Fault(rows) # 0 => saves'[k].status = "thrown"  BY <4>1, <2>2, <2>4 DEF Requests
      <4>3. Fault(rows) = 0  BY <4>2
      <4> QED  BY <4>3, <3>1, <1>6 DEF AfterChange
    <3>3. t \in Servers /\ rows \in Seq(AllRows)  BY <2>2, <3>1, RowsType DEF Requests
    <3>4. env[t] \in Regs /\ live[t] \in HookLists /\ env'[t] = reg /\ live'[t] = Enriched(live[t], reg)
          BY <3>2, <3>3 DEF TypeOK, Regs, HookLists, Hooks
    <3>5. row \in ToSet(rows)  BY <3>1
    <3>6. row.point \in Points /\ RunsIn(reg, Enriched(live[t], reg), row)
          BY <3>2, <3>3, <3>4, <3>5, RegisteringWorks
    <3> HIDE DEF rows, reg
    <3>7. row.point \in Points /\ RunsIn(env'[t], live'[t], row)  BY <3>4, <3>6
    <3> QED  BY <3>7 DEF Runs, RunsIn
  <2> QED  BY <2>3, <2>4
<1>7. CASE UNCHANGED vars  BY <1>1, <1>7 DEF vars
<1> QED  BY <1>2, <1>3, <1>4, <1>5, <1>6, <1>7 DEF Next

LEMMA BootRunsStoredHooksStep ==
    ASSUME TypeOK, TypeOK', PagesAreCounted, PagesFollowTable, BootRunsStoredHooks, [Next]_vars
    PROVE  BootRunsStoredHooks'
<1> USE DEF db, boot, history
<1>0. /\ phase \in [Servers -> {"down", "page 1", "pages", "serving"}]
      /\ untouched \in [Servers -> SUBSET Docs] /\ shifted \in [Servers -> BOOLEAN]
      /\ content \in [Docs -> Contents]
      BY DEF TypeOK
<1> SUFFICES ASSUME NEW s \in Servers, phase'[s] = "serving", ~shifted'[s],
                    NEW d \in untouched'[s], NEW row \in ToSet(content'[d])
             PROVE  Runs(s, row)'
    BY DEF BootRunsStoredHooks
<1>1. ASSUME phase[s] = "serving", ~shifted[s], d \in untouched[s], content'[d] = content[d]
      PROVE  Runs(s, row)'
  <2>1. Runs(s, row)  BY <1>1 DEF BootRunsStoredHooks
  <2> QED  BY <1>1, <2>1, FitsLasts
<1>2. ASSUME NEW t \in Servers, LoadConfig(t) PROVE Runs(s, row)'
  <2>1. t # s  BY <1>0, <1>2 DEF LoadConfig
  <2> QED  BY <1>0, <1>1, <1>2, <2>1 DEF LoadConfig
<1>3. ASSUME NEW t \in Servers, ReadFirstPage(t) PROVE Runs(s, row)'
  <2>1. t # s  BY <1>0, <1>3 DEF ReadFirstPage
  <2> QED  BY <1>0, <1>1, <1>3, <2>1 DEF ReadFirstPage
<1>4. ASSUME NEW t \in Servers, NEW i \in unread[t], ReadPage(t, i) PROVE Runs(s, row)'
      BY <1>1, <1>4 DEF ReadPage
<1>5. ASSUME NEW t \in Servers, FinishInit(t) PROVE Runs(s, row)'
  <2>1. CASE t # s  BY <1>0, <1>1, <1>5, <2>1 DEF FinishInit
  <2>2. CASE t = s
    <3> DEFINE rows == Held(s)
               reg == Construct(env[s], rows)
    <3>1. /\ phase[s] = "pages" /\ unread[s] = {} /\ UNCHANGED <<table, content, untouched, shifted>>
          BY <1>5, <2>2 DEF FinishInit
    <3>2. Fault(rows) = 0
      <4>1. Fault(rows) # 0 => phase' = [phase EXCEPT ![s] = "down"]  BY <1>5, <2>2 DEF FinishInit, Held
      <4> QED  BY <4>1, <1>0
    <3>3. env' = [env EXCEPT ![s] = reg] /\ live' = [live EXCEPT ![s] = Enriched(live[s], reg)]
          BY <3>2, <1>5, <2>2 DEF FinishInit, Held
    <3>4. rows \in Seq(AllRows) /\ \A i \in DOMAIN pages[s] : ToSet(pages[s][i]) \subseteq ToSet(rows)
          BY <3>1, HeldWorks
    <3>5. env[s] \in Regs /\ live[s] \in HookLists /\ env'[s] = reg /\ live'[s] = Enriched(live[s], reg)
          BY <3>3 DEF TypeOK, Regs, HookLists, Hooks
    <3>6. row \in ToSet(rows)
      <4>1. /\ untouched[s] \subseteq ToSet(table) /\ DOMAIN pages[s] = {1} \cup 2 .. TotalPages
            /\ \A i \in DOMAIN pages[s] : ShownOn(s, i)
            BY <3>1 DEF PagesFollowTable
      <4>2. table \in Seq(Docs) /\ PageSize \in Nat \ {0}  BY WebHooksAssumption DEF TypeOK
      <4>3. PICK j \in DOMAIN table : table[j] = d  BY <3>1, <4>1 DEF ToSet
      <4>4. PICK i \in 1 .. TotalPages : j \in OnPage(table, PageSize, i)
            BY <4>2, SomePageShows DEF TotalPages
      <4>5. i \in DOMAIN pages[s]  BY <4>1, <4>4
      <4>6. ToSet(content[d]) \subseteq ToSet(pages[s][i])  BY <4>1, <4>3, <4>4, <4>5, <3>1 DEF ShownOn
      <4> QED  BY <4>5, <4>6, <3>1, <3>4
    <3>7. row.point \in Points /\ RunsIn(reg, Enriched(live[s], reg), row)
          BY <3>2, <3>4, <3>5, <3>6, RegisteringWorks
    <3> HIDE DEF rows, reg
    <3>8. row.point \in Points /\ RunsIn(env'[s], live'[s], row)  BY <3>5, <3>7
    <3> QED  BY <3>8 DEF Runs, RunsIn
  <2> QED  BY <2>1, <2>2
<1>6. ASSUME NEW t \in Servers, Crash(t) PROVE Runs(s, row)'
  <2>1. t # s  BY <1>0, <1>6 DEF Crash
  <2> QED  BY <1>0, <1>1, <1>6, <2>1 DEF Crash
<1>7. ASSUME NEW t \in Servers, NEW e \in Docs, NEW rows \in Contents, Save(t, e, rows)
      PROVE  Runs(s, row)'
  <2>1. /\ phase' = phase /\ untouched'[s] = untouched[s] \ {e}
        /\ content' = [content EXCEPT ![e] = rows]
        BY <1>7 DEF Save, Touch
  <2>2. ~shifted[s]
    <3>1. shifted' = shifted \/ shifted'[s] = (shifted[s] \/ phase[s] = "pages")  BY <1>7 DEF Save, Shift
    <3> QED  BY <3>1
  <2>3. content'[d] = content[d]  BY <1>0, <2>1
  <2> QED  BY <1>1, <2>1, <2>2, <2>3
<1>8. ASSUME NEW t \in Servers, NEW e \in Docs, Delete(t, e) PROVE Runs(s, row)'
  <2>1. /\ phase' = phase /\ untouched'[s] = untouched[s] \ {e} /\ content' = content
        /\ shifted'[s] = (shifted[s] \/ phase[s] = "pages")
        BY <1>8 DEF Delete, Touch, Shift
  <2> QED  BY <1>1, <2>1
<1>9. ASSUME NEW k \in DOMAIN saves, AfterChange(k) PROVE Runs(s, row)'
      BY <1>1, <1>9 DEF AfterChange
<1>10. CASE UNCHANGED vars  BY <1>1, <1>10 DEF vars
<1> QED  BY <1>2, <1>3, <1>4, <1>5, <1>6, <1>7, <1>8, <1>9, <1>10 DEF Next, Boot

LEMMA InvInit == Init => Inv
<1> SUFFICES ASSUME Init PROVE Inv  OBVIOUS
<1>1. TypeOK  BY TypeInit
<1>2. \A s \in Servers : /\ phase[s] = "down" /\ DOMAIN pages[s] = {} /\ unread[s] = {}
                         /\ \A p \in Points : live[s][p] = <<Own>>
      BY DEF Init
<1>3. saves = <<>> /\ DOMAIN saves = {}  BY DEF Init
<1>4. OwnIsFirst  BY <1>2 DEF OwnIsFirst
<1> QED  BY <1>1, <1>2, <1>3, <1>4
         DEF Inv, SavesAreServed, PagesAreCounted, PagesFollowTable, AnsweredSavesAreRun, BootRunsStoredHooks

LEMMA InvStep == Inv /\ [Next]_vars => Inv'
<1> SUFFICES ASSUME Inv, [Next]_vars PROVE Inv'  OBVIOUS
<1>0. /\ TypeOK /\ OwnIsFirst /\ SavesAreServed /\ PagesAreCounted /\ PagesFollowTable
      /\ AnsweredSavesAreRun /\ BootRunsStoredHooks
      BY DEF Inv
<1>1. TypeOK'  BY <1>0, TypeStep
<1>2. OwnIsFirst'  BY <1>0, <1>1, OwnStep
<1>3. SavesAreServed'  BY <1>0, ServedStep
<1>4. PagesAreCounted'  BY <1>0, CountedStep
<1>5. PagesFollowTable'  BY <1>0, <1>1, FollowStep
<1>6. AnsweredSavesAreRun'  BY <1>0, <1>1, AnsweredSavesAreRunStep
<1>7. BootRunsStoredHooks'  BY <1>0, <1>1, BootRunsStoredHooksStep
<1> QED  BY <1>1, <1>2, <1>3, <1>4, <1>5, <1>6, <1>7 DEF Inv

LEMMA InvHolds == Spec => []Inv
<1> QED  BY InvInit, InvStep, PTL DEF Spec

-----------------------------------------------------------------------------
(* Theorems *)

\* The variables keep their types: the pages a server has read are the rows of
\* documents, registries are lists of targets, and the documents of the table
\* differ.
THEOREM WebHooksTypeCorrect == Spec => []TypeOK
<1>1. Inv => TypeOK  BY DEF Inv
<1> QED  BY <1>1, InvHolds, PTL

\* Once a save of a document has been answered, the server that took it runs
\* every hook the document asks for, for any rows and any saves and crashes on
\* any number of servers.
THEOREM AnsweredSavesAlwaysRun == Spec => []AnsweredSavesAreRun
<1>1. Inv => AnsweredSavesAreRun  BY DEF Inv
<1> QED  BY <1>1, InvHolds, PTL

\* A server that is up runs the hooks of every document that was there when it
\* began to read and is unchanged, in whatever order its reads of the pages were
\* answered, unless documents came or went meanwhile.
THEOREM BootAlwaysRunsStoredHooks == Spec => []BootRunsStoredHooks
<1>1. Inv => BootRunsStoredHooks  BY DEF Inv
<1> QED  BY <1>1, InvHolds, PTL

\* While a server is up its registry and the hooks of its collections only grow,
\* behind the hook that a collection brought itself.
THEOREM HooksOnlyEverGrow == Spec => HooksOnlyGrow
<1> DEFINE Growing ==
        \A s \in Servers : phase'[s] \in {"pages", "serving"} => \A p \in Points :
            /\ IsPrefix(env[s][p], env'[s][p])
            /\ IsPrefix(live[s][p], live'[s][p]) /\ live'[s][p][1] = Own
<1>1. ASSUME Inv, Inv', [Next]_vars PROVE Growing
  <2> SUFFICES ASSUME NEW s \in Servers, phase'[s] \in {"pages", "serving"}, NEW p \in Points
               PROVE  /\ IsPrefix(env[s][p], env'[s][p])
                      /\ IsPrefix(live[s][p], live'[s][p]) /\ live'[s][p][1] = Own
      OBVIOUS
  <2>1. TypeOK /\ PagesAreCounted /\ OwnIsFirst'  BY <1>1 DEF Inv
  <2>2. ~LoadConfig(s)
    <3>1. LoadConfig(s) => phase'[s] = "page 1"  BY <2>1 DEF LoadConfig, TypeOK
    <3> QED  BY <3>1
  <2>3. Grows(env[s], env'[s]) /\ Grows(live[s], live'[s])  BY <1>1, <2>1, <2>2, StepGrows
  <2> QED  BY <2>1, <2>3 DEF Grows, OwnIsFirst
<1>2. [][Growing]_vars <=> HooksOnlyGrow  BY DEF HooksOnlyGrow
<1> HIDE DEF Growing
<1> QED  BY <1>1, <1>2, InvHolds, PTL DEF Spec
=============================================================================
