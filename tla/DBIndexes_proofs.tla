--------------------------- MODULE DBIndexes_proofs ---------------------------
(***************************************************************************)
(* Proofs about DBIndexes, for any servers, documents and indexes, and any *)
(* number of failures and crashes: the type, what becomes of an index that *)
(* nobody rivals, and why an index outlives its document.                  *)
(***************************************************************************)
EXTENDS DBIndexes, TLAPS

USE IndexesAssumption DEF IndexesAssumption

-----------------------------------------------------------------------------
(* Sequences as the sets of what they hold *)

LEMMA ToSetAppend ==
    ASSUME NEW S, NEW s \in Seq(S), NEW x \in S
    PROVE  Append(s, x) \in Seq(S) /\ ToSet(Append(s, x)) = ToSet(s) \cup {x}
<1>1. /\ Append(s, x) \in Seq(S) /\ Len(Append(s, x)) = Len(s) + 1 /\ Len(s) \in Nat
      /\ \A i \in 1 .. Len(s) : Append(s, x)[i] = s[i]
      /\ Append(s, x)[Len(s) + 1] = x
      OBVIOUS
<1>2. DOMAIN s = 1 .. Len(s) /\ DOMAIN Append(s, x) = 1 .. Len(s) + 1  BY <1>1
<1> QED  BY <1>1, <1>2 DEF ToSet

LEMMA ToSetTail ==
    ASSUME NEW S, NEW s \in Seq(S), s # <<>>
    PROVE  /\ Head(s) \in S /\ Tail(s) \in Seq(S)
           /\ ToSet(s) = {Head(s)} \cup ToSet(Tail(s))
           /\ Len(s) > 1 => Tail(s) # <<>>
           /\ ~(Len(s) > 1) => ToSet(Tail(s)) = {}
<1>1. /\ Len(s) \in Nat /\ Len(s) > 0
      /\ Tail(s) \in Seq(S) /\ Len(Tail(s)) = Len(s) - 1
      /\ Head(s) = s[1] /\ \A i \in 1 .. Len(s) - 1 : Tail(s)[i] = s[i + 1]
      OBVIOUS
<1>2. DOMAIN s = 1 .. Len(s) /\ DOMAIN Tail(s) = 1 .. Len(s) - 1  BY <1>1
<1>3. ToSet(s) \subseteq {Head(s)} \cup ToSet(Tail(s))
  <2> SUFFICES ASSUME NEW i \in 1 .. Len(s) PROVE s[i] \in {Head(s)} \cup ToSet(Tail(s))
      BY <1>2 DEF ToSet
  <2>1. CASE i = 1  BY <1>1, <2>1
  <2>2. CASE i # 1
    <3>1. i - 1 \in 1 .. Len(s) - 1 /\ Tail(s)[i - 1] = s[i]  BY <1>1, <2>2
    <3> QED  BY <1>2, <3>1 DEF ToSet
  <2> QED  BY <2>1, <2>2
<1>4. {Head(s)} \cup ToSet(Tail(s)) \subseteq ToSet(s)
  <2>1. Head(s) \in ToSet(s)  BY <1>1, <1>2 DEF ToSet
  <2>2. ASSUME NEW i \in 1 .. Len(s) - 1 PROVE Tail(s)[i] \in ToSet(s)
        BY <1>1, <1>2 DEF ToSet
  <2> QED  BY <1>2, <2>1, <2>2 DEF ToSet
<1>5. Head(s) \in S  BY <1>1
<1>6. ASSUME Len(s) > 1 PROVE Tail(s) # <<>>
  <2> DEFINE t == Tail(s)
             n == Len(s)
  <2>1. t \in Seq(S) /\ Len(t) = n - 1 /\ n \in Nat /\ n > 1  BY <1>1, <1>6
  <2> SUFFICES t # <<>>  OBVIOUS
  <2> HIDE DEF t, n
  <2>2. Len(t) # 0  BY <2>1
  <2> QED  BY <2>1, <2>2
<1>7. ASSUME ~(Len(s) > 1) PROVE ToSet(Tail(s)) = {}
  <2>1. Len(s) = 1  BY <1>1, <1>7
  <2>2. DOMAIN Tail(s) = {}  BY <1>2, <2>1
  <2> QED  BY <2>2 DEF ToSet
<1> QED  BY <1>1, <1>3, <1>4, <1>5, <1>6, <1>7

LEMMA BaseTyped == Base \in Seq(Indexes) /\ ToSet(Base) = ToSet(Fields) \cup {UpdatedAt}
<1>1. ToSet(Fields) \subseteq ToSet(Fields) \cup {UpdatedAt}  OBVIOUS
<1>2. Fields \in Seq(ToSet(Fields) \cup {UpdatedAt})  BY <1>1
<1>3. /\ Base \in Seq(ToSet(Fields) \cup {UpdatedAt})
      /\ ToSet(Base) = ToSet(Fields) \cup {UpdatedAt}
      BY <1>2, ToSetAppend DEF Base
<1>4. ToSet(Base) \subseteq Indexes  BY DEF Indexes
<1> QED  BY <1>3, <1>4

-----------------------------------------------------------------------------
(* The type *)

\* Whoever waits has a server that waits, of a collection that is served, and what is
\* built is not yet all built.
\* A document is deleted once, and after it was created.
Routed ==
    \A d \in Docs :
        /\ create[d] \in Awaits => server[d]["create"] \in Servers /\ d \in Served
        /\ delete[d] \in Awaits => server[d]["delete"] \in Servers /\ d \in Served
        /\ create[d] = "build" => todo[d] # <<>>
        /\ d \in present => create[d] # "none" /\ delete[d] = "none"
        /\ delete[d] # "none" => create[d] # "none"

LEMMA StoredTyped ==
    /\ Stored \subseteq Docs
    /\ \A i, j \in ToSet(Base) \cup {Asked[d] : d \in Stored} : ~Clash(i, j)
    /\ ToSet(Fields) \subseteq ToSet(Base) /\ ToSet(Base) \subseteq Indexes
    /\ Fields \in Seq(Indexes)
    /\ \A d \in Docs : Asked[d] \in Indexes
<1>1. ToSet(Base) \subseteq Indexes /\ \A d \in Docs : Asked[d] \in Indexes  BY DEF Indexes
<1>2. ToSet(Fields) \subseteq ToSet(Base)  BY BaseTyped
<1>3. Fields \in Seq(Indexes)  BY <1>1, <1>2
<1> QED  BY <1>1, <1>2, <1>3

LEMMA InitTyped == Init => TypeOK /\ Routed
<1> SUFFICES ASSUME Init PROVE TypeOK /\ Routed  OBVIOUS
<1>1. indexes \subseteq ToSet(Base) \cup {Asked[d] : d \in Stored}
      BY StoredTyped DEF Init
<1>2. indexes \subseteq Indexes /\ \A i, j \in indexes : ~Clash(i, j)
      BY <1>1, StoredTyped
<1>3. schema \in [Servers -> Seq(Indexes)] /\ todo \in [Docs -> Seq(Indexes)]
      BY BaseTyped DEF Init
<1>4. /\ create \in [Docs -> Awaits \cup {"none", "created", "failed", "lost"}]
      /\ delete \in [Docs -> Awaits \cup {"none", "deleted", "failed", "lost"}]
      BY DEF Init, Awaits
<1>5. /\ server \in [Docs -> [{"create", "delete"} -> Servers \cup {None}]]
      /\ old \in [Docs -> {i.name : i \in Indexes} \cup {None}]
      BY DEF Init
<1>6. TypeOK  BY <1>2, <1>3, <1>4, <1>5, StoredTyped DEF Init, TypeOK
<1>7. Routed  BY StoredTyped DEF Init, Routed, Awaits
<1> QED  BY <1>6, <1>7
\* What enters a schema and a list of builds.
LEMMA StartTyped ==
    ASSUME TypeOK, Routed, NEW d \in Docs, create[d] \in Awaits, StartBuild(d)
    PROVE  LET s == server[d]["create"] IN
           /\ s \in Servers
           /\ schema' \in [Servers -> Seq(Indexes)] /\ todo' \in [Docs -> Seq(Indexes)]
           /\ ToSet(schema'[s]) = ToSet(schema[s]) \cup {Asked[d]}
           /\ \A t \in Servers \ {s} : schema'[t] = schema[t]
           /\ todo'[d] # <<>> /\ ToSet(todo'[d]) = ToSet(schema[s]) \cup {Asked[d]}
           /\ \A e \in Docs \ {d} : todo'[e] = todo[e]
           /\ create' = [create EXCEPT ![d] = "build"]
<1> DEFINE s == server[d]["create"]
           longer == Append(schema[s], Asked[d])
<1>1. s \in Servers  BY DEF Routed
<1>2. schema \in [Servers -> Seq(Indexes)] /\ todo \in [Docs -> Seq(Indexes)]  BY DEF TypeOK
<1>3. Asked[d] \in Indexes  BY StoredTyped
<1>4. longer \in Seq(Indexes) /\ ToSet(longer) = ToSet(schema[s]) \cup {Asked[d]}
      BY <1>1, <1>2, <1>3, ToSetAppend
<1>5. longer # <<>>
  <2>1. schema[s] \in Seq(Indexes)  BY <1>1, <1>2
  <2>2. Len(longer) = Len(schema[s]) + 1 /\ Len(schema[s]) \in Nat  BY <1>3, <2>1
  <2>3. Len(longer) # 0 /\ Len(<<>>) = 0  BY <2>2
  <2> HIDE DEF longer
  <2> QED  BY <2>3
<1> HIDE DEF longer
<1>6. /\ schema' = [schema EXCEPT ![s] = longer] /\ todo' = [todo EXCEPT ![d] = schema'[s]]
      /\ create' = [create EXCEPT ![d] = "build"]
      BY DEF StartBuild, longer
<1>7. schema'[s] = longer  BY <1>1, <1>2, <1>6
<1> QED  BY <1>1, <1>2, <1>4, <1>5, <1>6, <1>7

\* Who takes a request.
LEMMA BeginsStep ==
    ASSUME TypeOK, NEW d \in Docs, NEW s \in Servers, NEW kind \in {"create", "delete"},
           server' = IF d \in Served THEN [server EXCEPT ![d][kind] = s] ELSE server
    PROVE  /\ server' \in [Docs -> [{"create", "delete"} -> Servers \cup {None}]]
           /\ \A e \in Docs, k \in {"create", "delete"} :
                  server'[e][k] = server[e][k] \/ (e = d /\ k = kind)
           /\ d \in Served => server'[d][kind] = s
<1>1. server \in [Docs -> [{"create", "delete"} -> Servers \cup {None}]]  BY DEF TypeOK
<1>2. CASE d \in Served
  <2>1. server' = [server EXCEPT ![d] = [server[d] EXCEPT ![kind] = s]]
        BY <1>2
  <2>2. server'[d] = [server[d] EXCEPT ![kind] = s] /\ \A e \in Docs \ {d} : server'[e] = server[e]
        BY <1>1, <2>1
  <2>3. server[d] \in [{"create", "delete"} -> Servers \cup {None}]  BY <1>1
  <2>4. server'[d][kind] = s /\ \A k \in {"create", "delete"} \ {kind} : server'[d][k] = server[d][k]
        BY <2>2, <2>3
  <2>5. server'[d] \in [{"create", "delete"} -> Servers \cup {None}]  BY <2>2, <2>3
  <2>6. server' \in [Docs -> [{"create", "delete"} -> Servers \cup {None}]]
        BY <1>1, <2>1, <2>5
  <2> QED  BY <2>2, <2>4, <2>6
<1>3. CASE d \notin Served  BY <1>1, <1>3
<1> QED  BY <1>2, <1>3

LEMMA CreateStep ==
    ASSUME TypeOK, NEW d \in Docs, NEW s \in Servers, Create(d, s)
    PROVE  /\ create[d] = "none" /\ create'[d] = IF d \in Served THEN "list" ELSE "failed"
           /\ \A e \in Docs \ {d} : create'[e] = create[e]
           /\ create' \in [Docs -> Awaits \cup {"none", "created", "failed", "lost"}]
<1>1. create' = [create EXCEPT ![d] = IF d \in Served THEN "list" ELSE "failed"]
      BY DEF Create, Begins
<1> QED  BY <1>1 DEF TypeOK, Create, Awaits

LEMMA DeleteStep ==
    ASSUME TypeOK, NEW d \in Docs, NEW s \in Servers, Delete(d, s)
    PROVE  /\ d \in present /\ present' = present \ {d}
           /\ delete'[d] = IF d \in Served THEN "list" ELSE "failed"
           /\ \A e \in Docs \ {d} : delete'[e] = delete[e]
           /\ delete' \in [Docs -> Awaits \cup {"none", "deleted", "failed", "lost"}]
           /\ UNCHANGED <<indexes, schema, up, create, old, todo, refused, history, failures>>
<1>1. delete' = [delete EXCEPT ![d] = IF d \in Served THEN "list" ELSE "failed"]
      BY DEF Delete, Begins
<1>2. delete'[d] = IF d \in Served THEN "list" ELSE "failed"  BY <1>1 DEF TypeOK
<1>3. \A e \in Docs \ {d} : delete'[e] = delete[e]  BY <1>1 DEF TypeOK
<1>4. delete' \in [Docs -> Awaits \cup {"none", "deleted", "failed", "lost"}]
      BY <1>1 DEF TypeOK, Awaits
<1> QED  BY <1>2, <1>3, <1>4 DEF Delete

LEMMA CreateTyped ==
    ASSUME TypeOK, Routed, NEW d \in Docs, NEW s \in Servers, Create(d, s)
    PROVE  TypeOK' /\ Routed'
<1>1. /\ server' = IF d \in Served THEN [server EXCEPT ![d]["create"] = s] ELSE server
      /\ present' = present \cup {d}
      BY DEF Create, Begins
<1>2. UNCHANGED <<indexes, schema, up, delete, old, todo, refused, history, failures>>
      BY DEF Create
<1>3. TypeOK'  BY <1>1, <1>2, BeginsStep, CreateStep DEF TypeOK, history
<1>4. /\ \A e \in Docs : e # d => server'[e]["create"] = server[e]["create"]
      /\ \A e \in Docs : server'[e]["delete"] = server[e]["delete"]
      /\ d \in Served => server'[d]["create"] = s
      BY <1>1, BeginsStep
<1>5. Routed'  BY <1>1, <1>2, <1>4, CreateStep DEF Routed, Awaits
<1> QED  BY <1>3, <1>5

LEMMA DeleteTyped ==
    ASSUME TypeOK, Routed, NEW d \in Docs, NEW s \in Servers, Delete(d, s)
    PROVE  TypeOK' /\ Routed'
<1>1. server' = IF d \in Served THEN [server EXCEPT ![d]["delete"] = s] ELSE server
      BY DEF Delete, Begins
<1>2. UNCHANGED <<indexes, schema, up, create, old, todo, refused, history, failures>>
      BY DEF Delete
<1>3. TypeOK'  BY <1>1, <1>2, BeginsStep, DeleteStep DEF TypeOK, history
<1>4. /\ \A e \in Docs : e # d => server'[e]["delete"] = server[e]["delete"]
      /\ \A e \in Docs : server'[e]["create"] = server[e]["create"]
      /\ d \in Served => server'[d]["delete"] = s
      BY <1>1, BeginsStep
<1>5. Routed'  BY <1>2, <1>4, DeleteStep DEF Routed, Awaits
<1> QED  BY <1>3, <1>5

LEMMA FailuresTyped ==
    ASSUME TypeOK, Works \/ Fails
    PROVE  failures' \in 0 .. MaxFailures
BY DEF TypeOK, Works, Fails

LEMMA ListForCreateTyped ==
    ASSUME TypeOK, Routed, NEW d \in Docs, ListForCreate(d)
    PROVE  TypeOK' /\ Routed'
<1>1. failures' \in 0 .. MaxFailures  BY FailuresTyped DEF ListForCreate
<1>2. create[d] \in Awaits  BY DEF ListForCreate, Awaits
<1>3. CASE StartBuild(d) /\ UNCHANGED old
  <2>1. TypeOK'  BY <1>1, <1>2, <1>3, StartTyped DEF TypeOK, ListForCreate, Awaits, history
  <2>2. Routed'  BY <1>2, <1>3, StartTyped DEF TypeOK, Routed, ListForCreate, Awaits
  <2> QED  BY <2>1, <2>2
<1>4. CASE /\ \E i \in WithKey(Asked[d].key) : old' = [old EXCEPT ![d] = i.name]
           /\ create' = [create EXCEPT ![d] = "drop"]
           /\ UNCHANGED <<schema, todo>>
  <2>1. PICK i \in indexes : old' = [old EXCEPT ![d] = i.name]  BY <1>4 DEF WithKey
  <2>2. old' \in [Docs -> {j.name : j \in Indexes} \cup {None}]  BY <2>1 DEF TypeOK
  <2>3. TypeOK'  BY <1>1, <1>4, <2>2 DEF TypeOK, ListForCreate, Awaits, history
  <2>4. Routed'  BY <1>2, <1>4 DEF TypeOK, Routed, ListForCreate, Awaits
  <2> QED  BY <2>3, <2>4
<1>5. CASE FailCreate(d) /\ UNCHANGED old
  <2>1. TypeOK'  BY <1>1, <1>5 DEF TypeOK, ListForCreate, FailCreate, Awaits, history
  <2>2. Routed'  BY <1>5 DEF TypeOK, Routed, ListForCreate, FailCreate, Awaits
  <2> QED  BY <2>1, <2>2
<1> QED  BY <1>3, <1>4, <1>5 DEF ListForCreate

LEMMA DropOldTyped ==
    ASSUME TypeOK, Routed, NEW d \in Docs, DropOld(d)
    PROVE  TypeOK' /\ Routed'
<1>1. failures' \in 0 .. MaxFailures  BY FailuresTyped DEF DropOld
<1>2. create[d] \in Awaits /\ indexes' \subseteq indexes  BY DEF DropOld, Awaits
<1>3. CASE StartBuild(d)
  <2>1. TypeOK'  BY <1>1, <1>2, <1>3, StartTyped DEF TypeOK, DropOld, Awaits, history
  <2>2. Routed'  BY <1>2, <1>3, StartTyped DEF TypeOK, Routed, DropOld, Awaits
  <2> QED  BY <2>1, <2>2
<1>4. CASE FailCreate(d)
  <2>1. TypeOK'  BY <1>1, <1>2, <1>4 DEF TypeOK, DropOld, FailCreate, Awaits, history
  <2>2. Routed'  BY <1>4 DEF TypeOK, Routed, DropOld, FailCreate, Awaits
  <2> QED  BY <2>1, <2>2
<1> QED  BY <1>3, <1>4 DEF DropOld

\* One build: what it takes from the list and what it may do.
LEMMA BuildStep ==
    ASSUME TypeOK, Routed, NEW d \in Docs, Build(d)
    PROVE  LET i == Head(todo[d]) IN
           /\ create[d] = "build" /\ i \in Indexes
           /\ todo' \in [Docs -> Seq(Indexes)]
           /\ ToSet(todo[d]) = {i} \cup ToSet(todo'[d])
           /\ \A e \in Docs \ {d} : todo'[e] = todo[e] /\ create'[e] = create[e]
           /\ \/ create'[d] = "build" /\ todo'[d] # <<>>
              \/ create'[d] = "created" /\ d \notin refused' /\ ToSet(todo'[d]) = {}
              \/ create'[d] = "failed" /\ d \in refused'
           /\ create' \in [Docs -> Awaits \cup {"none", "created", "failed", "lost"}]
           /\ \/ /\ indexes' = indexes \cup {i} /\ (\A j \in indexes : ~Clash(i, j))
                 /\ rebuilt' = IF ForNoDocument(i) THEN rebuilt \cup {i} ELSE rebuilt
                 /\ refused' = refused /\ Works
              \/ /\ (Works /\ \E j \in indexes : Clash(i, j)) \/ Fails
                 /\ indexes' = indexes /\ rebuilt' = rebuilt /\ refused' = refused \cup {d}
<1> DEFINE i == Head(todo[d])
           next == IF Len(todo[d]) > 1 THEN "build" ELSE IF d \in refused' THEN "failed" ELSE "created"
<1>1. /\ create[d] = "build" /\ todo[d] # <<>> /\ todo[d] \in Seq(Indexes)
      /\ create \in [Docs -> Awaits \cup {"none", "created", "failed", "lost"}]
      /\ todo \in [Docs -> Seq(Indexes)]
      BY DEF Build, Routed, TypeOK
<1>2. /\ i \in Indexes /\ Tail(todo[d]) \in Seq(Indexes)
      /\ ToSet(todo[d]) = {i} \cup ToSet(Tail(todo[d]))
      /\ Len(todo[d]) > 1 => Tail(todo[d]) # <<>>
      /\ ~(Len(todo[d]) > 1) => ToSet(Tail(todo[d])) = {}
      BY <1>1, ToSetTail
<1>3. todo' = [todo EXCEPT ![d] = Tail(todo[d])] /\ create' = [create EXCEPT ![d] = next]
      BY <1>1 DEF Build
<1>4. todo'[d] = Tail(todo[d]) /\ create'[d] = next
      BY <1>1, <1>3
<1>5. /\ todo' \in [Docs -> Seq(Indexes)]
      /\ create' \in [Docs -> Awaits \cup {"none", "created", "failed", "lost"}]
      /\ \A e \in Docs \ {d} : todo'[e] = todo[e] /\ create'[e] = create[e]
      BY <1>1, <1>2, <1>3 DEF Awaits
<1>6. \/ create'[d] = "build" /\ todo'[d] # <<>>
      \/ create'[d] = "created" /\ d \notin refused' /\ ToSet(todo'[d]) = {}
      \/ create'[d] = "failed" /\ d \in refused'
      BY <1>2, <1>4
<1>7. \/ /\ indexes' = indexes \cup {i} /\ (\A j \in indexes : ~Clash(i, j))
         /\ rebuilt' = IF ForNoDocument(i) THEN rebuilt \cup {i} ELSE rebuilt
         /\ refused' = refused /\ Works
      \/ /\ (Works /\ \E j \in indexes : Clash(i, j)) \/ Fails
         /\ indexes' = indexes /\ rebuilt' = rebuilt /\ refused' = refused \cup {d}
      BY DEF Build
<1> QED  BY <1>1, <1>2, <1>4, <1>5, <1>6, <1>7
LEMMA BuildTyped ==
    ASSUME TypeOK, Routed, NEW d \in Docs, Build(d)
    PROVE  TypeOK' /\ Routed'
<1>1. failures' \in 0 .. MaxFailures  BY FailuresTyped DEF Build
<1>2. UNCHANGED <<present, schema, up, delete, server, old, killed>>  BY DEF Build
<1>3. indexes' \subseteq Indexes /\ rebuilt' \subseteq Indexes /\ refused' \subseteq Docs
  <2>1. Head(todo[d]) \in Indexes  BY BuildStep
  <2>2. /\ indexes' = indexes \cup {Head(todo[d])} \/ indexes' = indexes
        /\ rebuilt' = rebuilt \cup {Head(todo[d])} \/ rebuilt' = rebuilt
        /\ refused' = refused \cup {d} \/ refused' = refused
        BY DEF Build
  <2> QED  BY <2>1, <2>2 DEF TypeOK
<1>4. \A i, j \in indexes' : ~Clash(i, j)
  <2>1. \A i, j \in indexes : ~Clash(i, j)  BY DEF TypeOK
  <2>2. CASE indexes' = indexes  BY <2>1, <2>2
  <2>3. CASE /\ indexes' = indexes \cup {Head(todo[d])}
             /\ \A j \in indexes : ~Clash(Head(todo[d]), j)
        BY <2>1, <2>3 DEF Clash
  <2> QED  BY <2>2, <2>3, BuildStep
<1>5. TypeOK'  BY <1>1, <1>2, <1>3, <1>4, BuildStep DEF TypeOK
<1>6. Routed'  BY <1>2, BuildStep DEF TypeOK, Routed, Awaits
<1> QED  BY <1>5, <1>6

LEMMA ListForDeleteTyped ==
    ASSUME TypeOK, Routed, NEW d \in Docs, ListForDelete(d)
    PROVE  TypeOK' /\ Routed'
<1>1. failures' \in 0 .. MaxFailures  BY FailuresTyped DEF ListForDelete
<1>2. PICK next \in {"deleted", "drop", "failed"} : delete' = [delete EXCEPT ![d] = next]
      BY DEF ListForDelete
<1>3. delete[d] = "list"
      /\ UNCHANGED <<present, indexes, schema, up, create, server, old, todo, refused, history>>
      BY DEF ListForDelete
<1>4. TypeOK'  BY <1>1, <1>2, <1>3 DEF TypeOK, Awaits, history
<1>5. Routed'  BY <1>2, <1>3 DEF TypeOK, Routed, Awaits
<1> QED  BY <1>4, <1>5

\* A server that is gone takes what waits there along, and nothing else.
LEMMA DiesStep ==
    ASSUME TypeOK, Routed, NEW s, Dies(s)
    PROVE  /\ up' \subseteq Servers
           /\ create' \in [Docs -> Awaits \cup {"none", "created", "failed", "lost"}]
           /\ delete' \in [Docs -> Awaits \cup {"none", "deleted", "failed", "lost"}]
           /\ \A e \in Docs : create'[e] = create[e] \/ (create[e] \in Awaits /\ create'[e] = "lost")
           /\ \A e \in Docs : delete'[e] = delete[e] \/ (delete[e] \in Awaits /\ delete'[e] = "lost")
BY DEF TypeOK, Dies, Lost, Awaits

LEMMA DropDeletedTyped ==
    ASSUME TypeOK, Routed, NEW d \in Docs, DropDeleted(d)
    PROVE  TypeOK' /\ Routed'
<1>1. failures' \in 0 .. MaxFailures  BY FailuresTyped DEF DropDeleted
<1>2. /\ delete[d] = "drop" /\ server[d]["delete"] \in Servers
      /\ UNCHANGED <<present, schema, server, old, todo, refused, rebuilt>>
      BY DEF DropDeleted, Routed, Awaits
<1>3. CASE /\ indexes' = indexes \ Named(Asked[d].name)
           /\ delete' = [delete EXCEPT ![d] = "deleted"]
           /\ UNCHANGED <<up, create, killed>>
  <2>1. TypeOK'  BY <1>1, <1>2, <1>3 DEF TypeOK
  <2>2. Routed'  BY <1>2, <1>3 DEF TypeOK, Routed, Awaits
  <2> QED  BY <2>1, <2>2
<1>4. CASE /\ Dies(server[d]["delete"]) /\ killed' = killed \cup {server[d]["delete"]}
           /\ UNCHANGED indexes
  <2>1. TypeOK'  BY <1>1, <1>2, <1>4, DiesStep DEF TypeOK
  <2>2. Routed'  BY <1>2, <1>4, DiesStep DEF TypeOK, Routed, Awaits
  <2> QED  BY <2>1, <2>2
<1> QED  BY <1>3, <1>4 DEF DropDeleted

LEMMA CrashTyped ==
    ASSUME TypeOK, Routed, NEW s \in Servers, Crash(s)
    PROVE  TypeOK' /\ Routed'
<1>1. failures' \in 0 .. MaxFailures  BY FailuresTyped DEF Crash
<1>2. Dies(s) /\ UNCHANGED <<present, indexes, schema, server, old, todo, refused, history>>
      BY DEF Crash
<1>3. TypeOK'  BY <1>1, <1>2, DiesStep DEF TypeOK, history
<1>4. Routed'  BY <1>2, DiesStep DEF TypeOK, Routed, Awaits
<1> QED  BY <1>3, <1>4

LEMMA BootTyped ==
    ASSUME TypeOK, Routed, NEW s \in Servers, Boot(s)
    PROVE  TypeOK' /\ Routed'
<1>1. /\ up' = up \cup {s} /\ schema' = [schema EXCEPT ![s] = Base]
      /\ UNCHANGED <<present, requests, history, failures>>
      BY DEF Boot
<1>2. schema' \in [Servers -> Seq(Indexes)]  BY <1>1, BaseTyped DEF TypeOK
<1>3. indexes' \subseteq Indexes /\ \A i, j \in indexes' : ~Clash(i, j)
  <2>1. CASE UNCHANGED indexes  BY <2>1 DEF TypeOK
  <2>2. CASE indexes' = indexes \cup {i \in ToSet(Fields) : \A j \in indexes : ~Clash(i, j)}
    <3>1. \A i, j \in ToSet(Fields) : ~Clash(i, j)  BY StoredTyped
    <3>2. \A i, j \in indexes : ~Clash(i, j)  BY DEF TypeOK
    <3>3. ToSet(Fields) \subseteq Indexes  BY StoredTyped
    <3>4. \A i, j \in indexes' : ~Clash(i, j)  BY <2>2, <3>1, <3>2 DEF Clash
    <3> QED  BY <2>2, <3>3, <3>4 DEF TypeOK
  <2> QED  BY <2>1, <2>2 DEF Boot
<1>4. TypeOK'  BY <1>1, <1>2, <1>3 DEF TypeOK, requests, history
<1>5. Routed'  BY <1>1 DEF Routed, Awaits, requests
<1> QED  BY <1>4, <1>5

LEMMA TypeStep ==
    ASSUME TypeOK, Routed, [Next]_vars
    PROVE  TypeOK' /\ Routed'
<1>1. CASE UNCHANGED vars
      BY <1>1 DEF TypeOK, Routed, Awaits, vars, requests, history
<1>2. CASE Next
      BY <1>2, CreateTyped, DeleteTyped, ListForCreateTyped, DropOldTyped, BuildTyped,
         ListForDeleteTyped, DropDeletedTyped, CrashTyped, BootTyped DEF Next
<1> QED  BY <1>1, <1>2

\* The state keeps its type, and no two indexes of the database ever clash,
\* whatever is created, dropped, built and booted.
THEOREM TypeCorrect == Spec => []TypeOK
<1>1. Init => TypeOK /\ Routed  BY InitTyped
<1>2. TypeOK /\ Routed /\ [Next]_vars => (TypeOK /\ Routed)'  BY TypeStep
<1> QED  BY <1>1, <1>2, PTL DEF Spec
-----------------------------------------------------------------------------
(* Where an index may come from *)

\* Documents whose index may have entered a schema: Asked is known of no other.
Entered == {d \in Served : create[d] \notin {"none", "list", "drop"}}
Known == ToSet(Base) \cup {Asked[d] : d \in Entered}

KnownOnly ==
    /\ indexes \subseteq Known
    /\ \A s \in Servers : ToSet(schema[s]) \subseteq Known
    /\ \A d \in Docs : ToSet(todo[d]) \subseteq Known

\* What a create is about to drop had its key when it was looked for.
OldIsKnown ==
    \A d \in Docs : create[d] = "drop" =>
        \E i \in Known : i.name = old[d] /\ i.key = Asked[d].key

LEMMA Grows ==
    ASSUME TypeOK, Routed, [Next]_vars
    PROVE  /\ Started \subseteq Started' /\ Entered \subseteq Entered'
           /\ Known \subseteq Known' /\ \A d \in Docs : Alone(d)' => Alone(d)
<1>1. \A d \in Docs : \/ create'[d] = create[d]
                      \/ create[d] \in {"none", "list", "drop"} /\ create'[d] # "none"
                      \/ create'[d] \in {"build", "created", "failed", "lost"}
  <2> DEFINE Moves ==
          \A e \in Docs :
              \/ create'[e] = create[e]
              \/ create[e] \in {"none", "list", "drop"} /\ create'[e] # "none"
              \/ create'[e] \in {"build", "created", "failed", "lost"}
  <2>1. ASSUME NEW d \in Docs, NEW s \in Servers, Create(d, s) PROVE Moves
        BY <2>1, CreateStep
  <2>2. ASSUME NEW d \in Docs, ListForCreate(d) PROVE Moves
        BY <2>2 DEF ListForCreate, StartBuild, FailCreate, TypeOK
  <2>3. ASSUME NEW d \in Docs, DropOld(d) PROVE Moves
        BY <2>3 DEF DropOld, StartBuild, FailCreate, TypeOK
  <2>4. ASSUME NEW d \in Docs, Build(d) PROVE Moves
        BY <2>4, BuildStep
  <2>5. ASSUME NEW d \in Docs, DropDeleted(d) PROVE Moves
        BY <2>5, DiesStep DEF DropDeleted
  <2>6. ASSUME NEW s \in Servers, Crash(s) PROVE Moves
        BY <2>6, DiesStep DEF Crash
  <2>7. CASE UNCHANGED create  BY <2>7
  <2> QED  BY <2>1, <2>2, <2>3, <2>4, <2>5, <2>6, <2>7
           DEF Next, vars, requests, Delete, ListForDelete, Boot
<1>2. Started \subseteq Started' /\ Entered \subseteq Entered'  BY <1>1 DEF Started, Entered
<1>3. Known \subseteq Known'  BY <1>2 DEF Known
<1>4. \A d \in Docs : Alone(d)' => Alone(d)  BY <1>2 DEF Alone
<1> QED  BY <1>2, <1>3, <1>4

LEMMA StartKnown ==
    ASSUME TypeOK, Routed, KnownOnly, NEW d \in Docs, create[d] \in Awaits, StartBuild(d),
           Known \subseteq Known'
    PROVE  /\ \A s \in Servers : ToSet(schema'[s]) \subseteq Known'
           /\ \A e \in Docs : ToSet(todo'[e]) \subseteq Known'
<1>1. create'[d] = "build"  BY StartTyped DEF TypeOK
<1>2. d \in Served  BY DEF Routed
<1>6. Asked[d] \in Known'  BY <1>1, <1>2 DEF Known, Entered
<1>3. \A s \in Servers : ToSet(schema'[s]) \subseteq ToSet(schema[s]) \cup {Asked[d]}
      BY StartTyped
<1>4. \A e \in Docs : \/ ToSet(todo'[e]) = ToSet(todo[e])
                      \/ \E s \in Servers : ToSet(todo'[e]) = ToSet(schema[s]) \cup {Asked[d]}
      BY StartTyped
<1>5. /\ \A s \in Servers : ToSet(schema[s]) \subseteq Known'
      /\ \A e \in Docs : ToSet(todo[e]) \subseteq Known'
      BY DEF KnownOnly
<1> QED  BY <1>3, <1>4, <1>5, <1>6

LEMMA KnownInit == Init => KnownOnly /\ OldIsKnown
<1> SUFFICES ASSUME Init PROVE KnownOnly /\ OldIsKnown  OBVIOUS
<1>1. Stored \subseteq Entered  BY StoredTyped DEF Init, Entered
<1>2. indexes \subseteq Known  BY <1>1, StoredTyped DEF Init, Known
<1>3. \A s \in Servers : ToSet(schema[s]) \subseteq Known  BY DEF Init, Known
<1>4. \A d \in Docs : ToSet(todo[d]) = {}  BY DEF Init, ToSet
<1>5. OldIsKnown  BY DEF Init, OldIsKnown
<1> QED  BY <1>2, <1>3, <1>4, <1>5 DEF KnownOnly

LEMMA KnownStep ==
    ASSUME TypeOK, Routed, KnownOnly, OldIsKnown, [Next]_vars
    PROVE  KnownOnly' /\ OldIsKnown'
<1>1. Known \subseteq Known'  BY Grows
<1>2. /\ indexes \subseteq Known'
      /\ \A s \in Servers : ToSet(schema[s]) \subseteq Known'
      /\ \A d \in Docs : ToSet(todo[d]) \subseteq Known'
      BY <1>1 DEF KnownOnly
<1>3. \A e \in Docs : create[e] = "drop" =>
          \E i \in Known' : i.name = old[e] /\ i.key = Asked[e].key
      BY <1>1 DEF OldIsKnown
<1>4. ASSUME NEW d \in Docs, NEW s \in Servers, Create(d, s) PROVE KnownOnly' /\ OldIsKnown'
  <2>1. KnownOnly'  BY <1>2, <1>4 DEF KnownOnly, Create
  <2>2. UNCHANGED old  BY <1>4 DEF Create
  <2>3. OldIsKnown'  BY <1>3, <1>4, <2>2, CreateStep DEF OldIsKnown
  <2> QED  BY <2>1, <2>3
<1>5. ASSUME NEW d \in Docs, ListForCreate(d) PROVE KnownOnly' /\ OldIsKnown'
  <2>1. create[d] \in Awaits /\ UNCHANGED indexes  BY <1>5 DEF ListForCreate, Awaits
  <2>2. CASE StartBuild(d) /\ UNCHANGED old
    <3>1. KnownOnly'  BY <1>1, <1>2, <2>1, <2>2, StartKnown DEF KnownOnly
    <3>2. OldIsKnown'  BY <1>3, <2>1, <2>2, StartTyped DEF OldIsKnown, TypeOK
    <3> QED  BY <3>1, <3>2
  <2>3. CASE /\ \E i \in WithKey(Asked[d].key) : old' = [old EXCEPT ![d] = i.name]
             /\ create' = [create EXCEPT ![d] = "drop"]
             /\ UNCHANGED <<schema, todo>>
    <3>1. KnownOnly'  BY <1>2, <2>1, <2>3 DEF KnownOnly
    <3>2. PICK i \in indexes : i.key = Asked[d].key /\ old' = [old EXCEPT ![d] = i.name]
          BY <2>3 DEF WithKey
    <3>3. i \in Known' /\ old'[d] = i.name  BY <1>2, <3>2 DEF TypeOK
    <3>4. OldIsKnown'  BY <1>3, <2>3, <3>2, <3>3 DEF OldIsKnown, TypeOK
    <3> QED  BY <3>1, <3>4
  <2>4. CASE FailCreate(d) /\ UNCHANGED old
    <3>1. KnownOnly'  BY <1>2, <2>1, <2>4 DEF KnownOnly, FailCreate
    <3>2. OldIsKnown'  BY <1>3, <2>4 DEF OldIsKnown, FailCreate, TypeOK
    <3> QED  BY <3>1, <3>2
  <2> QED  BY <1>5, <2>2, <2>3, <2>4 DEF ListForCreate
<1>6. ASSUME NEW d \in Docs, DropOld(d) PROVE KnownOnly' /\ OldIsKnown'
  <2>1. create[d] \in Awaits /\ indexes' \subseteq indexes /\ UNCHANGED old
        BY <1>6 DEF DropOld, Awaits
  <2>2. CASE StartBuild(d)
    <3>1. KnownOnly'  BY <1>1, <1>2, <2>1, <2>2, StartKnown DEF KnownOnly
    <3>2. OldIsKnown'  BY <1>3, <2>1, <2>2, StartTyped DEF OldIsKnown, TypeOK
    <3> QED  BY <3>1, <3>2
  <2>3. CASE FailCreate(d)
    <3>1. KnownOnly'  BY <1>2, <2>1, <2>3 DEF KnownOnly, FailCreate
    <3>2. OldIsKnown'  BY <1>3, <2>1, <2>3 DEF OldIsKnown, FailCreate, TypeOK
    <3> QED  BY <3>1, <3>2
  <2> QED  BY <1>6, <2>2, <2>3 DEF DropOld
<1>7. ASSUME NEW d \in Docs, Build(d) PROVE KnownOnly' /\ OldIsKnown'
  <2>1. UNCHANGED <<schema, old>>  BY <1>7 DEF Build
  <2>2. /\ Head(todo[d]) \in ToSet(todo[d])
        /\ \A e \in Docs : ToSet(todo'[e]) \subseteq ToSet(todo[e])
        BY <1>7, BuildStep
  <2>3. indexes' \subseteq indexes \cup {Head(todo[d])}  BY <1>7, BuildStep
  <2>4. KnownOnly'  BY <1>2, <2>1, <2>2, <2>3 DEF KnownOnly
  <2>5. OldIsKnown'  BY <1>3, <1>7, <2>1, BuildStep DEF OldIsKnown
  <2> QED  BY <2>4, <2>5
<1>8. ASSUME NEW d \in Docs, DropDeleted(d) PROVE KnownOnly' /\ OldIsKnown'
  <2>1. indexes' \subseteq indexes /\ UNCHANGED <<schema, todo, old>>  BY <1>8 DEF DropDeleted
  <2>2. \A e \in Docs : create'[e] = create[e] \/ create'[e] = "lost"
        BY <1>8, DiesStep DEF DropDeleted
  <2> QED  BY <1>2, <1>3, <2>1, <2>2 DEF KnownOnly, OldIsKnown
<1>9. ASSUME NEW s \in Servers, Crash(s) PROVE KnownOnly' /\ OldIsKnown'
  <2>1. UNCHANGED <<indexes, schema, todo, old>>  BY <1>9 DEF Crash
  <2>2. \A e \in Docs : create'[e] = create[e] \/ create'[e] = "lost"
        BY <1>9, DiesStep DEF Crash
  <2> QED  BY <1>2, <1>3, <2>1, <2>2 DEF KnownOnly, OldIsKnown
<1>10. ASSUME NEW s \in Servers, Boot(s) PROVE KnownOnly' /\ OldIsKnown'
  <2>1. schema' = [schema EXCEPT ![s] = Base] /\ UNCHANGED <<create, old, todo>>
        BY <1>10 DEF Boot, requests
  <2>2. indexes' \subseteq indexes \cup ToSet(Base)  BY <1>10, StoredTyped DEF Boot
  <2>3. ToSet(Base) \subseteq Known'  BY DEF Known
  <2>4. KnownOnly'  BY <1>2, <2>1, <2>2, <2>3 DEF KnownOnly, TypeOK
  <2>5. OldIsKnown'  BY <1>3, <2>1 DEF OldIsKnown
  <2> QED  BY <2>4, <2>5
<1>11. CASE UNCHANGED <<create, indexes, schema, todo, old>>
       BY <1>2, <1>3, <1>11 DEF KnownOnly, OldIsKnown
<1> QED  BY <1>4, <1>5, <1>6, <1>7, <1>8, <1>9, <1>10, <1>11
         DEF Next, vars, requests, Delete, ListForDelete
\* A known index that shares a name or a key with one that is alone is that one.
LEMMA AloneIsUnique ==
    ASSUME NEW d \in Docs, Alone(d), NEW i \in Known, Share(Asked[d], i)
    PROVE  i = Asked[d] /\ d \in Entered
<1>1. i \notin ToSet(Base)  BY DEF Alone
<1>2. PICK e \in Entered : i = Asked[e]  BY <1>1 DEF Known
<1>3. e \in Started /\ e \in Docs  BY DEF Entered, Started
<1>4. e = d  BY <1>2, <1>3 DEF Alone
<1> QED  BY <1>2, <1>4

-----------------------------------------------------------------------------
(* The index of a document that is alone *)

\* The property for one document, and what it comes from: between the schema and
\* the answer the index is built or about to be.
Indexed(d) ==
    /\ create[d] = "created" /\ Alone(d) => Asked[d] \in indexes
    /\ create[d] = "build" /\ d \notin refused /\ Alone(d) => Asked[d] \in ToSet(todo[d]) \cup indexes

LEMMA IndexedStep ==
    ASSUME TypeOK, Routed, KnownOnly, OldIsKnown, [Next]_vars,
           \A d \in present : Indexed(d), NEW e \in present'
    PROVE  Indexed(e)'
<1>1. /\ \A d \in Docs : Alone(d)' => Alone(d)
      /\ present \subseteq Docs /\ \A d \in present : delete[d] = "none"
      BY Grows DEF TypeOK, Routed
<1>2. ASSUME NEW d \in Docs, NEW s \in Servers, Create(d, s) PROVE Indexed(e)'
  <2>1. UNCHANGED <<indexes, todo, refused>> /\ present' = present \cup {d}  BY <1>2 DEF Create
  <2>2. e = d => create'[e] \in {"list", "failed"}  BY <1>2, CreateStep
  <2>3. e # d => e \in present /\ create'[e] = create[e]  BY <1>1, <1>2, <2>1, CreateStep
  <2> QED  BY <1>1, <2>1, <2>2, <2>3 DEF Indexed
<1>3. ASSUME NEW d \in Docs, ListForCreate(d) PROVE Indexed(e)'
  <2>1. create[d] \in Awaits /\ UNCHANGED <<indexes, refused, present>>
        BY <1>3 DEF ListForCreate, Awaits
  <2>2. CASE StartBuild(d)  BY <1>1, <2>1, <2>2, StartTyped DEF Indexed, TypeOK
  <2>3. CASE create'[d] \in {"drop", "failed"} /\ UNCHANGED todo
             /\ \A f \in Docs \ {d} : create'[f] = create[f]
        BY <1>1, <2>1, <2>3 DEF Indexed
  <2> QED  BY <1>3, <2>2, <2>3 DEF ListForCreate, FailCreate, TypeOK
<1>4. ASSUME NEW d \in Docs, DropOld(d) PROVE Indexed(e)'
  <2>1. /\ create[d] = "drop" /\ create[d] \in Awaits
        /\ UNCHANGED <<refused, present, old>>
        BY <1>4 DEF DropOld, Awaits
  <2>2. e # d /\ Alone(e) => Asked[e] \notin Named(old[d])
    <3> SUFFICES ASSUME e # d, Alone(e), Asked[e] \in Named(old[d]) PROVE FALSE
        OBVIOUS
    <3>1. PICK i \in Known : i.name = old[d] /\ i.key = Asked[d].key
          BY <2>1 DEF OldIsKnown
    <3>2. e \in Docs /\ Share(Asked[e], i)  BY <1>1, <2>1, <3>1 DEF Named, Share
    <3>3. i = Asked[e]  BY <3>2, AloneIsUnique
    <3>4. Share(Asked[e], Asked[d])  BY <3>1, <3>3 DEF Share
    <3>5. d \in Started  BY <2>1 DEF Started, Routed
    <3> QED  BY <3>4, <3>5 DEF Alone
  <2>3. indexes \ Named(old[d]) \subseteq indexes'  BY <1>4 DEF DropOld
  <2>4. CASE StartBuild(d)  BY <1>1, <2>1, <2>2, <2>3, <2>4, StartTyped DEF Indexed, TypeOK
  <2>5. CASE FailCreate(d)  BY <1>1, <2>1, <2>2, <2>3, <2>5 DEF Indexed, FailCreate, TypeOK
  <2> QED  BY <1>4, <2>4, <2>5 DEF DropOld
<1>5. ASSUME NEW d \in Docs, Build(d) PROVE Indexed(e)'
  <2>1. UNCHANGED present /\ indexes \subseteq indexes'  BY <1>5, BuildStep DEF Build
  <2>2. CASE e # d
        BY <1>1, <1>5, <2>1, <2>2, BuildStep DEF Indexed
  <2>3. CASE e = d
    <3>1. d \in refused \/ ~Alone(d)' \/ Asked[d] \in ToSet(todo[d]) \cup indexes
          BY <1>1, <1>5, <2>1, <2>3, BuildStep DEF Indexed
    <3>2. refused \subseteq refused'  BY <1>5, BuildStep
    <3>3. d \in refused' \/ ~Alone(d)' \/ Asked[d] \in ToSet(todo'[d]) \cup indexes'
          BY <1>5, <2>1, <3>1, <3>2, BuildStep
    <3> QED  BY <1>5, <2>3, <3>3, BuildStep DEF Indexed
  <2> QED  BY <2>2, <2>3
<1>6. ASSUME NEW d \in Docs, NEW s \in Servers, Delete(d, s) PROVE Indexed(e)'
      BY <1>1, <1>6 DEF Indexed, Delete
<1>7. ASSUME NEW d \in Docs, DropDeleted(d) PROVE Indexed(e)'
  <2>1. UNCHANGED <<present, todo, refused>> /\ delete[d] = "drop"
        BY <1>7 DEF DropDeleted
  <2>2. d \in Started /\ e # d /\ e \in Docs  BY <1>1, <2>1 DEF Routed, Started, Awaits
  <2>3. Alone(e) => Asked[e] \notin Named(Asked[d].name)
        BY <2>2 DEF Named, Alone, Share
  <2>4. indexes \ Named(Asked[d].name) \subseteq indexes'  BY <1>7 DEF DropDeleted
  <2>5. create'[e] \in {create[e], "lost"}  BY <1>7, <2>2, DiesStep DEF DropDeleted
  <2> QED  BY <1>1, <2>1, <2>3, <2>4, <2>5 DEF Indexed
<1>8. ASSUME NEW s \in Servers, Crash(s) PROVE Indexed(e)'
  <2>1. UNCHANGED <<present, indexes, todo, refused>>  BY <1>8 DEF Crash
  <2>2. create'[e] \in {create[e], "lost"}  BY <1>1, <1>8, <2>1, DiesStep DEF Crash
  <2> QED  BY <1>1, <2>1, <2>2 DEF Indexed
<1>9. CASE indexes \subseteq indexes' /\ UNCHANGED <<present, create, todo, refused>>
      BY <1>1, <1>9 DEF Indexed
<1>10. ASSUME NEW s \in Servers, Boot(s)
       PROVE indexes \subseteq indexes' /\ UNCHANGED <<present, create, todo, refused>>
       BY <1>10 DEF Boot, requests
<1>11. ASSUME NEW d \in Docs, ListForDelete(d)
       PROVE indexes \subseteq indexes' /\ UNCHANGED <<present, create, todo, refused>>
       BY <1>11 DEF ListForDelete
<1> QED  BY <1>2, <1>3, <1>4, <1>5, <1>6, <1>7, <1>8, <1>9, <1>10, <1>11
         DEF Next, vars, requests
-----------------------------------------------------------------------------
(* Without rivals and without failures *)

AllAlone == \A d \in Started : Alone(d)

\* Nothing is found with the key of a new index, nothing is refused, and what is
\* found for a document that is gone stays until it is dropped.
Peace ==
    /\ \A d \in Served : create[d] \notin {"drop", "failed"}
    /\ \A d \in Docs : delete[d] = "drop" => Asked[d] \in indexes
    /\ refused = {} /\ killed = {}
Undisturbed == AllAlone /\ failures = 0 => Peace

LEMMA KnownNeverClash ==
    ASSUME AllAlone, NEW i \in Known, NEW j \in Known
    PROVE  ~Clash(i, j)
<1> SUFFICES ASSUME Clash(i, j) PROVE FALSE  OBVIOUS
<1>1. CASE i \in ToSet(Base) /\ j \in ToSet(Base)  BY <1>1, StoredTyped
<1>2. ASSUME NEW d \in Entered, Share(Asked[d], i), Share(Asked[d], j) PROVE FALSE
  <2>1. d \in Docs /\ Alone(d)  BY DEF AllAlone, Started, Entered
  <2>2. i = Asked[d] /\ j = Asked[d]  BY <1>2, <2>1, AloneIsUnique
  <2> QED  BY <2>2 DEF Clash
<1> QED  BY <1>1, <1>2 DEF Known, Clash, Share

LEMMA UndisturbedStep ==
    ASSUME TypeOK, Routed, KnownOnly, [Next]_vars, Undisturbed
    PROVE  Undisturbed'
<1> SUFFICES ASSUME AllAlone', failures' = 0 PROVE Peace'
    BY DEF Undisturbed
<1>1. failures = 0 /\ ~Fails
  <2>1. failures \in Nat  BY DEF TypeOK
  <2>2. ~Fails  BY <2>1 DEF Fails
  <2>3. Works \/ Fails \/ UNCHANGED failures
        BY DEF Next, vars, requests, history, Create, Delete, ListForCreate, DropOld, Build,
               ListForDelete, DropDeleted, Crash, Boot
  <2> QED  BY <2>2, <2>3 DEF Works
<1>2. AllAlone  BY Grows DEF AllAlone, Started
<1>3. /\ \A d \in Served : create[d] \notin {"drop", "failed"}
      /\ \A d \in Docs : delete[d] = "drop" => Asked[d] \in indexes
      /\ refused = {} /\ killed = {}
      BY <1>1, <1>2 DEF Undisturbed, Peace
<1>4. ASSUME NEW d \in Docs, NEW s \in Servers, Create(d, s) PROVE Peace'
  <2>1. UNCHANGED <<indexes, delete, refused, killed>>  BY <1>4 DEF Create, history
  <2>2. \A e \in Served : create'[e] \notin {"drop", "failed"}  BY <1>3, <1>4, CreateStep
  <2> QED  BY <1>3, <2>1, <2>2 DEF Peace
<1>5. ASSUME NEW d \in Docs, ListForCreate(d) PROVE Peace'
  <2>1. create[d] = "list" /\ d \in Docs /\ Alone(d) /\ d \notin Entered
        BY <1>2, <1>5 DEF ListForCreate, AllAlone, Started, Entered, Routed, Awaits
  <2>2. WithKey(Asked[d].key) = {}
    <3> SUFFICES ASSUME NEW i \in indexes, i.key = Asked[d].key PROVE FALSE
        BY DEF WithKey
    <3>1. i \in Known /\ Share(Asked[d], i)  BY DEF KnownOnly, Share
    <3> QED  BY <2>1, <3>1, AloneIsUnique
  <2>3. create' = [create EXCEPT ![d] = "build"]
        BY <1>1, <1>5, <2>2 DEF ListForCreate, StartBuild
  <2> QED  BY <1>3, <1>5, <2>3 DEF ListForCreate, TypeOK, Peace, history
<1>6. ASSUME NEW d \in Docs, DropOld(d) PROVE Peace'
  <2>1. d \in Served /\ create[d] = "drop"  BY <1>6 DEF DropOld, Routed, Awaits
  <2> QED  BY <1>3, <2>1
<1>7. ASSUME NEW d \in Docs, Build(d) PROVE Peace'
  <2>1. Head(todo[d]) \in Known /\ indexes \subseteq Known
        BY <1>7, BuildStep DEF KnownOnly
  <2>2. \A j \in indexes : ~Clash(Head(todo[d]), j)  BY <1>2, <2>1, KnownNeverClash
  <2>3. refused' = refused /\ indexes \subseteq indexes'  BY <1>1, <1>7, <2>2, BuildStep
  <2>4. create'[d] \in {"build", "created"} /\ \A e \in Docs \ {d} : create'[e] = create[e]
        BY <1>3, <1>7, <2>3, BuildStep
  <2>5. UNCHANGED <<delete, killed>>  BY <1>7 DEF Build
  <2> QED  BY <1>3, <2>3, <2>4, <2>5 DEF Peace
<1>8. ASSUME NEW d \in Docs, NEW s \in Servers, Delete(d, s) PROVE Peace'
  <2>1. UNCHANGED <<indexes, create, refused, killed>>  BY <1>8, DeleteStep DEF history
  <2>2. \A e \in Docs : delete'[e] = "drop" => delete[e] = "drop"  BY <1>8, DeleteStep
  <2> QED  BY <1>3, <2>1, <2>2 DEF Peace
<1>9. ASSUME NEW d \in Docs, ListForDelete(d) PROVE Peace'
  <2>1. delete[d] = "list" /\ d \in Started /\ Alone(d)
        BY <1>2, <1>9 DEF ListForDelete, AllAlone, Routed, Started, Awaits
  <2>2. WithKey(Asked[d].key) # {} => Asked[d] \in indexes
    <3> SUFFICES ASSUME NEW i \in indexes, i.key = Asked[d].key PROVE i = Asked[d]
        BY DEF WithKey
    <3>1. i \in Known /\ Share(Asked[d], i)  BY DEF KnownOnly, Share
    <3> QED  BY <2>1, <3>1, AloneIsUnique
  <2>3. delete' = [delete EXCEPT ![d] = IF WithKey(Asked[d].key) = {} THEN "deleted" ELSE "drop"]
        BY <1>1, <1>9 DEF ListForDelete
  <2>4. \A e \in Docs : delete'[e] = "drop" => Asked[e] \in indexes
        BY <1>3, <2>2, <2>3 DEF TypeOK
  <2> QED  BY <1>3, <1>9, <2>4 DEF ListForDelete, Peace, history
<1>10. ASSUME NEW d \in Docs, DropDeleted(d) PROVE Peace'
  <2>1. delete[d] = "drop" /\ Asked[d] \in Named(Asked[d].name)
        BY <1>3, <1>10 DEF DropDeleted, Named
  <2>2. /\ indexes' = indexes \ Named(Asked[d].name)
        /\ delete' = [delete EXCEPT ![d] = "deleted"]
        /\ UNCHANGED <<create, killed, refused>>
        BY <1>1, <1>10, <2>1 DEF DropDeleted
  <2>3. ASSUME NEW e \in Docs, delete'[e] = "drop" PROVE Asked[e] \in indexes'
    <3>1. e # d /\ delete[e] = "drop"  BY <2>2, <2>3 DEF TypeOK
    <3>2. e \in Started /\ d \in Started /\ Alone(e)
          BY <1>2, <2>1, <3>1 DEF AllAlone, Routed, Started, Awaits
    <3>3. Asked[e] \notin Named(Asked[d].name)  BY <3>1, <3>2 DEF Named, Alone, Share
    <3> QED  BY <1>3, <2>2, <3>1, <3>3
  <2> QED  BY <1>3, <2>2, <2>3 DEF Peace
<1>11. ASSUME NEW s \in Servers, Crash(s) PROVE Peace'
       BY <1>1, <1>11 DEF Crash
<1>12. CASE indexes \subseteq indexes' /\ UNCHANGED <<create, delete, refused, killed>>
       BY <1>3, <1>12 DEF Peace
<1>13. ASSUME NEW s \in Servers, Boot(s)
       PROVE indexes \subseteq indexes' /\ UNCHANGED <<create, delete, refused, killed>>
       BY <1>13 DEF Boot, requests, history
<1> QED  BY <1>4, <1>5, <1>6, <1>7, <1>8, <1>9, <1>10, <1>11, <1>12, <1>13
         DEF Next, vars, requests, history

-----------------------------------------------------------------------------
(* Indexes of nobody *)

Explained(i) ==
    \/ i \in rebuilt
    \/ \E d \in Served : Asked[d] = i /\ delete[d] \in {"list", "drop", "failed", "lost"}

LEMMA ExplainedStep ==
    ASSUME TypeOK, Routed, [Next]_vars, OrphanIndexesAreExplained
    PROVE  OrphanIndexesAreExplained'
<1>1. \A i \in indexes : ForNoDocument(i) => Explained(i)
      BY DEF OrphanIndexesAreExplained, Explained
<1> SUFFICES ASSUME NEW i \in indexes', ForNoDocument(i)' PROVE Explained(i)'
    BY DEF OrphanIndexesAreExplained, Explained
<1>2. i \notin ToSet(Base) /\ \A d \in present' \cap Served : Asked[d] # i  BY DEF ForNoDocument
<1>3. CASE present \subseteq present' /\ indexes' \subseteq indexes /\ UNCHANGED <<delete, rebuilt>>
      BY <1>1, <1>2, <1>3 DEF ForNoDocument, Explained
<1>4. ASSUME NEW d \in Docs, ListForCreate(d) \/ DropOld(d) \/ (\E s \in Servers : Create(d, s))
      PROVE present \subseteq present' /\ indexes' \subseteq indexes /\ UNCHANGED <<delete, rebuilt>>
      BY <1>4 DEF ListForCreate, DropOld, Create, history
<1>5. ASSUME NEW d \in Docs, Build(d) PROVE Explained(i)'
  <2>1. UNCHANGED <<present, delete>> /\ rebuilt \subseteq rebuilt'  BY <1>5 DEF Build
  <2>2. ForNoDocument(i)  BY <1>2, <2>1 DEF ForNoDocument
  <2>3. CASE i \in indexes  BY <1>1, <2>1, <2>2, <2>3 DEF Explained
  <2>4. CASE i \notin indexes
    <3>1. i = Head(todo[d]) /\ rebuilt' = rebuilt \cup {i}  BY <1>5, <2>2, <2>4, BuildStep
    <3> QED  BY <3>1 DEF Explained
  <2> QED  BY <2>3, <2>4
<1>6. ASSUME NEW d \in Docs, NEW s \in Servers, Delete(d, s) PROVE Explained(i)'
  <2>1. /\ present' = present \ {d} /\ UNCHANGED <<indexes, rebuilt>> /\ d \in present
        /\ d \in Served => delete'[d] = "list"
        /\ \A e \in Docs \ {d} : delete'[e] = delete[e]
        BY <1>6, DeleteStep DEF history
  <2>2. CASE Asked[d] = i /\ d \in Served  BY <2>1, <2>2 DEF Explained
  <2>3. CASE ~(Asked[d] = i /\ d \in Served)
    <3>1. ForNoDocument(i)  BY <1>2, <2>1, <2>3 DEF ForNoDocument
    <3>2. Explained(i)  BY <1>1, <2>1, <3>1
    <3>3. delete[d] = "none"  BY <2>1 DEF Routed, TypeOK
    <3> QED  BY <2>1, <3>2, <3>3 DEF Explained
  <2> QED  BY <2>2, <2>3
<1>7. ASSUME NEW d \in Docs, ListForDelete(d) PROVE Explained(i)'
  <2>1. UNCHANGED <<present, indexes, rebuilt>>  BY <1>7 DEF ListForDelete, history
  <2>2. Explained(i)  BY <1>1, <1>2, <2>1 DEF ForNoDocument
  <2>3. Asked[d] = i => WithKey(Asked[d].key) # {}  BY <2>1 DEF WithKey
  <2>4. Asked[d] = i => delete'[d] \in {"drop", "failed"}
        BY <1>7, <2>3 DEF ListForDelete, TypeOK
  <2>5. \A e \in Docs \ {d} : delete'[e] = delete[e]  BY <1>7 DEF ListForDelete, TypeOK
  <2> QED  BY <2>1, <2>2, <2>4, <2>5 DEF Explained
<1>8. ASSUME NEW d \in Docs, DropDeleted(d) PROVE Explained(i)'
  <2>1. UNCHANGED <<present, rebuilt>> /\ indexes' \subseteq indexes  BY <1>8 DEF DropDeleted
  <2>2. Explained(i)  BY <1>1, <1>2, <2>1 DEF ForNoDocument
  <2>3. CASE /\ indexes' = indexes \ Named(Asked[d].name)
             /\ delete' = [delete EXCEPT ![d] = "deleted"]
    <3>1. Asked[d] # i  BY <2>1, <2>3 DEF Named
    <3> QED  BY <2>1, <2>2, <2>3, <3>1 DEF Explained, TypeOK
  <2>4. CASE \A e \in Docs : delete'[e] = delete[e] \/ delete'[e] = "lost"
        BY <2>1, <2>2, <2>4 DEF Explained
  <2> QED  BY <1>8, <2>3, <2>4, DiesStep DEF DropDeleted
<1>9. ASSUME NEW s \in Servers, Crash(s) PROVE Explained(i)'
  <2>1. UNCHANGED <<present, indexes, rebuilt>>  BY <1>9 DEF Crash, history
  <2>2. Explained(i)  BY <1>1, <1>2, <2>1 DEF ForNoDocument
  <2>3. \A e \in Docs : delete'[e] = delete[e] \/ delete'[e] = "lost"
        BY <1>9, DiesStep DEF Crash
  <2> QED  BY <2>1, <2>2, <2>3 DEF Explained
<1>10. ASSUME NEW s \in Servers, Boot(s) PROVE Explained(i)'
  <2>1. UNCHANGED <<present, delete, rebuilt>>  BY <1>10 DEF Boot, requests, history
  <2>2. i \in indexes  BY <1>2, <1>10, StoredTyped DEF Boot
  <2> QED  BY <1>1, <1>2, <2>1, <2>2 DEF ForNoDocument, Explained
<1> QED  BY <1>3, <1>4, <1>5, <1>6, <1>7, <1>8, <1>9, <1>10
         DEF Next, vars, requests, history

-----------------------------------------------------------------------------
(* The theorems *)

IInv ==
    /\ TypeOK /\ Routed /\ KnownOnly /\ OldIsKnown
    /\ \A d \in present : Indexed(d)
    /\ Undisturbed
    /\ OrphanIndexesAreExplained

LEMMA InitIInv == Init => IInv
<1> SUFFICES ASSUME Init PROVE IInv  OBVIOUS
<1>1. TypeOK /\ Routed /\ KnownOnly /\ OldIsKnown  BY InitTyped, KnownInit
<1>2. /\ present = Stored /\ {Asked[d] : d \in Stored} \subseteq indexes
      /\ \A d \in Docs : create[d] \in {"none", "created"} /\ delete[d] = "none"
      /\ refused = {} /\ killed = {}
      BY DEF Init
<1>3. indexes \subseteq ToSet(Base) \cup {Asked[d] : d \in Stored}  BY StoredTyped DEF Init
<1>4. \A d \in present : Indexed(d)  BY <1>2, StoredTyped DEF Indexed
<1>5. Undisturbed  BY <1>2 DEF Undisturbed, Peace
<1>6. OrphanIndexesAreExplained  BY <1>2, <1>3 DEF OrphanIndexesAreExplained, ForNoDocument
<1> QED  BY <1>1, <1>4, <1>5, <1>6 DEF IInv

LEMMA StepIInv == IInv /\ [Next]_vars => IInv'
<1> SUFFICES ASSUME IInv, [Next]_vars PROVE IInv'  OBVIOUS
<1>1. (TypeOK /\ Routed /\ KnownOnly /\ OldIsKnown)'  BY TypeStep, KnownStep DEF IInv
<1>2. (\A d \in present : Indexed(d))'  BY IndexedStep DEF IInv
<1>3. Undisturbed'  BY UndisturbedStep DEF IInv
<1>4. OrphanIndexesAreExplained'  BY ExplainedStep DEF IInv
<1> QED  BY <1>1, <1>2, <1>3, <1>4 DEF IInv

\* The index of a document whose create was answered is in the database as long as
\* nothing else ever asked for shares its name or its key.
THEOREM DocumentsAlwaysIndexed == Spec => []DocumentsAreIndexed
<1>1. IInv => DocumentsAreIndexed  BY DEF IInv, Indexed, DocumentsAreIndexed
<1> QED  BY <1>1, InitIInv, StepIInv, PTL DEF Spec

\* Without a failure of the database a create is refused only where two indexes
\* that were asked for share a name or a key.
THEOREM OnlyRivalsEverFail == Spec => []OnlyRivalsFail
<1>1. IInv => OnlyRivalsFail
      BY DEF IInv, Undisturbed, Peace, AllAlone, OnlyRivalsFail
<1> QED  BY <1>1, InitIInv, StepIInv, PTL DEF Spec

\* Likewise for the drop nobody waits for, which ends the process when it fails.
THEOREM OnlyRivalsEverKill == Spec => []OnlyRivalsKill
<1>1. IInv => OnlyRivalsKill
      BY DEF IInv, Undisturbed, Peace, AllAlone, OnlyRivalsKill
<1> QED  BY <1>1, InitIInv, StepIInv, PTL DEF Spec

\* An index that outlives its document waits for a drop, missed it, or was built
\* again by a later create.
THEOREM OrphanIndexesAlwaysExplained == Spec => []OrphanIndexesAreExplained
<1>1. IInv => OrphanIndexesAreExplained  BY DEF IInv
<1> QED  BY <1>1, InitIInv, StepIInv, PTL DEF Spec
=============================================================================
