------------------------------ MODULE DBIndexes ------------------------------
(***************************************************************************)
(* Indexes that an admin adds to a collection.  A document of              *)
(* admin-dbindexes, once written, replaces the index with its key: the old *)
(* one is dropped, the new one enters the schema of this server, and then  *)
(* everything in the schema is built.  Once a document is deleted its      *)
(* index is dropped, by name, and that drop is not awaited: when it fails  *)
(* the rejection ends the process.  Documents cannot be updated.           *)
(*                                                                         *)
(* MongoDB refuses an index whose name or key another index has, and the   *)
(* drop of a name it does not know.  Servers share the database only; one  *)
(* collection is modelled, as no index has to do with another one, and no  *)
(* document whose options give its index another name.  A document may     *)
(* name a collection that the deployment disables, or a slug of none: then *)
(* there is nothing to list, and its hooks throw.                          *)
(***************************************************************************)
EXTENDS Naturals, Sequences, SequencesExt

CONSTANTS
    Servers,
    Docs,       (* identities of admin-dbindexes documents *)
    Asked,      (* the index each document asks for: a name and a key *)
    Served,     (* those whose collection the servers serve *)
    Stored,     (* documents from before these servers started *)
    Fields,     (* the indexes the fields of the collection ask for *)
    UpdatedAt,  (* the index on updatedAt *)
    None,       (* no name, no server *)
    MaxFailures (* bound: operations of the database that fail, and crashes *)

Base == Append(Fields, UpdatedAt)
Indexes == {Asked[d] : d \in Docs} \cup ToSet(Base)
Clash(i, j) == i # j /\ (i.name = j.name \/ i.key = j.key)

ASSUME IndexesAssumption ==
    /\ Stored \subseteq Served /\ Served \subseteq Docs
    /\ \A i, j \in ToSet(Base) \cup {Asked[d] : d \in Stored} : ~Clash(i, j)
    /\ \A i \in Indexes : i.name # None
    /\ Fields \in Seq(ToSet(Fields))
    /\ MaxFailures \in Nat

VARIABLES
    present,   (* the documents in the database *)
    indexes,   (* the indexes in the database *)
    schema,    (* the schema each server has in memory *)
    up,        (* servers that run *)
    create,    (* the await the create of each document is at, or its answer *)
    delete,    (* likewise its delete *)
    server,    (* the server that takes them: create and delete *)
    old,       (* the index a create found, by name *)
    todo,      (* the indexes it has still to build *)
    refused,   (* creates one of whose indexes was not built *)
    killed,    (* history: servers a drop that failed has ended *)
    rebuilt,   (* history: indexes built for no document *)
    failures

requests == <<create, delete, server, old, todo, refused>>
history == <<killed, rebuilt>>
vars == <<present, indexes, schema, up, requests, history, failures>>

Init ==
    /\ present = Stored
    /\ indexes \in {ToSet(base) \cup {Asked[d] : d \in Stored} : base \in {Fields, Base}}
    /\ schema = [s \in Servers |-> Base]
    /\ up = Servers
    /\ create = [d \in Docs |-> IF d \in Stored THEN "created" ELSE "none"]
    /\ delete = [d \in Docs |-> "none"]
    /\ server = [d \in Docs |-> [kind \in {"create", "delete"} |-> None]]
    /\ old = [d \in Docs |-> None]
    /\ todo = [d \in Docs |-> <<>>]
    /\ refused = {}
    /\ killed = {} /\ rebuilt = {}
    /\ failures = 0

Named(name) == {i \in indexes : i.name = name}

\* Mutant: keys are not compared by what is in them.
WithKey_Any(key) == indexes

WithKey(key) == {i \in indexes : i.key = key}

Fails == failures < MaxFailures /\ failures' = failures + 1
Works == UNCHANGED failures

-----------------------------------------------------------------------------
(* Creating a document *)

\* Where a request has come to once the document is written or deleted: its hook
\* waits for the list of indexes, or throws because there is no collection.
Begins(d, s, at, kind) ==
    IF d \in Served
    THEN at' = [at EXCEPT ![d] = "list"] /\ server' = [server EXCEPT ![d][kind] = s]
    ELSE at' = [at EXCEPT ![d] = "failed"] /\ UNCHANGED server

Create(d, s) ==
    /\ create[d] = "none" /\ s \in up
    /\ present' = present \cup {d}
    /\ Begins(d, s, create, "create")
    /\ UNCHANGED <<indexes, schema, up, delete, old, todo, refused, history, failures>>

\* Mutant: the indexes are ensured before the new one enters the schema.
StartBuild_EnsuresFirst(d) ==
    LET s == server[d]["create"]
    IN  /\ schema' = [schema EXCEPT ![s] = Append(@, Asked[d])]
        /\ todo' = [todo EXCEPT ![d] = schema[s]]
        /\ create' = [create EXCEPT ![d] = "build"]

\* The new index enters the schema, and all of the schema is to be built.
StartBuild(d) ==
    LET s == server[d]["create"]
    IN  /\ schema' = [schema EXCEPT ![s] = Append(@, Asked[d])]
        /\ todo' = [todo EXCEPT ![d] = schema'[s]]
        /\ create' = [create EXCEPT ![d] = "build"]

FailCreate(d) == create' = [create EXCEPT ![d] = "failed"] /\ UNCHANGED <<schema, todo>>

ListForCreate(d) ==
    /\ create[d] = "list"
    /\ \/ Works /\ WithKey(Asked[d].key) = {} /\ StartBuild(d) /\ UNCHANGED old
       \/ /\ Works
          /\ \E i \in WithKey(Asked[d].key) : old' = [old EXCEPT ![d] = i.name]
          /\ create' = [create EXCEPT ![d] = "drop"]
          /\ UNCHANGED <<schema, todo>>
       \/ Fails /\ FailCreate(d) /\ UNCHANGED old
    /\ UNCHANGED <<present, indexes, up, delete, server, refused, history>>

DropOld(d) ==
    /\ create[d] = "drop"
    /\ \/ Works /\ Named(old[d]) # {} /\ indexes' = indexes \ Named(old[d]) /\ StartBuild(d)
       \/ Works /\ Named(old[d]) = {} /\ FailCreate(d) /\ UNCHANGED indexes
       \/ Fails /\ FailCreate(d) /\ UNCHANGED indexes
    /\ UNCHANGED <<present, up, delete, server, old, refused, history>>

ForNoDocument(i) == i \notin ToSet(Base) /\ \A d \in present \cap Served : Asked[d] # i

\* ensureIndexes: one index after the other, whatever becomes of each; it
\* rejects in the end when one of them was refused.
Build(d) ==
    LET i == Head(todo[d])
        taken == \E j \in indexes : Clash(i, j)
    IN  /\ create[d] = "build"
        /\ \/ /\ Works /\ ~taken
              /\ indexes' = indexes \cup {i}
              /\ rebuilt' = IF ForNoDocument(i) THEN rebuilt \cup {i} ELSE rebuilt
              /\ UNCHANGED refused
           \/ ((Works /\ taken) \/ Fails) /\ refused' = refused \cup {d} /\ UNCHANGED <<indexes, rebuilt>>
        /\ todo' = [todo EXCEPT ![d] = Tail(@)]
        /\ create' = [create EXCEPT ![d] =
               IF Len(todo[d]) > 1 THEN @ ELSE IF d \in refused' THEN "failed" ELSE "created"]
        /\ UNCHANGED <<present, schema, up, delete, server, old, killed>>

-----------------------------------------------------------------------------
(* Deleting a document *)

Delete(d, s) ==
    /\ d \in present /\ s \in up
    /\ present' = present \ {d}
    /\ Begins(d, s, delete, "delete")
    /\ UNCHANGED <<indexes, schema, up, create, old, todo, refused, history, failures>>

\* Mutant: the index is never found.
ListForDelete_Never(d) ==
    /\ delete[d] = "list" /\ Works
    /\ delete' = [delete EXCEPT ![d] = "deleted"]
    /\ UNCHANGED <<present, indexes, schema, up, create, server, old, todo, refused, history>>

\* Mutant: the drop is sent whether or not the index is there.
ListForDelete_Always(d) ==
    /\ delete[d] = "list" /\ Works
    /\ delete' = [delete EXCEPT ![d] = "drop"]
    /\ UNCHANGED <<present, indexes, schema, up, create, server, old, todo, refused, history>>

\* The index is looked for by its key; the request is answered at once.
ListForDelete(d) ==
    /\ delete[d] = "list"
    /\ \/ Works /\ delete' = [delete EXCEPT ![d] =
                     IF WithKey(Asked[d].key) = {} THEN "deleted" ELSE "drop"]
       \/ Fails /\ delete' = [delete EXCEPT ![d] = "failed"]
    /\ UNCHANGED <<present, indexes, schema, up, create, server, old, todo, refused, history>>

\* Requests of a server that is gone, and their drops, come to nothing.
Lost(at, kind, s) ==
    [d \in Docs |-> IF server[d][kind] = s /\ at[d] \in {"list", "drop", "build"} THEN "lost" ELSE at[d]]
Dies(s) ==
    /\ up' = up \ {s}
    /\ create' = Lost(create, "create", s)
    /\ delete' = Lost(delete, "delete", s)

\* The drop is by the name of the document, and nobody waits for it.
DropDeleted(d) ==
    /\ delete[d] = "drop"
    /\ \/ /\ Works /\ Named(Asked[d].name) # {}
          /\ indexes' = indexes \ Named(Asked[d].name)
          /\ delete' = [delete EXCEPT ![d] = "deleted"]
          /\ UNCHANGED <<up, create, killed>>
       \/ /\ (Works /\ Named(Asked[d].name) = {}) \/ Fails
          /\ Dies(server[d]["delete"])
          /\ killed' = killed \cup {server[d]["delete"]}
          /\ UNCHANGED indexes
    /\ UNCHANGED <<present, schema, server, old, todo, refused, rebuilt>>

-----------------------------------------------------------------------------
Crash(s) ==
    /\ s \in up /\ Fails
    /\ Dies(s)
    /\ UNCHANGED <<present, indexes, schema, server, old, todo, refused, history>>

\* The schema is that of the fields once more.  Unless the deployment turns it
\* off, what the fields ask for is built, and what is refused is let be; the
\* index on updatedAt enters the schema too late for that.
Boot(s) ==
    /\ s \notin up
    /\ up' = up \cup {s}
    /\ schema' = [schema EXCEPT ![s] = Base]
    /\ \/ indexes' = indexes \cup {i \in ToSet(Fields) : \A j \in indexes : ~Clash(i, j)}
       \/ UNCHANGED indexes
    /\ UNCHANGED <<present, requests, history, failures>>

Next ==
    \/ \E d \in Docs, s \in Servers : Create(d, s) \/ Delete(d, s)
    \/ \E d \in Docs : ListForCreate(d) \/ DropOld(d) \/ Build(d)
    \/ \E d \in Docs : ListForDelete(d) \/ DropDeleted(d)
    \/ \E s \in Servers : Crash(s) \/ Boot(s)

Spec == Init /\ [][Next]_vars

-----------------------------------------------------------------------------
(* Properties *)

Awaits == {"list", "drop", "build"}
TypeOK ==
    /\ present \subseteq Docs /\ up \subseteq Servers
    /\ indexes \subseteq Indexes /\ \A i, j \in indexes : ~Clash(i, j)
    /\ schema \in [Servers -> Seq(Indexes)]
    /\ create \in [Docs -> Awaits \cup {"none", "created", "failed", "lost"}]
    /\ delete \in [Docs -> Awaits \cup {"none", "deleted", "failed", "lost"}]
    /\ server \in [Docs -> [{"create", "delete"} -> Servers \cup {None}]]
    /\ old \in [Docs -> {i.name : i \in Indexes} \cup {None}]
    /\ todo \in [Docs -> Seq(Indexes)] /\ refused \subseteq Docs
    /\ killed \subseteq Servers /\ rebuilt \subseteq Indexes
    /\ failures \in 0 .. MaxFailures

Share(i, j) == i.name = j.name \/ i.key = j.key
Started == {d \in Served : create[d] # "none"}

\* No other document of the collection, ever, and no field shares a name or a key
\* with this one.
Alone(d) ==
    /\ \A e \in Started \ {d} : ~Share(Asked[d], Asked[e])
    /\ \A i \in ToSet(Base) : ~Share(Asked[d], i)

\* The index of a document whose create was answered is there, and stays, through
\* every other create and delete and every restart, as long as it is alone in
\* its name and its key.
DocumentsAreIndexed ==
    \A d \in present : create[d] = "created" /\ Alone(d) => Asked[d] \in indexes

\* A create fails for a failure of the database, because there is no such collection,
\* or because two indexes somebody asked for share a name or a key: not necessarily
\* its own, since each create builds all that was ever asked of this server.
OnlyRivalsFail ==
    (\E d \in Served : create[d] = "failed") /\ failures = 0 => \E d \in Started : ~Alone(d)

\* The drop nobody waits for ends a server only if the index with the document's
\* key went, or was another one's, after it was asked for.
OnlyRivalsKill == killed # {} /\ failures = 0 => \E d \in Started : ~Alone(d)

\* An index of no field and no document is one whose drop is on its way or never
\* came to be, or one that another create has built again from the schema.
OrphanIndexesAreExplained ==
    \A i \in indexes : ForNoDocument(i) =>
        \/ i \in rebuilt
        \/ \E d \in Served : Asked[d] = i /\ delete[d] \in {"list", "drop", "failed", "lost"}
=============================================================================
