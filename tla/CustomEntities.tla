--------------------------- MODULE CustomEntities ---------------------------
(***************************************************************************)
(* How a collection defined by an admin gets from the database to the      *)
(* servers.  A save of a custom entity, once written, drops a file named   *)
(* after its slug; a delete removes the file from both folders.  Separate  *)
(* processes, the enablers, keep moving what they find in "drops" to       *)
(* "definitions".  A server that starts lists "definitions" and imports    *)
(* every file, through a module cache that lasts as long as the process.   *)
(* All of them share one volume and nothing else.                          *)
(*                                                                         *)
(* A write or a rename of one file is one step.                            *)
(***************************************************************************)
EXTENDS Naturals, Sequences, FiniteSets

CONSTANTS
    Docs,       (* identities of custom-entities documents *)
    Slugs,      (* slugs, which name the files; they need not be unique *)
    Versions,   (* JSON definitions a document may hold *)
    None,       (* no document, no file *)
    Enablers,   (* ce-enabler processes *)
    Servers,    (* processes that load the definitions *)
    MaxRequests, MaxLost, MaxLoads  (* bounds *)

ASSUME CustomEntitiesAssumption ==
    /\ None \notin Versions /\ None \notin [slug : Slugs, version : Versions]
    /\ MaxRequests \in Nat /\ MaxLost \in Nat /\ MaxLoads \in Nat

VARIABLES
    docs,         (* the documents: slug and version *)
    requests,     (* saves and deletes whose document is written, with the step they are at *)
    drops,        (* the files in custom-entities/drops *)
    definitions,  (* the files in custom-entities/definitions *)
    enabler,      (* where the loop of each enabler is *)
    batch,        (* the files its mv has yet to move *)
    loader,       (* where the load of each server is *)
    toImport,     (* the files it has yet to import *)
    cache,        (* its module cache *)
    loads,        (* loads so far *)
    lost,         (* requests that stopped half way so far *)
    murky,        (* history: slugs whose files may not match the documents *)
    removed       (* history: a definition was removed during the load *)

files == <<drops, definitions>>
moving == <<enabler, batch>>
loading == <<loader, toImport, cache, loads>>
vars == <<docs, requests, files, moving, loading, lost, murky, removed>>

NoFiles == [f \in Slugs |-> None]
Importing == {"import", "import, failing"}
Present(folder) == {f \in Slugs : folder[f] # None}

Init ==
    /\ docs = [d \in Docs |-> None]
    /\ requests = <<>>
    /\ drops = NoFiles /\ definitions = NoFiles
    /\ enabler = [e \in Enablers |-> "ls"] /\ batch = [e \in Enablers |-> {}]
    /\ loader = [s \in Servers |-> "idle"] /\ toImport = [s \in Servers |-> {}]
    /\ cache = [s \in Servers |-> NoFiles]
    /\ loads = 0 /\ lost = 0
    /\ murky = {} /\ removed = [s \in Servers |-> FALSE]

-----------------------------------------------------------------------------
(* Saving and deleting a document *)

Unfinished(k) == requests[k].at \notin {"done", "lost"}
Busy(f) == \E k \in DOMAIN requests : requests[k].slug = f /\ Unfinished(k)
Holders(f) == {d \in Docs : docs[d] # None /\ docs[d].slug = f}
Reach(k, step) == requests' = [requests EXCEPT ![k].at = step]

\* The document is written; afterChange has still to run.  The file of a slug
\* the document had before stays where it is, and so does its history.
Save(d, f, v) ==
    /\ Len(requests) < MaxRequests
    /\ docs' = [docs EXCEPT ![d] = [slug |-> f, version |-> v]]
    /\ requests' = Append(requests, [slug |-> f, version |-> v, at |-> "drop"])
    /\ murky' = murky \cup
          (IF Busy(f) \/ Holders(f) \ {d} # {} THEN {f} ELSE {}) \cup
          (IF docs[d] # None /\ docs[d].slug # f THEN {docs[d].slug} ELSE {})
    /\ UNCHANGED <<files, moving, loading, lost, removed>>

\* A draft of a document leaves the document alone, but afterChange runs too.
SaveDraft(d, v) ==
    /\ Len(requests) < MaxRequests /\ docs[d] # None
    /\ requests' = Append(requests, [slug |-> docs[d].slug, version |-> v, at |-> "drop"])
    /\ murky' = murky \cup {docs[d].slug}
    /\ UNCHANGED <<docs, files, moving, loading, lost, removed>>

DropFile(k) ==
    /\ requests[k].at = "drop"
    /\ drops' = [drops EXCEPT ![requests[k].slug] = requests[k].version]
    /\ Reach(k, "done")
    /\ UNCHANGED <<docs, definitions, moving, loading, lost, murky, removed>>

Delete(d) ==
    /\ Len(requests) < MaxRequests /\ docs[d] # None
    /\ docs' = [docs EXCEPT ![d] = None]
    /\ requests' = Append(requests, [slug |-> docs[d].slug, version |-> None, at |-> "rm drops"])
    /\ murky' = murky \cup
          (IF Busy(docs[d].slug) \/ Holders(docs[d].slug) # {d} THEN {docs[d].slug} ELSE {})
    /\ UNCHANGED <<files, moving, loading, lost, removed>>

\* Mutant: the definition is removed before the drop.
RemoveDrop_Last(k) ==
    \/ /\ requests[k].at = "rm drops"
       /\ definitions' = [definitions EXCEPT ![requests[k].slug] = None]
       /\ Reach(k, "rm definitions")
       /\ UNCHANGED <<docs, drops, moving, loading, lost, murky, removed>>
    \/ /\ requests[k].at = "rm definitions"
       /\ drops' = [drops EXCEPT ![requests[k].slug] = None]
       /\ Reach(k, "done")
       /\ UNCHANGED <<docs, definitions, moving, loading, lost, murky, removed>>

RemoveDrop(k) ==
    /\ requests[k].at = "rm drops"
    /\ drops' = [drops EXCEPT ![requests[k].slug] = None]
    /\ Reach(k, "rm definitions")
    /\ UNCHANGED <<docs, definitions, moving, loading, lost, murky, removed>>

RemoveDefinition(k) ==
    /\ requests[k].at = "rm definitions"
    /\ definitions' = [definitions EXCEPT ![requests[k].slug] = None]
    /\ removed' = [s \in Servers |-> removed[s] \/ loader[s] \in Importing]
    /\ Reach(k, "done")
    /\ UNCHANGED <<docs, drops, moving, loading, lost, murky>>

\* The server dies, or the file system refuses: the document stays as written.
Lose(k) ==
    /\ Unfinished(k) /\ lost < MaxLost
    /\ lost' = lost + 1
    /\ Reach(k, "lost")
    /\ murky' = murky \cup {requests[k].slug}
    /\ UNCHANGED <<docs, files, moving, loading, removed>>

-----------------------------------------------------------------------------
(* The enabler: ls, then mv of what the shell expands "*" to *)

GoesTo(e, step) == enabler' = [enabler EXCEPT ![e] = step]

\* Mutant: the loop ends when there is nothing to move.
List_Breaks(e) ==
    /\ enabler[e] = "ls"
    /\ GoesTo(e, IF Present(drops) = {} THEN "ended" ELSE "expand")
    /\ UNCHANGED <<docs, requests, files, batch, loading, lost, murky, removed>>

\* Nothing is there: sleep and look again.
List(e) ==
    /\ enabler[e] = "ls"
    /\ GoesTo(e, IF Present(drops) = {} THEN "ls" ELSE "expand")
    /\ UNCHANGED <<docs, requests, files, batch, loading, lost, murky, removed>>

Expand(e) ==
    /\ enabler[e] = "expand"
    /\ batch' = [batch EXCEPT ![e] = Present(drops)]
    /\ GoesTo(e, "mv")
    /\ UNCHANGED <<docs, requests, files, loading, lost, murky, removed>>

\* Mutant: an older definition is removed before the new one comes.
Move_RemovesFirst(e, f) ==
    /\ enabler[e] = "mv" /\ f \in batch[e]
    /\ IF definitions[f] # None THEN
           definitions' = [definitions EXCEPT ![f] = None] /\ UNCHANGED <<drops, batch>>
       ELSE
           /\ definitions' = [definitions EXCEPT ![f] = drops[f]]
           /\ drops' = [drops EXCEPT ![f] = None]
           /\ batch' = [batch EXCEPT ![e] = @ \ {f}]
    /\ UNCHANGED <<docs, requests, enabler, loading, lost, murky, removed>>

\* A file that is gone is an error of mv, which goes on with the next one.
Move(e, f) ==
    /\ enabler[e] = "mv" /\ f \in batch[e]
    /\ batch' = [batch EXCEPT ![e] = @ \ {f}]
    /\ IF drops[f] = None THEN UNCHANGED files
       ELSE /\ definitions' = [definitions EXCEPT ![f] = drops[f]]
            /\ drops' = [drops EXCEPT ![f] = None]
    /\ UNCHANGED <<docs, requests, enabler, loading, lost, murky, removed>>

Sleep(e) ==
    /\ enabler[e] = "mv" /\ batch[e] = {}
    /\ GoesTo(e, "ls")
    /\ UNCHANGED <<docs, requests, files, batch, loading, lost, murky, removed>>

-----------------------------------------------------------------------------
(* Loading the definitions *)

StartLoad(s) ==
    /\ loader[s] \in {"idle", "loaded", "failed"} /\ loads < MaxLoads
    /\ loads' = loads + 1
    /\ toImport' = [toImport EXCEPT ![s] = Present(definitions)]
    /\ loader' = [loader EXCEPT ![s] = "import"]
    /\ removed' = [removed EXCEPT ![s] = FALSE]
    /\ UNCHANGED <<docs, requests, files, moving, cache, lost, murky>>

\* A file that was imported before comes from the cache, whatever it holds now.
\* One import that fails fails the load of the folder; the others still run.
Import(s, f) ==
    /\ loader[s] \in Importing /\ f \in toImport[s]
    /\ toImport' = [toImport EXCEPT ![s] = @ \ {f}]
    /\ IF cache[s][f] = None /\ definitions[f] = None THEN
           loader' = [loader EXCEPT ![s] = "import, failing"] /\ UNCHANGED cache
       ELSE
           /\ cache' = [cache EXCEPT ![s][f] = IF @ = None THEN definitions[f] ELSE @]
           /\ UNCHANGED loader
    /\ UNCHANGED <<docs, requests, files, moving, loads, lost, murky, removed>>

FinishLoad(s) ==
    /\ loader[s] \in Importing /\ toImport[s] = {}
    /\ loader' = [loader EXCEPT ![s] = IF @ = "import" THEN "loaded" ELSE "failed"]
    /\ UNCHANGED <<docs, requests, files, moving, toImport, cache, loads, lost, murky, removed>>

Restart(s) ==
    /\ loader[s] # "idle"
    /\ loader' = [loader EXCEPT ![s] = "idle"]
    /\ toImport' = [toImport EXCEPT ![s] = {}]
    /\ cache' = [cache EXCEPT ![s] = NoFiles]
    /\ UNCHANGED <<docs, requests, files, moving, loads, lost, murky, removed>>

-----------------------------------------------------------------------------
RequestStep(k) == DropFile(k) \/ RemoveDrop(k) \/ RemoveDefinition(k)
EnablerStep(e) == List(e) \/ Expand(e) \/ Sleep(e) \/ \E f \in batch[e] : Move(e, f)
LoadStep(s) == FinishLoad(s) \/ \E f \in toImport[s] : Import(s, f)

Next ==
    \/ \E d \in Docs, v \in Versions : SaveDraft(d, v) \/ \E f \in Slugs : Save(d, f, v)
    \/ \E d \in Docs : Delete(d)
    \/ \E k \in DOMAIN requests : RequestStep(k) \/ Lose(k)
    \/ \E e \in Enablers : EnablerStep(e)
    \/ \E s \in Servers : StartLoad(s) \/ LoadStep(s) \/ Restart(s)

\* The script of an enabler loops for ever.
Fairness == \A e \in Enablers : WF_vars(EnablerStep(e))

Spec == Init /\ [][Next]_vars /\ Fairness

-----------------------------------------------------------------------------
(* Properties *)

Files == Versions \cup {None}
Steps == {"drop", "rm drops", "rm definitions", "done", "lost"}
TypeOK ==
    /\ docs \in [Docs -> {None} \cup [slug : Slugs, version : Versions]]
    /\ requests \in Seq([slug : Slugs, version : Files, at : Steps])
    /\ drops \in [Slugs -> Files] /\ definitions \in [Slugs -> Files]
    /\ enabler \in [Enablers -> {"ls", "expand", "mv"}] /\ batch \in [Enablers -> SUBSET Slugs]
    /\ loader \in [Servers -> Importing \cup {"idle", "loaded", "failed"}]
    /\ toImport \in [Servers -> SUBSET Slugs] /\ cache \in [Servers -> [Slugs -> Files]]
    /\ loads \in 0 .. MaxLoads /\ lost \in 0 .. MaxLost
    /\ murky \subseteq Slugs /\ removed \in [Servers -> BOOLEAN]

\* The file a later load will find: a drop replaces the definition.
Effective(f) == IF drops[f] # None THEN drops[f] ELSE definitions[f]
Wanted(f) == IF Holders(f) = {} THEN None ELSE docs[CHOOSE d \in Holders(f) : TRUE].version

\* The files follow the documents, wherever the enablers are: the last version
\* saved is the one enabled, and a deleted entity leaves no file in either
\* folder.  Excepted are slugs with overlapping or half-finished requests, those
\* a document gave up for another, those of several documents, and those of
\* which a draft was saved, as its file is enabled like any other.
FilesFollowDocuments ==
    \A f \in Slugs \ murky : ~Busy(f) => Effective(f) = Wanted(f)

\* Only a delete makes a load fail: a load never falls into the gap between the
\* old and the new file of an entity that is saved again.
LoadFailsOnlyOnDelete == \A s \in Servers : loader[s] = "failed" => removed[s]

\* What is dropped is picked up.
DropsAreEnabled == \A f \in Slugs : drops[f] # None ~> drops[f] = None
=============================================================================
