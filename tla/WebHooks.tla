------------------------------ MODULE WebHooks ------------------------------
(***************************************************************************)
(* Which webhooks each server of a deployment runs.                        *)
(*                                                                         *)
(* A server keeps a registry in its own process.env: for each hook point   *)
(* (a collection or field and an event) the list of targets, joined by     *)
(* commas.  It starts from the deployment's variables; documents of        *)
(* admin-webhooks add to it, all of them in onInit and one whenever a save *)
(* has passed through this server.  Every enrichment then appends a hook   *)
(* per registered target to the hooks the collections run.                 *)
(*                                                                         *)
(* Servers share the database only.  How a hook delivers, and what a       *)
(* missing bus connection does to it, is in Notifications.                 *)
(***************************************************************************)
EXTENDS Naturals, Sequences, FiniteSets, SequencesExt, Subsequences

CONSTANTS
    Servers,     (* replicas *)
    Docs,        (* identities of admin-webhooks documents *)
    Points,      (* hook points: HOOKSURL_... keys *)
    NoPoint,     (* the hook point of a row whose event is not set *)
    NoUrl,       (* a url that is not set *)
    Empty,       (* a url that was cleared; an empty part of a variable *)
    Own,         (* the hook a collection brings itself *)
    Deployment,  (* the HOOKSURL_... variables of the deployment *)
    Contents,    (* sequences of rows a document may hold *)
    PageSize,    (* documents in a page of payload.find *)
    MaxAttempts, (* restarts the policy of the deployment makes *)
    MaxSaves, MaxDeletes, MaxCrashes  (* bounds *)

\* A row is what the array field "webhooks" holds: where, "http" or "rabbitmq",
\* and a url, which a row of type "rabbitmq" may still have from before.
ASSUME WebHooksAssumption ==
    /\ PageSize \in Nat \ {0}
    /\ MaxAttempts \in Nat /\ MaxSaves \in Nat /\ MaxDeletes \in Nat /\ MaxCrashes \in Nat
    /\ IsFiniteSet(Docs)
    /\ NoPoint \notin Points
    /\ Deployment \in [Points -> Seq(UNION {ToSet(Deployment[p]) : p \in Points})]
    /\ \A p \in Points : ~Contains(Deployment[p], NoUrl) /\ Deployment[p] # <<Empty>>
    /\ \A rows \in Contents : rows \in Seq(ToSet(rows))
    /\ \A rows \in Contents : \A i \in DOMAIN rows :
           rows[i].point \in Points \cup {NoPoint} /\ rows[i].type \in {"http", "rabbitmq"}

VARIABLES
    table,      (* the documents, newest first *)
    content,    (* the rows each document has or had *)
    deletes,    (* documents deleted so far *)
    saves,      (* saves so far: server, rows and how far the server got *)
    phase,      (* of each server *)
    starts,     (* times its process was started *)
    env,        (* its registry *)
    live,       (* the hooks its collections run *)
    pages,      (* pages onInit has read *)
    unread,     (* pages it has asked for and not read yet *)
    untouched,  (* history: documents unchanged since it read page 1 *)
    shifted,    (* history: a document was added or deleted during its reads *)
    crashes     (* processes that died while serving *)

db == <<table, content, deletes>>
boot == <<pages, unread>>
history == <<untouched, shifted, crashes>>
vars == <<db, saves, phase, starts, env, live, boot, history>>

\* Some documents may be there before any of these servers ran.
Init ==
    /\ table \in SetToAllKPermutations(Docs)
    /\ content \in [Docs -> Contents]
    /\ deletes = 0 /\ saves = <<>>
    /\ phase = [s \in Servers |-> "down"] /\ starts = [s \in Servers |-> 0]
    /\ env = [s \in Servers |-> Deployment]
    /\ live = [s \in Servers |-> [p \in Points |-> <<Own>>]]
    /\ pages = [s \in Servers |-> <<>>]
    /\ unread = [s \in Servers |-> {}]
    /\ untouched = [s \in Servers |-> {}]
    /\ shifted = [s \in Servers |-> FALSE]
    /\ crashes = 0

-----------------------------------------------------------------------------
(* The registry *)

\* A url that is not set is joined as an empty part.
TargetOf(row) ==
    IF row.type = "rabbitmq" THEN row.type ELSE IF row.url = NoUrl THEN Empty ELSE row.url
\* A variable that is empty is the same as none.
NewTargets(row) == IF TargetOf(row) = Empty THEN <<>> ELSE <<TargetOf(row)>>

\* The row is skipped when some part of the variable is its url or its type.
Registered(targets, row) == Contains(targets, row.url) \/ Contains(targets, row.type)

Added(targets, row) ==
    IF targets = <<>> THEN NewTargets(row)
    ELSE IF Registered(targets, row) THEN targets
    ELSE Append(targets, TargetOf(row))
Register(reg, row) == [reg EXCEPT ![row.point] = Added(@, row)]

\* Mutant: the constructor reads a property of the url.
Fault_NoUrl(rows) == SelectInSeq(rows, LAMBDA row : row.point = NoPoint \/ row.url = NoUrl)

\* The constructor goes through the rows and throws at one without an event.
Fault(rows) == SelectInSeq(rows, LAMBDA row : row.point = NoPoint)
LastOf(rows) == IF Fault(rows) = 0 THEN Len(rows) ELSE Fault(rows) - 1
Construct(reg, rows) ==
    LET after[n \in 0 .. LastOf(rows)] == IF n = 0 THEN reg ELSE Register(after[n - 1], rows[n])
    IN  after[LastOf(rows)]

\* The parts of a variable that name a target.
Named(targets) == Among(targets, ToSet(targets) \ {Empty})

\* Mutant: the hooks of the variables replace those of the collection.
Enriched_Replaces(hooks, reg) ==
    [p \in Points |-> Named(reg[p])]

\* Every enrichment appends all targets, those it appended before included.
Enriched(hooks, reg) ==
    [p \in Points |-> hooks[p] \o Named(reg[p])]

-----------------------------------------------------------------------------
(* Starting a server *)

\* The process starts, for the first time or again, as long as the policy has
\* attempts left.  The configuration is built: a new process.env, and the first
\* enrichment.
LoadConfig(s) ==
    /\ phase[s] = "down" /\ starts[s] <= MaxAttempts
    /\ starts' = [starts EXCEPT ![s] = @ + 1]
    /\ phase' = [phase EXCEPT ![s] = "page 1"]
    /\ env' = [env EXCEPT ![s] = Deployment]
    /\ live' = [live EXCEPT ![s] = Enriched([p \in Points |-> <<Own>>], Deployment)]
    /\ UNCHANGED <<db, saves, boot, history>>

\* The rows of the documents on a page, and s with these rows for it.
RowsOn(i) ==
    LET ids == Page(table, PageSize, i)
    IN  FlattenSeq([k \in DOMAIN ids |-> content[ids[k]]])
Answered(s, i) == [k \in DOMAIN pages[s] \cup {i} |-> IF k = i THEN RowsOn(i) ELSE pages[s][k]]
TotalPages == PagesOf(table, PageSize)

\* Mutant: the loop ends before the last page.
ReadFirstPage_LastSkipped(s) ==
    /\ phase[s] = "page 1"
    /\ phase' = [phase EXCEPT ![s] = "pages"]
    /\ pages' = [pages EXCEPT ![s] = Answered(s, 1)]
    /\ unread' = [unread EXCEPT ![s] = 2 .. TotalPages - 1]
    /\ untouched' = [untouched EXCEPT ![s] = ToSet(table)]
    /\ shifted' = [shifted EXCEPT ![s] = FALSE]
    /\ UNCHANGED <<db, saves, starts, env, live, crashes>>

ReadFirstPage(s) ==
    /\ phase[s] = "page 1"
    /\ phase' = [phase EXCEPT ![s] = "pages"]
    /\ pages' = [pages EXCEPT ![s] = Answered(s, 1)]
    /\ unread' = [unread EXCEPT ![s] = 2 .. TotalPages]
    /\ untouched' = [untouched EXCEPT ![s] = ToSet(table)]
    /\ shifted' = [shifted EXCEPT ![s] = FALSE]
    /\ UNCHANGED <<db, saves, starts, env, live, crashes>>

\* The other pages are asked for at once and answered in any order.
ReadPage(s, i) ==
    /\ phase[s] = "pages" /\ i \in unread[s]
    /\ pages' = [pages EXCEPT ![s] = Answered(s, i)]
    /\ unread' = [unread EXCEPT ![s] = @ \ {i}]
    /\ UNCHANGED <<db, saves, phase, starts, env, live, history>>

\* All pages are there: their rows are registered in page order.  When the
\* constructor throws, onInit rejects, and so does start(): the process ends.
FinishInit(s) ==
    /\ phase[s] = "pages" /\ unread[s] = {}
    /\ \E rows \in {FlattenSeq(pages[s])} :
           IF Fault(rows) # 0 THEN
               /\ phase' = [phase EXCEPT ![s] = "down"]
               /\ UNCHANGED <<env, live>>
           ELSE
               /\ phase' = [phase EXCEPT ![s] = "serving"]
               /\ \E reg \in {Construct(env[s], rows)} :
                      /\ env' = [env EXCEPT ![s] = reg]
                      /\ live' = [live EXCEPT ![s] = Enriched(@, reg)]
    /\ pages' = [pages EXCEPT ![s] = <<>>]
    /\ UNCHANGED <<db, saves, starts, unread, history>>

-----------------------------------------------------------------------------
(* Saving and deleting documents, on any server *)

Touch(d) == untouched' = [s \in Servers |-> untouched[s] \ {d}]
Shift == shifted' = [s \in Servers |-> shifted[s] \/ phase[s] = "pages"]

\* The write of a save.  A new document comes first in every later find.
Save(s, d, rows) ==
    /\ phase[s] = "serving" /\ Len(saves) < MaxSaves
    /\ saves' = Append(saves, [server |-> s, rows |-> rows, status |-> "written"])
    /\ content' = [content EXCEPT ![d] = rows]
    /\ IF Contains(table, d) THEN UNCHANGED <<table, shifted>>
       ELSE table' = <<d>> \o table /\ Shift
    /\ Touch(d)
    /\ UNCHANGED <<deletes, phase, starts, env, live, boot, crashes>>

\* Mutant: the rows are registered, but the collections are not enriched.
AfterChange_NotEnriched(k) ==
    LET s == saves[k].server
        rows == saves[k].rows
        reg == Construct(env[s], rows)
    IN  /\ saves[k].status = "written"
        /\ env' = [env EXCEPT ![s] = reg]
        /\ saves' = [saves EXCEPT ![k].status = IF Fault(rows) = 0 THEN "handled" ELSE "thrown"]
        /\ UNCHANGED <<db, phase, starts, live, boot, history>>

\* afterChange, on the server that took the save.  At a row without an event
\* the constructor throws: the request fails, but the document is written and
\* the rows before it stay registered.
AfterChange(k) ==
    LET s == saves[k].server
        rows == saves[k].rows
        reg == Construct(env[s], rows)
    IN  /\ saves[k].status = "written"
        /\ env' = [env EXCEPT ![s] = reg]
        /\ IF Fault(rows) = 0 THEN
               /\ live' = [live EXCEPT ![s] = Enriched(@, reg)]
               /\ saves' = [saves EXCEPT ![k].status = "handled"]
           ELSE
               /\ UNCHANGED live
               /\ saves' = [saves EXCEPT ![k].status = "thrown"]
        /\ UNCHANGED <<db, phase, starts, boot, history>>

\* No hook of the collection runs on a delete.
Delete(s, d) ==
    /\ phase[s] = "serving" /\ deletes < MaxDeletes /\ Contains(table, d)
    /\ table' = Among(table, Docs \ {d})
    /\ deletes' = deletes + 1
    /\ Shift /\ Touch(d)
    /\ UNCHANGED <<content, saves, phase, starts, env, live, boot, crashes>>

\* The process fails: a crash, or POST /admin/restart-instance.
\* The saves it was in the middle of never reach their afterChange.
Crash(s) ==
    /\ phase[s] = "serving" /\ crashes < MaxCrashes
    /\ crashes' = crashes + 1
    /\ phase' = [phase EXCEPT ![s] = "down"]
    /\ saves' = [k \in DOMAIN saves |->
           IF saves[k].server # s THEN saves[k]
           ELSE [saves[k] EXCEPT !.status = IF @ = "written" THEN "lost" ELSE "past"]]
    /\ UNCHANGED <<db, starts, env, live, boot, untouched, shifted>>

Boot(s) == LoadConfig(s) \/ ReadFirstPage(s) \/ (\E i \in unread[s] : ReadPage(s, i)) \/ FinishInit(s)

Next ==
    \/ \E s \in Servers : Boot(s) \/ Crash(s)
    \/ \E s \in Servers, d \in Docs, rows \in Contents : Save(s, d, rows)
    \/ \E s \in Servers, d \in Docs : Delete(s, d)
    \/ \E k \in DOMAIN saves : AfterChange(k)

\* A server is started, and started again while the policy has attempts left;
\* a find settles.
Fairness == \A s \in Servers : WF_vars(Boot(s))

Spec == Init /\ [][Next]_vars /\ Fairness

-----------------------------------------------------------------------------
(* Properties *)

AllRows == UNION {ToSet(rows) : rows \in Contents}
Targets == {TargetOf(row) : row \in AllRows}
              \cup UNION {ToSet(Deployment[p]) : p \in Points}

Requests == [server : Servers, rows : Contents,
             status : {"written", "handled", "thrown", "lost", "past"}]

TypeOK ==
    /\ table \in Seq(Docs) /\ IsInjective(table)
    /\ content \in [Docs -> Contents] /\ deletes \in 0 .. MaxDeletes
    /\ saves \in Seq(Requests)
    /\ phase \in [Servers -> {"down", "page 1", "pages", "serving"}]
    /\ starts \in [Servers -> 0 .. MaxAttempts + 1]
    /\ env \in [Servers -> [Points -> Seq(Targets)]]
    /\ live \in [Servers -> [Points -> Seq((Targets \ {Empty}) \cup {Own})]]
    /\ DOMAIN pages = Servers /\ DOMAIN unread = Servers
    /\ \A s \in Servers : unread[s] \cup DOMAIN pages[s] \subseteq Nat \ {0}
    /\ \A s \in Servers : pages[s] \in [DOMAIN pages[s] -> Seq(AllRows)]
    /\ untouched \in [Servers -> SUBSET Docs] /\ shifted \in [Servers -> BOOLEAN]
    /\ crashes \in 0 .. MaxCrashes

\* The row has an event, and the hook for it is one the server's collections run.
\* A row that has no target names none; nor does one whose other word is registered:
\* the url that a "rabbitmq" row has from before, an empty one included, or the type
\* "http".
Runs(s, row) ==
    /\ row.point \in Points
    /\ \/ TargetOf(row) = Empty
       \/ Contains(live[s][row.point], TargetOf(row))
       \/ \E word \in {row.url, row.type} \ {TargetOf(row)} : Contains(env[s][row.point], word)

\* Once a save has been answered, the server that took it runs every hook the
\* document asks for, and goes on doing so until it restarts.
AnsweredSavesAreRun ==
    \A k \in DOMAIN saves : saves[k].status = "handled" =>
        \A row \in ToSet(saves[k].rows) : Runs(saves[k].server, row)

\* A server that is up runs the hooks of every document that was there when it
\* read page 1 and has not changed since, unless the pages moved under it.
BootRunsStoredHooks ==
    \A s \in Servers : phase[s] = "serving" /\ ~shifted[s] =>
        \A d \in untouched[s] : \A row \in ToSet(content[d]) : Runs(s, row)

\* Only a restart takes a target out of the registry or a hook out of the
\* collections: neither an edited nor a deleted document does, and a hook the
\* collection brought itself stays the first.
HooksOnlyGrow ==
    [][\A s \in Servers : phase'[s] \in {"pages", "serving"} => \A p \in Points :
          /\ IsPrefix(env[s][p], env'[s][p])
          /\ IsPrefix(live[s][p], live'[s][p]) /\ live'[s][p][1] = Own]_vars

EventsAreSet == \A d \in ToSet(table) : \A row \in ToSet(content[d]) : row.point # NoPoint

\* A server that is down and that the policy starts once more comes up, unless
\* some document has a row without an event.  Such a row makes every start fail
\* and uses up an attempt each time: only for a server that has one left does
\* deleting the row, on another server, bring it back.
ServersComeUp ==
    \A s \in Servers : phase[s] = "down" /\ starts[s] <= MaxAttempts /\ EventsAreSet
        ~> phase[s] = "serving" \/ ~EventsAreSet
=============================================================================
