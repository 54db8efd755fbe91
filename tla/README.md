# MZinga: a TLA+ model

MZinga is a headless CMS: a TypeScript server built on Payload CMS, with MongoDB
behind it, a RabbitMQ bus beside it and a shell script (the *enabler*) that moves
files on a shared volume. This directory holds TLA+ modules of its control logic,
TLC configurations that check them on small instances, and proofs that TLAPS checks
for every value of the constants. `PROJECT.json` lists the runs, the theorems, the
mutants, the source lines behind each definition and the hazards that the properties
are for. Paths below are relative to the repository; the implementation is in
`src/src` and the tests are in `src/__tests__` when seen from the parent of the
repository.

    tlc -workers 2 -config OwnersCascade_orphans.cfg MCOwnersCascade
    tlapm OwnersCascade_proofs.tla

## The system and its parts

| part | code | state it keeps | operations | what is hard |
|---|---|---|---|---|
| Owners cascade | `collections/Owners/*.ts` | organizations, projects, environments in the database | save, move, delete; `beforeDelete` deletes what is below | no transaction: deletes, saves, failures and a crash interleave between the awaits of two nested hooks |
| Message bus | `messageBusService.ts` | `connection`, `publisher`; the broker's exchanges and binding | `connect`, `publishEvent`, `close`, `isConnected` | each call is several awaits; the broker restarts; `close()` races `connect()` |
| Hook delivery | `hooks/WebHooks.ts`, `server.ts` | the hooks of each collection and field | attach (`AddHooksFromList`), run: `fetch` or `publishEvent` | `fetch` is not awaited, `publishEvent` is; errors are swallowed; hooks are attached several times |
| Webhook registry | `collections/Admin/WebHooks.ts`, `hooks/WebHooks.ts`, `server.ts` | `process.env` of each replica; `admin-webhooks` documents | load at boot, page by page; register in `afterChange` | replicas share the database only; boot races saves and deletes; a bad row throws half way, at every boot until the restarts are used up |
| Communications | `collections/Communications.ts` | users, communications, mails | expand `sendToAll`, write, mail | pages read concurrently while users change; the write comes before the checks; limits of finds; every mail carries the copies |
| Custom entities pipeline | `collections/CustomEntities.ts`, `compose-scripts/ce-enabler.sh`, `customizations/CustomEntities.ts`, `utils/FSUtils.ts` | documents, `drops/`, `definitions/`, a module cache per process | save, delete, move, load | three kinds of process on one volume with no locking |
| Configuration builder | `utils/ConfigUtils.ts`, `customizations/*` | the collections of a process, and the copies of them onInit makes | disable, sort, merge, filter; merge again on save, into the copies | an array shortened by the loops that walk it; copies changed before validation |
| Access rules | `utils/AccessUtils.ts`, `utils/ConfigUtils.ts` | access functions, some kept as text | answer a request; merge a definition's access | functions are re-evaluated from their text; what is not named falls back |
| Database indexes | `collections/Admin/DBIndexes.ts`, `utils/DBUtils.ts` | indexes in MongoDB; the schema each process has in memory | replace an index and build the schema; drop | a drop that is not awaited; looked for by key and dropped by name; the schema brings an index back |
| Probes, endpoints | `server.ts`, `endpoints/*`, `mzinga.config.ts`, `docker-compose.yml` | the process, the restarts it has left | four probes, oEmbed, lookup by slug, restart | an error nobody catches ends the process with all it is doing, for an outage, a deployment or a request; a status set and never sent |
| oEmbed preview | `fields/oEmbedURLField.tsx`, `blocks/oEmbedBlock.ts` | the answer each preview shows; the scripts of the page | fetch on every change of address, show, load a script | no cleanup, so answers overtake each other; scripts shared by all previews |
| Entity editor | `components/fields/CustomEntitiesJsonEditor.tsx`, `statics/custom-entities/*` | the form, the selects, the text, its error; the templates of the page | choose a kind, choose a collection, type, publish, save a draft | a template is one object for all documents of a page; a kind overwrites the text, and its error stays; a draft skips the validation |
| Derived fields | `fields/SlugField.ts`, `collections/Users.ts`, `collections/Media.ts`, `hooks/ContentBlockHooks.ts`, `hooks/RichTextHooks.ts`, `utils/ConfigUtils.ts` | slugs, the address of a photo, the HTML and the links of a text | compute a field from others on every save | the copy is made when its owner is saved and at no other time; an await between the reading and the write |
| Texts | `utils/TextUtils.ts`, `utils/SlugUtils.ts` | none | slugs, HTML, lists of links | two walks of one tree with different rules, which read the document of a link in two places |
| Everything else | the other content collections, blocks, logging, scheduled tasks | declarations | - | - |

How they interact. A save, by way of Payload, runs `beforeValidate`, validates, writes
the document, and runs `afterChange`; a delete runs `beforeDelete`, removes the
document, and runs `afterDelete`. A hook may call back into Payload
(`payload.find`, `payload.delete`), without the request, so with no transaction in
common. The hooks a server runs come from its deployment's variables and from the
documents of `admin-webhooks`; they call an endpoint or the bus. Saving a custom
entity both writes a file, which an enabler moves and the *next* boot of a server
reads, and changes copies of the collections, those the panel is told of, on the server that
takes the save.
`POST /admin/restart-instance` ends the process in the middle of everything else.

What makes each part correct, in one line each:

* Owners: no child without its owner, unless a delete of that child failed or it was
  written while its owner was being deleted; nothing deleted that was not below what
  was asked for; every request answered.
* Bus: a bus that says it is closed stays closed; an event that reached the broker
  reaches the durable exchange.
* Delivery: an operation tries each of its hooks once, in order, and completes,
  whatever its targets do.
* Registry: an answered save is in force on its server; a boot takes over all stored
  documents; a server comes up while it has restarts left.
* Communications: one message to each recipient, with the copies on it; a failed request
  mailed nobody; a created one mailed all it should, as far as the loop and the limit let it.
* Custom entities: when nobody is at work the files are those of the documents; every
  drop is moved; a load fails only for a reason.
* Configuration: all that can be served is served, in an order that works; nobody
  gains access that no definition names; what the panel is told after a save is what
  requests get after a boot.
* Indexes: what was answered as created is there; only documents that rival for a name
  or a key disturb each other; an index of nobody has an explanation.
* Endpoints: a probe is answered or dropped; it is known which requests end the process, and
  under which deployment or outage; it comes back while the policy lets it.
* oEmbed preview: the answer to the latest address is what is shown, unless an earlier one
  overtakes it; no script is in the page twice.
* Entity editor: what is stored was on the screen, and extends what was chosen for it.
* Derived fields: what is stored of another field or document agrees with it, or it is
  known which step parted the two.

## The modules

`MC*` modules define the values of constants for TLC; `MCDerivedFields` also checks a fact
about slugs over all short texts. `MCDefinitions` and `MCContent` each put two modules that share
no state into one run: a behaviour is one of the page of a browser or one of the server, chosen
at the start, since an interleaving of the two would show nothing.

| module | models | checked by | proved in |
|---|---|---|---|
| `OwnersCascade` | the three collections with their hooks | `owners`, `owners_two` | `OwnersCascade_proofs` |
| `MessageBus` | `MessageBusService` and the broker | `notifications` | `Notifications_proofs` |
| `HookDispatch` | *abstract*: what the hooks of an operation promise | `notifications` (as a PROPERTY) | its safety part: `Notifications_proofs` |
| `Notifications` | one server from start to exit; EXTENDS `MessageBus` and refines `HookDispatch` | `notifications` | `Notifications_proofs` |
| `WebHooks` | which hooks each replica runs | `webhooks` | `WebHooks_proofs` |
| `Communications` | a request that creates a communication | `communications`, `send_to_all` | `Collections_proofs` |
| `CustomEntities` | files from a save to a load | `entities` | `CustomEntities_proofs` |
| `AccessRules` | access functions and their merging | through `EntityConfig` | `CustomEntities_proofs` |
| `CollectionSort` | the order in which definitions are applied | through `EntityConfig` | `CustomEntities_proofs` |
| `EntityConfig` | building the configuration, and what saves change of it; EXTENDS `AccessRules`, `CollectionSort` | `definitions` | `CustomEntities_proofs` |
| `DBIndexes` | creates and deletes of index documents | `indexes` | `DBIndexes_proofs` |
| `Endpoints` | the handlers of one server and its restarts | `endpoints` | `Endpoints_proofs` |
| `OEmbedPreview` | the previews of oEmbed blocks in the editor | `content`, `preview_twitter` | `Endpoints_proofs` |
| `EntityEditor` | the field in which a custom entity is defined | `definitions` | `CustomEntities_proofs` |
| `Photos` | users, media documents and the copied address of a photo | `content` | `Collections_proofs` |
| `SlugUtils` | what a slug is made of | `content` | `Collections_proofs` |
| `MediaSlugs` | saves and lookups of media documents with their slugs; EXTENDS `Photos`, `SlugUtils` | `content` | `Collections_proofs` |
| `TextUtils` | what a rich text becomes | `content` | `Collections_proofs` |
| `DerivedFields` | rich texts, slugs and photos as documents are saved; EXTENDS `MediaSlugs`, `TextUtils` | `content` | `Collections_proofs` |
| `Subsequences` | what a filter keeps of a list, and the pages of a find | through those that use it | `Subsequences_proofs` |

### OwnersCascade

`orgs`, `projOrg`, `envProj` are the database: a relationship field is a function to
the owner, `Unborn` and `Gone` stand for documents that are not there. `Requests` are the
deletes of organizations, `OrgOf[r]` the organization one of them deletes, and two may delete
the same; `pc[r]` is the await at which request `r` is. `DeleteOrganization` is the first
`payload.find` of its hook, with its page; `SelectProjects` the find inside the bulk
delete of projects; `SelectEnvironments` the one inside the bulk delete of
environments; `DeleteLateEnvironment` one of those; `FinishOrganization` the delete of
the organization itself. `task[c][p]` is the delete of project `p`, started by a user
(`c = User`) or by the bulk delete inside request `c`, with the hook of `Projects`
inside it. `ValidateProject` / `WriteProject` are the two halves of a save: the
relationship is validated, later the document is written. `Crash` forgets every
request; the database stays. A bulk delete of Payload collects the errors of its
documents, so a document that fails is left behind and the hook goes on.

The history variables serve the properties only: `strayP` and `strayE` (children whose
delete failed or that were written too late), `owners` and `homes` (where a child has
ever been), `requested`.

### MessageBus

`connectPc` and `closePc[s]` are the awaits of `connect()` and of each `close()`;
`StartConnect` is the synchronous prefix that stores `this.connection` before anything
is declared. The broker (`exchanges`, `bound`) is external, modelled from the options
the client passes: `mzinga_events` is not durable, so a restart drops it and the
binding from it. No confirm is asked for, so `SendResolves` may lose the event.

### Notifications and HookDispatch

`Notifications` puts `MessageBus` into a server: `phase` goes from boot (with or
without a bus) to serving to exited. `Enrich` attaches the hooks of one hook point
once more, as is done when the config is loaded, in `onInit`, and in every
`afterChange` of `admin-webhooks`. Each operation runs the list attached when it
started. `FetchHook` sends a request and goes on; `PublishHook` begins a publish
and `HookReturns` waits for it. `Exit` follows a SIGINT's `close()`; `Terminate` is the
SIGTERM handler of `tracing.ts`, which leaves without closing the bus. `Kept` are the
targets that are not skipped, and `HooksFor` lists them in the order of `Registered`.

`HookDispatch` has only the number of hooks an operation has and how many were tried.
The mapping (`Dispatch` in `Notifications`) takes `at[o] - 1` for the latter and
`Len(list[o])` for the former; buses, endpoints and the order of answers disappear.

### WebHooks

`env[s]` is the part of `process.env` that holds `HOOKSURL_...`, one sequence of
targets per hook point; `live[s]` the hooks the collections have. `LoadConfig`,
`ReadFirstPage`, `ReadPage` (concurrent, `Promise.all`) and `FinishInit` are a boot;
`Save` is the write, `AfterChange` the rest of it on the server that took it. The
constructor's loop is `Construct`, which stops at the row that throws (`Fault`). `starts[s]`
counts the times a process was started: the policy of `docker-compose.yml` starts it again
`MaxAttempts` times, boots that throw included. The window of 120 seconds after which the policy
would count anew is taken to be longer than a behaviour.
That a bus hook is left out while the bus is not connected is in `Notifications`.
`Registered` is how the code finds out that a row is there already: some part of the
variable is its url or its type. A row of type rabbitmq keeps the url it had before, so a
row may be skipped for a word that is not its target; `Runs` names that exception. A url that was
cleared (`Empty`) is an empty part of the variable, by which a later row with an empty url is
taken for registered; one that was never set (`NoUrl`) is joined as an empty part and found by
no row.

### Communications

One action per await of `beforeValidate` (sendToAll pages) and `afterChange`. Users are
a sequence, newest first, which is the default sort of a find; `CreateUser` and
`DeleteUser` happen between any two reads, so pages shift. Page sizes (100 and 10 in
the code) are constants, and a page is `Page` of `Subsequences`. `FindCcs` and
`FindBccsAndMail` look the copies up; a message (`mails[c][i]`) has one recipient and all the copies that
were found, so a copied user gets a mail for each recipient, and one more as a recipient. A
list of copies may be absent, empty, which throws, or name users. With `depth0` the document
names users by ids alone: recipients are found all the same, by the fallback to `value`, and
copies are not, since `value.id` of an id is undefined and has no fallback.

### CustomEntities

`requests` are the saves and deletes whose document is written, each with the file
operation it is at. An enabler lists, expands the glob, and moves file by file; files
that are gone are errors `mv` survives. `Import` goes through the module cache. One
write or one rename of a file is one step.

### AccessRules, CollectionSort and EntityConfig

A rule stands for an access function by what it answers (`Answer`): all, some (a where),
nothing, or a throw. `WithTexts` and `WithRoles` merge what a definition
brings into what a collection has, `TransformToAccess` evaluates functions from their
text (`Moved`), which loses what they closed over.

`CollectionSort` is `traverse()`, which calls itself inside the `forEach` over the list it
shortens. The model keeps the calls that are open as a stack, each with the position it has
come to, the length the list had when it began and the slugs placed by then; `Traverse` is
one step of the innermost call, and `SortCollectionsByRelations` runs as many steps as there
can be. `Resolvable` is the reference: the least set that has every definition whose
relations are in it or in the program.

`EntityConfig!Boot` is the whole of the synchronous construction: `GetFilteredCollections`,
the sort, `TransformCollection` with `Extend` and `Add`, `WithPlugins`, Payload's defaults
(`Sanitized`), `FilterInvalidRelationships` (`Check` is the splice inside a `forEach`).
A server does not start with two collections of one slug, which Payload refuses: a
definition may have the slug of a collection of the program, or of the plugin's.
`live` is what requests are answered with, `told` the copies that `onInit` puts into
`payload.config.collections`: the panel is told from them what a user may do. `SaveDefinition` is
`beforeValidate`, which merges an extension into `told`, then validation; `live` changes at a boot
only. That Payload answers requests from what it built at the start and tells the panel from
its config is taken from how it is used: it is external.
A definition is `complete` if the sort can read it: an array or a group of a new collection
without fields of its own makes the sort throw, and so does an extension without a list.
`FromFile` is what a file hands on to a boot: of the functions given as text those for the
usual operations only (`transformToSafeAccess`). The plugin's collection, `Forms`, is pushed
last, after definitions that relate to it by an extension's field; `RelationsComeFirst`
excepts it. `EntityAssumption` says that definitions have the fields the code reads, that no
collection of the program has the slug of the plugin's, and that fields come in lists.

### DBIndexes

`indexes` is the database's, `schema[s]` what server `s` has in memory: that of the
fields, and on top of it every index document the process has been asked to create
since it started. `create[d]` and `delete[d]` are the awaits of the two hooks.
`StartBuild` is `schema.index()` and the call of `ensureIndexes()`, which is `Build`,
one index after the other. `Served` are the documents whose collection the deployment serves;
the hooks of another throw once the document is written or deleted (`Begins`). `DropDeleted` is the `dropIndex()` nobody awaits: when it
rejects the process ends (`Dies`). MongoDB and mongoose are external: an index whose name
or key another one has is refused, and so is the drop of a name that is not there.

### Endpoints

`at[r]` is the await the handler of a request is at, or `answered`, `dropped` with its
process, or `unanswered`: the handler is over and has sent nothing. `Throws` is an
error nobody catches; `Exits` takes every open request along. `Restart` is the policy of
`docker-compose.yml`. The database is only reachable or not. `host` is what the regular
expression of the readiness probe takes from the database's url: the right name, none, or, of
an url with several hosts, a name that is nobody's. A lookup by slug is about a collection with a field
for slugs or, as for alerts, without; an oEmbed lookup comes without an url, with a text, or with
the object Express makes of `?url[x]=1`. `HandlerStep` settles by
itself, `LookupStep` waits for a provider on the network.

### OEmbedPreview

`fetches` are all that the effect of `oEmbedURLField` has sent, each with its block, the
address it was for and what became of it; answers settle in any order, and none need come.
`Clear` unmounts a preview, after which its answers change nothing on the screen but still
put their scripts into the page. `scripts` are the script elements of the page, one after the
other, each with its source and its id. `Found` is the search of `loadScript`: by source when
there is no id, and then by the id `null`, which the DOM reads as the text `"null"` and
which every script put in that way has. What is found is taken out with
`document.removeChild()`, of which it is no child: the answer ends there. React is
external; a preview that renders without an address breaks the rule of hooks, and whether
it does before it is unmounted is left open (`broken`).

### EntityEditor

`form` is the value of the field, held by reference: `json = "Template"` says that it is the
very object of the module `ExtensionEntity.ts`, and `template` is the collection that object
names at the moment. `onSelectChange` puts the template in, `onExtensionSelectChange` writes
into whatever object the form holds, `onEditorChange` replaces the object by a parsed copy.
`Render` is the render after a handler: the text editor takes over the text it is given when
that has changed or the editor was not there. `selected` and `jsonError` are state of the
component, and only what the handlers name changes them. `SubmitForm` is Payload's form, which
puts what was stored in the place of what it sent: `SaveForm` publishes, and is refused while the
text has an error (`memoizedValidate`); `SaveFormAsDraft` saves a draft, which skips the
validation, so that the value the form still holds is stored behind the text in error.
`last`, `picks` and `seen` (the last text shown that can be parsed) are history. Payload's form, React and the text editor are external; of a
JSON only what it defines is kept.

### Photos, SlugUtils, MediaSlugs, TextUtils and DerivedFields

`Photos` has users and media documents: `file[m]` is the picture of a media document, a user
has a photo and the copied address. `BeginSave` is what the hook of `photo_url` is given,
`Lookup` the `findByID` it awaits, `WriteUser` the write after it; several saves of one user
are under way at once. Whether Payload has filled in a field that a save does not name is
left open in each save. `owner`, `chosen` and `blank` are history: whose file an address
was, which photos a user was ever given, and for which of them no address was found.

`SlugUtils!Slugify` works on classes of characters: letters, upper-case letters, marks,
spaces, dashes, others. `MediaSlugs` adds the text and the slug to a media document:
`SaveMedia` stores what `slugifyHook` makes, `Shown` is the same hook on a read, and
`bySlug` what the endpoint looks for; `bare` is the history of saves that gave the hook no
letter. `MCDerivedFields` checks `SlugsAreFixed` for all texts of up to five characters, and
`Collections_proofs` proves it for all: a slug is its own slug.

`TextUtils` has two walks of trees of nodes, `Serialize` and `GetInternalLinks`. Of the
HTML only the order of words, links and addresses is kept. A link is `populated` or has an
id as its value, as the panel saves it: `Serialize` reads `doc.value.id` (`Target`), which of an id
is undefined, and `GetInternalLinks` takes `doc` as it is. Both call themselves on the
children of a node: they are recursive functions on `Nodes`, the nodes there are, and
`Depth` says how many levels are below each, as a text is JSON and nests only so deep
(`TextAssumption`). `Html` and `Links` are what is made of one node once its children are
done. `DerivedFields` (`DerivedSpec`) runs them in
hooks: `SaveText` is the hook of a story (the column as a whole), of a form
(`RichTextHooks`) or of a custom entity (`TransformToField`), the last two over the children
of each node.

## The runs

| run | question | states | bounds |
|---|---|---|---|
| `owners` | does every orphan have an explanation, at each step? | 1.9 M | 1 organization, 2 requests to delete it, 2 projects, 1 environment, pages of 1, one save, failure and crash; symmetry and view |
| `owners_two` | does a cascade stay below what was asked for; is every delete answered? | 210 k | 2 requests to delete one organization, another one that its project can move to, 1 environment |
| `notifications` | does a server implement `HookDispatch`, and its bus keep what it says? | 484 k | 1 operation, a bus and an HTTP target, attached up to 3 times (6 hooks), 2 SIGINTs, 1 broker restart |
| `webhooks` | are stored and saved hooks the ones that run; who comes up? | 166 k | 2 replicas with 3 restarts each, 2 documents, pages of 1; one save, delete, crash |
| `communications` | who is mailed, how often, and what does the answer mean? | 1.7 M | 4 users in pages of 1, finds of 2, copies absent, empty or three users, one user created or deleted |
| `send_to_all` | does sendToAll reach all users? It does not. | violation | the same |
| `entities` | do the files follow the documents? | 90 k | 2 documents, 2 slugs, 2 versions, 2 enablers, 1 server, 2 requests |
| `definitions` | was what is saved on the screen, and whose choice is it; is what is served, and to whom, what the definitions say? | 1.1 M | 2 documents, 2 collections and no bound on the events of the page; any 3 of 11 definitions in any order, any collections disabled, 2 saves or deletes on the server; symmetry and view |
| `indexes` | who disturbs an index, and who ends a server? | 3.1 M | 2 servers, 4 documents: two for one key, one stored before, one of a collection not served; one failure or crash; symmetry |
| `endpoints` | what ends a server, and is what is open settled? | 602 k | 2 requests of any kind, any deployment, 1 outage, 3 restarts |
| `content` | does what is copied agree with what it was copied from; does a preview show the answer for its address? | 2.4 M | 1 user with 2 saves at once, 2 media documents, 3 files, 2 texts and 3 slugs, a story and a custom entity with 6 rich texts, 4 saves in all; 2 blocks, 4 addresses (no script, the shared one, two others), 4 changes of address; symmetry |
| `preview_twitter` | is the answer for a tweet shown? It is not. | violation | 1 block, 1 fetch |

The view of `owners` leaves out the three history variables that neither a step nor the two
properties of that run look at (who owned a document before, and what was asked for). That of
`definitions` leaves out the folder once the last boot of the bound has read it: nothing but a
boot reads it.

Every property of a passing run has a mutant, a plausible slip in one definition, under
which TLC finds the property violated.

**What the properties say.**
`OrphansAreExplained` is the reason the cascade works bottom-up, and `SelectionsCover` why:
what a delete selected is all its owner has, except strays. `NothingElseIsDeleted` relates
each deletion to a request and to every owner the document ever had (a project moved
away after it was selected is still deleted: that is allowed, and said). In both runs two
requests delete the same organization, and meet documents the other one has removed.
`FailedConnectIsMute` and `ClosedStaysClosed` relate `isConnected()` to what really can be
sent. `PublishedInOrder` and `ImplementsDispatch` say that no target
shows in an operation. `AnsweredSavesAreRun`,
`BootRunsStoredHooks` and `HooksOnlyGrow` relate documents, registry and hooks of
replicas: a save binds the replica that answers it, the others take it over at their next boot,
and nothing is said of them in between. `ServersComeUp` says that a server with a restart left
comes up unless a document without an event is stored; while one is, every start fails and
uses up a restart, and only for a server that has one left does deleting the document help.
`OneMessagePerRecipient` says who is on which message, though the users of the first page are
listed twice; it does not say that a user gets one mail, which is false of copies.
`SendToAllReach` states exactly whom the messages of sendToAll go to, given the loop and the
limit, and `SendToAllReachesAll` what its label says. `FilesFollowDocuments` relates three processes' work on the
volume, at quiescence. `EntitiesServed` compares the sort with a least fixed point;
`OnlyNamedChange` compares merged access with what definitions name, for what requests get and for
what the panel is told, and `SavesActLikeABoot` what the panel is told after saves with what
requests get after a boot; `FilterIsExactWhenSparse` says when the splice is exact.
`DocumentsAreIndexed`, `OnlyRivalsFail` and `OnlyRivalsKill` say that creates and deletes
disturb each other through a shared name or key and in no other way, and
`OrphanIndexesAreExplained` names the ways an index outlives its document: the drop that
never came, and the schema that builds it again. `OnlyFaultsKill` and `RestartsAreRecorded`
relate the end of a process to what a request met: `OnlyFaultsKill` names each case, three of
which need no outage (an url with several hosts, an object for an url, a lookup by slug where there are
no slugs); `RequestsAreSettled` and
`InstanceComesBack` say that nothing waits for ever but a lookup or a refused restart.
`PreviewFollowsAddress` relates what is shown to the order in which answers came: the answer to the
latest address, or one to an earlier address of the same preview that came later, which the
code lets win. `ScriptsLoadOnce` says that the two searches keep every script from being in the page
twice; their price is `AnswersAreShown`, which fails: an answer whose script is there is not shown.
`SavedWasShown` and `UnpickedExtensionsInherit` follow a value through selects, texts, saves
and documents to the store; the exceptions they name are what the code does: a draft may be
stored behind a text in error, and is then the last text that could be parsed, an extension
without a selected collection is stored unseen, and a template nobody picked a collection for
names the one picked last for another document. `PhotoUrlIsExplained` relates the address of a
user's photo to all photos that user was given, across saves that overlap; a removed photo, or
one without an address, leaves the former address. `ShownSlugFinds` relates what readers are
shown to what the lookup finds, unless the last save gave the hook no letter, and `LinksAreListed`
two walks of one tree: the HTML names no document more often than the list, and as often where
it leaves nothing out and every link is populated.

**Why the bounds are enough.** One failure and one crash break each await of a cascade
in turn; two requests are what it takes to delete an organization twice, and a second organization
is what a wrong selection would touch. Two projects are more than a page; one
environment is enough to be left behind, and the proof is for any number. Three
attachments are all the kinds there are (load, init, save). Pages of one document make
every second document a new page; with four users there is a first page, two in the
middle and one the loop misses, and the find limit cuts below what was listed.
Two enablers are what it takes to race; a third adds no new pair. Three definitions make a
chain (leagues, teams, matches) in all orders, which is what the sort has to survive; one of the
definitions has the slug of a collection of the program, so that it can take its place
where that one is disabled, and relates to the plugin's.
Two index documents for one key are rivals, a third is a bystander, a fourth is of a collection that is
not served, the one stored before is what a boot finds; a second server has another schema. Of two requests one ends
the process and the other is open meanwhile. Two previews are enough to share a page;
four changes overtake each other on both. Two documents are what it takes to share a template,
and two collections to tell a picked one from an inherited one. A photo that is changed needs
two media documents, and its former file a third; two saves of one user overlap in all the
ways there are, and four saves are a photo, its removal, and two that race.
In `WebHooks` the restarts are those of the compose file: a crash takes one, and boots that throw
on a bad row can take them all.

**Deadlock.** Checked where the system never stops (`owners*`, because a delete can always be
asked for again). Elsewhere a server may have exited, or the bounded requests may be over, so `CHECK_DEADLOCK FALSE`.

**Fairness.** Only steps that the event loop, a library's timeout or an endless script
guarantee: the continuation of an await that settles (database, RabbitMQ client with
`acquireTimeout`/`connectionTimeout`), the loop of an enabler, the boot of a server
as long as its restart policy has attempts left, the end of a find, a file access or a socket that connects. A user is never fair, a fetch has no timeout and is never
fair, nor is an oEmbed provider, the broker need not restart, and a request is not assumed to be received.

## What is proved

`OwnersCascade_proofs` (for any sets of owners and any bounds, from `OwnersAssumption`:
the markers are no owners, bounds are naturals):

* `TypeCorrect`. `TypeOK` is inductive, in four parts, each with a lemma. All of this holds for any
  number of requests, however many delete the same organization.
* `SelectionsAlwaysCover` and `OrphansAlwaysExplained`. The orphan property is not
  inductive: the step that deletes an owner needs that nothing is below it any more, which
  is `SelectionsCover` at the last phase; and that needs what the earlier phases
  selected. Their conjunction is inductive. `found`, the page that is only one page
  long, appears nowhere in it: the second level of the cascade makes the limit harmless.
* `NothingElseEverDeleted`. Strengthened with `Lineage` (a document's present owner, and
  the one a pending save will write, is in its history), `SelectedProjectsDoomed` and
  `SelectedEnvsDoomed` (everything selected was below something requested), and
  a lemma that the history only grows.
* `DeletesAlwaysRunDown` (for finitely many environments), the safety half of
  `DeleteIsAnswered`: `OrgLeft` and `TaskLeft` count the steps a delete has left; each of its own
  leaves it fewer, and nothing else, not even documents saved below it meanwhile, leaves it more
  or gives a request another project to wait for. It needs `BulkOnly`: only a bulk delete
  has deletes of projects below it.

`Notifications_proofs` (any operations, targets, times they are attached, signals and broker
restarts; of the server's own `Spec`):

* `ServerRunsTheBus`: every step of the server is one of `MessageBus` or leaves the bus alone, so
  what holds of the bus holds of it inside the server.
* `BusTypeCorrect`, `FailedConnectStaysMute`, `CloseIsFinal`, `BindingLastsUntilRestart`, from
  `Strong`: the type, `MuteBeforeDone` (no publisher and nothing sent before
  `connect()` is done), `CloseForgets` (what each `close()` has released stays released)
  and `BindingHolds` (bound, or the broker restarted since).
* `TypeCorrect` and `AlwaysPublishedInOrder`, from `IInv`: `InStep` says that an operation has
  tried all hooks before the one it is at and none after it, and that only the one it is at
  may have a publish that has not settled; `HooksTyped` bounds the hooks by the number of
  attachments, which needs that `HooksFor` is no longer than `Registered`.
* `ServerDispatches`: the initial states and the steps of the server are those of
  `HookDispatch` under the mapping, or stutter.

`DBIndexes_proofs` (any servers, documents and indexes, any number of failures, from
`IndexesAssumption`: the indexes there were at the start do not clash, the fields are a
sequence). The invariant is in parts, each with a lemma:

* `TypeCorrect` needs `Routed`: who waits has a server, and a build has something left.
* `KnownOnly`: an index of the database, a schema or a list of builds is one of the
  fields or of a document whose create has got as far as the schema (`Entered`).
  `OldIsKnown`: what a create is about to drop had its key. With `AloneIsUnique`, a known index that
  shares a name or a key with one that is alone *is* that one.
* `DocumentsAlwaysIndexed`: the property alone is not inductive; `Indexed` adds that between the
  schema and the answer the index is built or still on the list, and the two parts above
  keep every other drop away from it.
* `OnlyRivalsEverFail` and `OnlyRivalsEverKill`: as long as everything is alone and nothing
  has failed there is `Peace`: nothing to drop is found for a create of a document that is
  served, nothing is refused, and what a delete has found stays until it is dropped.
* `OrphanIndexesAlwaysExplained`: inductive by itself.

`Endpoints_proofs`, of `Endpoints` (any requests, any restarts and outages): `TypeCorrect`,
`OnlyFaultsEverKill`, `RestartsAlwaysRecorded`, from `AwaitsMatch` (a handler is only at the
awaits of its kind), `AwayIsAnOutage` and `CulpritsAreOver`. Of `OEmbedPreview` (any blocks,
addresses, scripts and order of answers): `PreviewTypeCorrect`, `PreviewsFollow` and
`ScriptsAlwaysLoadOnce`. The preview's property needs `LatestIsWanted`, the latest fetch of a
preview is for the address its block has, and `LatestIsShown`; the other `IdsApart`, each of the two ids is
there once at most and what an answer brought is not the script of the previews, and
`WidgetsAreThere`. So a page has at most two scripts, whatever the answers bring.

`Subsequences_proofs` has the lemmas the others share, about lists without recursion: `Picked`
keeps elements in order and no other, a `Page` shows the positions it should, the pages cover
the list, flattening a list of lists keeps every element, and a fold over `0 .. n` that takes a
step of a set to the set stays in it (`RecursionExists`, `InductionUpTo`). `IterationExists` is the
same for a step that may be anything, from which `FlattenSeqSteps` follows: what the community
module's `FlattenSeq` makes of a list is what it makes of the list without its last element, and
that element.

`WebHooks_proofs` (any servers, documents, rows, variables and page size, from
`WebHooksAssumption`), from one invariant, `Inv`:

* `WebHooksTypeCorrect`, with `PagesAreCounted`: what a server has read and what it waits for are
  the first so many pages.
* `AnsweredSavesAlwaysRun`. A lemma about `Construct` says that it only adds to a registry and
  meets every row it goes through; `Runs` is then kept by every step but a restart, and a
  restart ends the saves of its server.
* `BootAlwaysRunsStoredHooks`, from `PagesFollowTable`: as long as no document came or went the
  pages are those of the table, and those read have the rows of the documents that have not
  changed, in whatever order they were answered.
* `HooksOnlyEverGrow`, with `OwnIsFirst`.

`Collections_proofs`, of `Communications` (any requests, people, pages and limits):

* `CommunicationsTypeCorrect`, `FailuresMailNobody` and `CreatedIsSettled`, from `StageInv`:
  mails leave in one step, the last that can fail (`SilentBeforeMailing`, `WrittenFirst`).
* `MessagesAreOnePerRecipient`: though a user may be listed several times, a find returns nobody
  twice, and the copies are some of those the lists name (`FoundOf`).
* `SendToAllReaches`, from `Traced`: what a request has read, asked for, listed and found, as
  positions of the users it saw first; the pages the loop asks for are the positions up to
  `Listed`, by a lemma about pages.
* `RequestsAlwaysRunDown`, the safety half of `RequestsAreAnswered`: a step of a request leaves it
  fewer (`StepsLeft`), and no other request and no user who comes or goes leaves it more. It rests
  on there being no more pages than users, and no more users than people, as nobody is twice among
  them (`PagesAreFew`).

Of `Photos` (any users, media documents, files and saves at once, of `PhotosSpec`):
`PhotosTypeCorrect` and `PhotoUrlAlwaysExplained`. The property is not inductive: `SaveFits` says
the same of what each save under way is about to write, in terms of facts that last, because
the user may have changed any number of times since the save began.

Of `MediaSlugs` (all texts, of `SlugsSpec`): `SlugsTypeCorrect`, `ShownSlugAlwaysFinds` and
`SlugsImplementPhotos`. The second follows from `StoredSlugs` (what is stored is a slug, and
not empty unless the last save had no letter) and from a fact about `Slugify`: what it returns
has letters and single dashes only, of which it then changes nothing.

Of `DerivedFields` (any texts that nest any number of levels deep, any media, users and saves, of
`DerivedSpec`): `DerivedTypeCorrect`, `LinksAlwaysListed` and `DerivedImplementsSlugs`. A
recursive function is only known to satisfy its own equation if some function does: `WalkExists`
makes one level by level of `Depth`, and `HtmlOfIs`, `LinksOfIs` and `NodesOfIs` are the equations.
From them, by `NodeInduction`, a document occurs in the links of a node at least as often as
in its HTML (`HtmlAtMostLinks`), and no more often when nothing is left out and every link is
populated (`LinksAtMostHtml`). The
last theorem is the composition: every step of `DerivedNext` is one of `SlugsNext` or leaves its
variables alone, so that the theorems about slugs and photos hold with rich texts beside them.

`CustomEntities_proofs`, of `CustomEntities` (any documents, slugs, enablers, servers and failures): `TypeCorrect`,
`LoadsFailOnlyOnDelete` and `FilesAlwaysFollowDocuments`. The second is strengthened to
`FailsAfterDelete`: a file that a
load has still to import is in `definitions`, or a delete has been met. It is
inductive because an enabler's move replaces a definition and never takes one away. The third
is strengthened to `ClearSlugsMatch`: a slug that no failure and no overlap has made murky has
at most one document and at most one unfinished request, which agrees with that document; and
when it has none, the file a load would find does. It uses that a move of an enabler
never changes which version that is.

Of `EntityEditor` (any documents and collections): `EditorTypeCorrect`, `SavedWasAlwaysShown` and
`UnpickedAlwaysInherit`. The two action properties follow from `TextIsHeld` (while the text editor
is there, the form holds the last text shown that could be parsed, whoever changed the template,
and another text is shown only with an error), `Inherited` (where the collection of the open extension comes from) and
`KindsComeFirst`.

Of `EntityConfig` (any catalogue of definitions, any program, rules, roles and users, any folder
and order of its files, any saves and boots; from `EntityAssumption` and `AccessAssumption`), in
the order of the code:

* *The reference.* `ResolvableIsLeast`: what the sort is compared with is closed, and in every closed
  set of definitions.
* *The sort.* `SortInv` says of the work of `traverse()` that what is left and what is placed are
  the definitions, that the graph is in order, that a definition is placed only if it can be
  resolved, and that, once a call goes past a position, what it passed over cannot be placed
  with what the call began with. `Budget` and `Within` count the steps that are left,
  so that the walk has ended within the steps the model gives it. `SortIs`: the sort returns the
  resolvable definitions, each once and after those it relates to.
* *Applying.* `ApplyInv` is kept by each definition in turn: what is served is the program's and the
  new collections so far, in order, and the access of each collection is explained by the
  definitions so far. `Gains` says that nobody has gained what none of them names, and
  `Follows` that a rule none of them names is as it was, at most evaluated from its text
  (`Moved`), and what the merge of one definition makes of it if that one is all there was,
  once or many times (`MergingTwice`).
* *The filter.* `Visited`: after the visits of the positions up to `n` the list is what stays of the
  first `m` fields followed by all the others, where `n` of the first `m` stay or `m` is
  the end. With no two dangling neighbours the field that moves into the place of one taken out
  is sound, and `m` may step over both.
* *The server.* `ConfigInv` says this of what requests use, with the files of the boot (`LiveInv`),
  and of the copies the panel is told of, with a set of files and saved definitions that explains
  them (`ToldInv`): a definition saved twice merges into what it has merged into.
  From it `ConfigTypeCorrect`, `ResolvableIsServed`, `RelationsAlwaysComeFirst`, `OnlyNamedEverChange`,
  `SavesAlwaysActLikeABoot` and `FilterAlwaysExactWhenSparse`.

Only model-checked:

* liveness (`DeleteIsAnswered`, `ServersComeUp`, `RequestsAreAnswered`, `DropsAreEnabled`,
  `RequestsAreSettled`, `InstanceComesBack`) and the refinement of `HookDispatch` with its
  fairness: they need ENABLED, which the prover does not handle. Of the first and the third
  it is proved that a delete and a request take only so many steps of their own: what is left of
  one is a natural number that its own steps make smaller and no other step makes greater. That
  a step is taken as long as one is open is left to TLC.

Recursion is within reach where it runs over numbers or down a tree of bounded depth:
`Construct`, the sort, the fold over the definitions and the filter are recursive functions on
`0 .. n`, the walks of a text are recursive functions on its nodes, and what they return is
proved by induction on the steps (`InductionUpTo`) and on the levels (`NodeInduction`). Of a
RECURSIVE operator nothing can be proved: only `MCDerivedFields`, which no proof uses, declares any,
to list the nodes TLC needs.

## Where the code and its documents disagree

The first two have a run that finds the violation; of the others the properties named state
what the code does.

* The loop over the pages of sendToAll (`Communications.ts:167`) reads page 1 twice and the
  last page never, and one find looks up ten of those listed, while the label of the field
  asks "Send to all users?". `SendToAllReachesAll` fails in `send_to_all`; `SendToAllReach` states
  who is reached.
* The description of the oEmbed block (`oEmbedBlock.ts:20`) names Twitter, whose answers bring the
  script each preview has loaded already; taking it out throws (`oEmbedURLField.tsx:81`), and the
  answer is not shown. `AnswersAreShown` fails in `preview_twitter`.
* Access functions that close over something (`GetEdit`, the wheres of `GetReadWithWheres`)
  throw once any extension touches their collection, because `ConfigUtils.ts:234` evaluates
  their text. `ConfigUtils.test.ts:64` expects a fallback to answer as before.
  `OnlyNamedChange` excepts the operations that throw.
* `TransformToField` copies a field, maps over the `fields` in it and drops the result
  (`ConfigUtils.ts:167`), while it keeps that of `tabs`: what is nested in a row or an array
  keeps its functions as text, and a nested rich text has no copy. `DerivedFields` has
  top-level rich texts only.
* `Alerts` has the lookup by slug and no field for a slug: each such lookup ends the process, with the
  database up (`OnlyFaultsKill` names it).
* An url of the database with several hosts passes the regular expression of the readiness probe
  (`server.ts:226`), which then looks for a host of that name; an `url` that is an object has no
  `indexOf` (`oEmbedEndpoints.ts:23`). `OnlyFaultsKill` names both.

Seen while reading: one failing delete in a bulk delete, and the organization
is answered as deleted with its project left behind (`OrphansAreExplained` allows it by
name); a target of the deployment is attached when the config is loaded and again in
`onInit`, so it is notified twice; the README spells the bus target `RABBITMQ`, while
`hooks/WebHooks.ts:107` compares with `rabbitmq`; a row switched from http to rabbitmq
keeps its url, by which `hooks/WebHooks.ts:41` still takes it for registered; the lookup of
the recipients in `Communications.ts:55` has the default limit of ten; a refused or failed
oEmbed lookup sets its status and sends nothing (`oEmbedEndpoints.ts:13` and `:42`), and
the unit test looks at the call of `status()` only; a copy of a communication is looked up by
`value.id`, without the fallback a recipient has, so that with depth 0 nobody is copied; a link as
the panel saves it, with an id for its value, is `undefined` in the HTML and named in the list of links
(`LinksAreListed` excepts it); merging an extension deletes its
`safeAdminHidden` from the very document that is being saved; and a function for
`readVersions` or `unlock` is told to the panel when it is saved, is gone after a restart, and is never
what requests are answered with (`SavesActLikeABoot` excepts them).

## What is left out

* Data: mail bodies, the contents of wheres, nested fields, tabs, field-level access,
  localisation, versions other than drafts of custom entities; the drafts of media and
  the branch of `slugifyHook` for a slug that is the id; the wording of HTML, and
  `FormatEmailHTML`, which changes nothing but wording.
* What Payload fills in of fields that a save does not name is left open, not modelled.
* Payload, MongoDB, RabbitMQ, the file system: external, modelled from how they are used. That
  requests do not see what is merged into the copies of `onInit`, and that a find by a field
  a collection does not have is refused, is Payload's doing and taken as given.
  Payload's sanitising is assumed not to throw on a relation to nothing, since the code
  takes those out after it has built the config.
* The other content collections, blocks, `fields/link.ts`, preview URLs and logging:
  declarations or I/O. `AdministerInstance` is one button that calls the restart endpoint.
* A type `rabbitmq` spelt another way, options that rename an index, and builds of definitions (one version per slug).

## Plan

Done, in this order: the cascade (the one place where data can be lost), the bus, delivery,
the registry, communications, the pipeline, the configuration, the indexes, the
handlers, the previews, the entity editor, the derived fields; and the proofs of every safety
property that a run checks, with the safety part of the refinement and of two of the liveness
properties. Next:

1. Proofs: that saves and restarts of `EntityConfig` are those of `CustomEntities` under a mapping,
   in which the folder is what the enabler has moved; that the requests of `Endpoints` run down as
   those of the other modules do.
2. Composition: saves of custom entities with the pipeline and the configuration, so that
   what the panel is told and the next boot's access are related through the volume.
3. Drafts of media and their slugs, once it is clear from the code which version a lookup reads.
