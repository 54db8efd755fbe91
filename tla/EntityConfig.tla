---------------------------- MODULE EntityConfig ----------------------------
(***************************************************************************)
(* How the collections a server serves come about.  At boot the collections*)
(* of the program, less those the deployment disables, are joined with the *)
(* custom entities the server finds: new collections, sorted so that each  *)
(* comes after those it relates to, and extensions that change a collection*)
(* in place.  Fields that relate to nothing are then taken out.            *)
(*                                                                         *)
(* At the end of a boot onInit copies the collections.  Requests go on     *)
(* using those that were copied; saving an extension changes the copies,   *)
(* of which the panel is told what a user may do.                          *)
(*                                                                         *)
(* A boot is synchronous between its awaits, hence one step.  Of a field   *)
(* the model keeps its name and the collections it relates to; fields      *)
(* nested in others are left out.                                          *)
(***************************************************************************)
EXTENDS AccessRules, CollectionSort

CONSTANTS
    Catalogue,     (* the definitions somebody may save *)
    Program,       (* the program's collections: a sequence of their slugs *)
    ProgramAccess, (* their access *)
    ProgramFields, (* their fields *)
    Forms,         (* the slug of the collection of the form plugin *)
    MaxSaves, MaxBoots, MaxStored  (* bounds *)

\* Of a definition the model keeps its slug, what it extends, the fields it brings
\* (an extension has them in "extends"), and its access.  It is valid if the schema
\* accepts it, and complete if the sort can read the list of fields of its own: a new
\* collection may have an array without fields, and an extension, whose own list is
\* empty otherwise, no list at all.
IsField(f) == f.type \in {"text", "relationship", "upload"} /\ f.to \in Seq(ToSet(f.to))
AreFields(fields) == fields \in Seq(ToSet(fields)) /\ \A f \in ToSet(fields) : IsField(f)
IsAccess(access) == DOMAIN access \subseteq Ops /\ access \in [DOMAIN access -> Rules]
IsDefinition(d) ==
    /\ d \in [slug : {d.slug}, extends : {d.extends}, valid : BOOLEAN, complete : BOOLEAN,
              fields : {d.fields}, hidden : {d.hidden},
              hasTexts : BOOLEAN, texts : SUBSET Ops, byRoles : {d.byRoles}]
    /\ AreFields(d.fields)
    /\ DOMAIN d.byRoles \subseteq Ops /\ d.byRoles \in [DOMAIN d.byRoles -> SUBSET Roles]

ASSUME EntityAssumption ==
    /\ \A d \in Catalogue : IsDefinition(d)
    /\ Program \in Seq(ToSet(Program)) /\ {NoBase, Forms} \cap ToSet(Program) = {}
    /\ \A slug \in ToSet(Program) : IsAccess(ProgramAccess[slug]) /\ AreFields(ProgramFields[slug])
    /\ MaxSaves \in Nat /\ MaxBoots \in Nat /\ MaxStored \in Nat

VARIABLES
    disabled,  (* PAYLOAD_PUBLIC_DISABLED_ENTITIES_SLUGS *)
    folder,    (* the definitions in the folder, one for each slug *)
    live,      (* the collections requests use, NoConfig while the server is down *)
    told,      (* the copies of them that the panel is told of *)
    booted,    (* history: the definitions of the last boot, in their order *)
    raw,       (* history: the fields before FilterInvalidRelationships *)
    tried,     (* history: the definitions saved, or refused, since then *)
    saves, boots

configVars == <<disabled, folder, live, told, booted, raw, tried, saves, boots>>

NoConfig == [slugs |-> <<>>, access |-> <<>>, fields |-> <<>>]

-----------------------------------------------------------------------------
(* Reading a definition *)

\* Of the functions a definition gives as text a file hands on those for the
\* usual operations; what is left may be none at all.
FromFile(d) == [d EXCEPT !.texts = @ \cap {"admin", "create", "read", "update", "delete"}]

-----------------------------------------------------------------------------
(* The collections of the program *)

GetEnabledCollections == Among(Program, ToSet(Program) \ disabled)

\* Fields that relate to a disabled collection are dropped, uploads excepted.
FilterRelationships(fields) ==
    Picked(fields, {i \in DOMAIN fields :
        fields[i].type = "relationship" => ToSet(fields[i].to) \cap disabled = {}})

GetFilteredCollections ==
    LET enabled == ToSet(GetEnabledCollections)
    IN  [slugs |-> GetEnabledCollections,
         access |-> [slug \in enabled |-> ProgramAccess[slug]],
         fields |-> [slug \in enabled |-> FilterRelationships(ProgramFields[slug])]]

-----------------------------------------------------------------------------
(* Applying a definition *)

\* What f says, and what g says where f says nothing.
OrElse(f, g) == [x \in DOMAIN f \cup DOMAIN g |-> IF x \in DOMAIN f THEN f[x] ELSE g[x]]

MergedAccess(d, access) ==
    LET texts == IF d.hasTexts THEN WithTexts(d.texts, access) ELSE access
    IN  IF DOMAIN d.byRoles = {} THEN texts ELSE WithRoles(d.byRoles, texts)

\* The extended collection is changed in place; if there is none, nothing is.
Extend(config, d) ==
    IF d.extends \notin ToSet(config.slugs) THEN config
    ELSE [config EXCEPT
            !.access[d.extends] = MergedAccess(d, @),
            !.fields[d.extends] = Picked(@, {i \in DOMAIN @ : @[i].name \notin d.hidden}) \o d.fields]

\* A new collection is pushed unless it violates the schema.
Add(config, d) ==
    IF ~d.valid THEN config
    ELSE [slugs |-> Append(config.slugs, d.slug),
          access |-> OrElse([slug \in {d.slug} |-> MergedAccess(d, <<>>)], config.access),
          fields |-> OrElse([slug \in {d.slug} |-> d.fields], config.fields)]

TransformCollection(config, d) == IF Extension(d) THEN Extend(config, d) ELSE Add(config, d)

\* What the sort cannot read makes it throw, before anything is applied.
FilterValidCollections(config, incoming) ==
    IF \E i \in DOMAIN incoming : ~incoming[i].complete THEN config
    ELSE
        LET sorted == SortCollectionsByRelations(ToSet(config.slugs), incoming)
            after[n \in 0 .. Len(sorted)] ==
                IF n = 0 THEN config ELSE TransformCollection(after[n - 1], sorted[n])
        IN  after[Len(sorted)]

\* The first extension of the plugin's collection decides on its access: its
\* roles if it has some, and the plugin's own rules for what it leaves open.
GetAccessForPlugins(incoming) ==
    LET wanted(d) == d.extends = Forms /\ (d.hasTexts \/ DOMAIN d.byRoles # {})
        first == SelectInSeq(incoming, wanted)
    IN  IF first = 0 THEN GetReadAll
        ELSE IF DOMAIN incoming[first].byRoles # {}
        THEN WithRoles(incoming[first].byRoles, <<>>)
        ELSE OrElse(WithTexts(incoming[first].texts, <<>>), GetReadAll)

WithPlugins(config, incoming) ==
    [slugs |-> Append(config.slugs, Forms),
     access |-> OrElse([slug \in {Forms} |-> GetAccessForPlugins(incoming)], config.access),
     fields |-> OrElse([slug \in {Forms} |-> <<>>], config.fields)]

-----------------------------------------------------------------------------
(* Taking out fields that relate to nothing *)

Missing(field, slugs) == Cardinality({i \in DOMAIN field.to : field.to[i] \notin slugs})

\* forEach again: each relation that is missing takes one field out at the
\* position of the field, and the field that moves there is not looked at.
Visit(fields, i, slugs) ==
    IF i > Len(fields) THEN fields
    ELSE SubSeq(fields, 1, i - 1) \o SubSeq(fields, i + Missing(fields[i], slugs), Len(fields))

Check(fields, slugs) ==
    LET after[i \in 0 .. Len(fields)] == IF i = 0 THEN fields ELSE Visit(after[i - 1], i, slugs)
    IN  after[Len(fields)]

\* Mutant: the position after a field that was taken out is one too far.
FilterInvalidRelationships_Wide(config) ==
    [config EXCEPT !.fields = [slug \in DOMAIN @ |->
        LET bad == SelectInSeq(@[slug], LAMBDA f : Missing(f, ToSet(config.slugs)) > 0)
        IN  IF bad = 0 THEN @[slug] ELSE SubSeq(@[slug], 1, bad - 1)]]

FilterInvalidRelationships(config) ==
    [config EXCEPT !.fields = [slug \in DOMAIN @ |-> Check(@[slug], ToSet(config.slugs))]]

-----------------------------------------------------------------------------
(* The server *)

\* Building the configuration gives a collection the functions it lacks, but
\* for the versions: a user is asked for.
Sanitized(config) ==
    [config EXCEPT !.access = [slug \in DOMAIN @ |->
        OrElse(@[slug], [op \in Ops \ {"readVersions", "admin"} |-> Text])]]

ConfigInit ==
    /\ disabled \in SUBSET (ToSet(Program) \ {"users"})
    /\ folder \in {ds \in SUBSET Catalogue : IsFiniteSet(ds) /\ Cardinality(ds) <= MaxStored
                        /\ \A d, e \in ds : d.slug = e.slug => d = e}
    /\ live = NoConfig /\ told = NoConfig /\ booted = <<>> /\ raw = <<>> /\ tried = {}
    /\ saves = 0 /\ boots = 0

\* The folder is listed in any order.  When the definitions cannot be fetched
\* the server starts without them.  It does not start with two collections of one
\* slug, which Payload refuses.
Boot ==
    /\ live = NoConfig /\ boots < MaxBoots
    /\ boots' = boots + 1
    /\ \E incoming \in SetToSeqs({FromFile(d) : d \in folder}) \cup {<<>>} :
           \E config \in {WithPlugins(FilterValidCollections(GetFilteredCollections, incoming), incoming)} :
               /\ IsInjective(config.slugs)
               /\ live' = FilterInvalidRelationships(Sanitized(config))
               /\ told' = live'
               /\ booted' = incoming
               /\ raw' = config.fields
    /\ tried' = {}
    /\ UNCHANGED <<disabled, folder, saves>>

\* Mutant: the definition is tried on copies of its own.
SaveDefinition_OnCopy(d) ==
    /\ live # NoConfig /\ saves < MaxSaves
    /\ saves' = saves + 1
    /\ tried' = tried \cup {d}
    /\ folder' = IF d.valid THEN {e \in folder : e.slug # d.slug} \cup {d} ELSE folder
    /\ UNCHANGED <<disabled, live, told, booted, raw, boots>>

\* beforeValidate tries the definition on the copies; only then is it validated.
SaveDefinition(d) ==
    /\ live # NoConfig /\ saves < MaxSaves
    /\ saves' = saves + 1
    /\ told' = IF Extension(d) THEN Extend(told, d) ELSE told
    /\ tried' = tried \cup {d}
    /\ folder' = IF d.valid THEN {e \in folder : e.slug # d.slug} \cup {d} ELSE folder
    /\ UNCHANGED <<disabled, live, booted, raw, boots>>

\* Deleting a definition leaves the collections as they are.
DeleteDefinition(d) ==
    /\ live # NoConfig /\ saves < MaxSaves
    /\ saves' = saves + 1
    /\ folder' = folder \ {d}
    /\ UNCHANGED <<disabled, live, told, booted, raw, tried, boots>>

RestartServer ==
    /\ live # NoConfig
    /\ live' = NoConfig /\ told' = NoConfig /\ booted' = <<>> /\ raw' = <<>> /\ tried' = {}
    /\ UNCHANGED <<disabled, folder, saves, boots>>

ConfigNext ==
    \/ Boot \/ RestartServer
    \/ \E d \in Catalogue : SaveDefinition(d)
    \/ \E d \in folder : DeleteDefinition(d)

ConfigSpec == ConfigInit /\ [][ConfigNext]_configVars

-----------------------------------------------------------------------------
(* Properties *)

Up == live # NoConfig
IsServed(config) ==
    /\ config.slugs \in Seq(ToSet(config.slugs)) /\ IsInjective(config.slugs)
    /\ DOMAIN config.access = ToSet(config.slugs) /\ DOMAIN config.fields = ToSet(config.slugs)
    /\ \A slug \in ToSet(config.slugs) : IsAccess(config.access[slug]) /\ AreFields(config.fields[slug])
ConfigTypeOK ==
    /\ disabled \subseteq ToSet(Program) /\ folder \subseteq Catalogue /\ tried \subseteq Catalogue
    /\ ToSet(booted) \subseteq {FromFile(d) : d \in Catalogue}
    /\ IsServed(live) /\ IsServed(told)
    /\ saves \in 0 .. MaxSaves /\ boots \in 0 .. MaxBoots

Enabled == ToSet(Program) \ disabled

\* Whatever the order of the files, every definition that can be resolved is
\* served, and no other, though the sort shortens the list it walks; but one
\* whose list of fields the sort cannot read keeps all of them out.
EntitiesServed ==
    Up => ToSet(live.slugs) = {Forms} \cup Enabled \cup
        IF \E d \in ToSet(booted) : ~d.complete THEN {}
        ELSE {d.slug : d \in {e \in Resolvable(Enabled, ToSet(booted)) : e.valid /\ ~Extension(e)}}

\* A new collection is pushed after those it relates to, as Payload wants; but for
\* the plugin's, which comes last.
RelationsComeFirst ==
    \A d \in ToSet(booted), i, j \in DOMAIN live.slugs :
        /\ ~Extension(d) /\ live.slugs[i] = d.slug /\ d.slug \notin Enabled
        /\ live.slugs[j] \in GetRelationsForCollection(d) \ {Forms}
        => j < i

Applied == ToSet(booted) \cup tried
Concerns(d, slug) == d.extends = slug \/ (~Extension(d) /\ d.slug = slug)
Grants(d, op, user) ==
    \/ op \in d.texts
    \/ op \in DOMAIN d.byRoles /\ user \cap d.byRoles[op] # {}
OriginalAccess(slug) ==
    IF slug = Forms THEN GetReadAll ELSE IF slug \in Enabled THEN ProgramAccess[slug] ELSE <<>>

\* Of a server's collections, after these definitions were applied to them.
GainsAreNamed(config, applied) ==
    \A slug \in ToSet(config.slugs) :
        LET definitions == {d \in applied : Concerns(d, slug)}
        IN  \A op \in Ops, user \in Users :
                Answers(config.access[slug], op, user) = "all" =>
                    \/ Answers(OriginalAccess(slug), op, user) = "all"
                    \/ \E d \in definitions : Grants(d, op, user)

Names(d, op) == op \in d.texts \cup DOMAIN d.byRoles
SelfContained(rule) == rule.kind \notin {"edit", "readWithWheres"}
Kept(config, applied, slug, op) ==
    (\A d \in applied : d.extends = slug => ~Names(d, op)) =>
        \A user \in Users :
            Answers(config.access[slug], op, user) = Answers(ProgramAccess[slug], op, user)

UnnamedIsKept(config, applied) ==
    \A slug \in ToSet(config.slugs) \cap Enabled : \A op \in DOMAIN ProgramAccess[slug] :
        SelfContained(ProgramAccess[slug][op]) => Kept(config, applied, slug, op)

\* Nobody gains an operation that no definition of the boot gives him by name, nor is
\* told so unless by one saved since, in whatever order definitions are merged, and
\* merged again when they are saved.  And an operation no extension names is as it
\* was, if the collection has a function of its own for it that needs nothing it
\* closed over: the others throw from the first extension on, for they are evaluated
\* again from their text.
OnlyNamedChange ==
    /\ GainsAreNamed(live, ToSet(booted)) /\ UnnamedIsKept(live, ToSet(booted))
    /\ GainsAreNamed(told, Applied) /\ UnnamedIsKept(told, Applied)

OnlyExtension(d, slug, applied) == \A e \in applied : e.extends = slug <=> FromFile(e) = FromFile(d)
AsMerged(access, d, slug, op) ==
    \A user \in Users :
        Answers(access, op, user) = Answers(MergedAccess(FromFile(d), ProgramAccess[slug]), op, user)
NotHandedOn(slug) == UNION {d.texts \ FromFile(d).texts : d \in {e \in tried : e.extends = slug}}

\* When the only extension of a collection is saved, once or many times, the panel is
\* told of what requests will be answered after a boot that finds its file, and then
\* they are; but for operations without a function, which roles close for everybody at
\* a boot only, and for the functions a file does not hand on.
SavesActLikeABoot ==
    \A slug \in ToSet(live.slugs) \cap Enabled :
        /\ \A d \in ToSet(booted) :
               OnlyExtension(d, slug, ToSet(booted)) /\ (\A e \in ToSet(booted) : e.complete) =>
                   \A op \in DOMAIN ProgramAccess[slug] : AsMerged(live.access[slug], d, slug, op)
        /\ \A d \in tried :
               OnlyExtension(d, slug, Applied) =>
                   \A op \in DOMAIN ProgramAccess[slug] \ NotHandedOn(slug) :
                       AsMerged(told.access[slug], d, slug, op)

Dangling(f) == Missing(f, ToSet(live.slugs)) > 0
Sparse(fields) ==
    /\ \A i \in DOMAIN fields : Missing(fields[i], ToSet(live.slugs)) <= 1
    /\ \A i \in 1 .. Len(fields) - 1 : ~(Dangling(fields[i]) /\ Dangling(fields[i + 1]))

\* The filter takes out the fields that relate to nothing and no other, unless
\* two of them are neighbours or one has two such relations.
FilterIsExactWhenSparse ==
    Up => \A slug \in DOMAIN raw : Sparse(raw[slug]) =>
        live.fields[slug] = Picked(raw[slug], {i \in DOMAIN raw[slug] : ~Dangling(raw[slug][i])})
=============================================================================
