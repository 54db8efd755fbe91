--------------------------- MODULE MCEntityConfig ---------------------------
EXTENDS EntityConfig

AllOps == {"read", "create", "update", "unlock"}
AllRoles == {"admin", "managers", "public"}
AllUsers == {Visitor, {"public"}, {"managers"}, {"admin"}}

TextField(n) == [name |-> n, type |-> "text", to |-> <<>>]
Relation(n, to) == [name |-> n, type |-> "relationship", to |-> to]
Upload(n, to) == [name |-> n, type |-> "upload", to |-> <<to>>]

Slugs == <<"users", "stories", "assets">>
Access == [users |-> GetIsAdminOrSelf, stories |-> GetReadWithWheres @@ GetEdit,
           assets |-> GetIsAdminOrBy]
FieldsOf == [users |-> <<TextField("email"), Relation("stories", <<"stories">>)>>,
             stories |-> <<Upload("thumb", "assets"), TextField("title"), Relation("by", <<"users">>)>>,
             assets |-> <<TextField("file")>>]

NoRoles == [op \in {} |-> {}]
New(slug, fields) ==
    [slug |-> slug, extends |-> NoBase, complete |-> TRUE, fields |-> fields, hidden |-> {},
     hasTexts |-> FALSE, texts |-> {}, byRoles |-> NoRoles, valid |-> TRUE]
Extends(slug, base) == [New(slug, <<>>) EXCEPT !.extends = base]
OnlyManagers == [op \in {"create"} |-> {"admin", "managers"}]
ReadByMore == [op \in {"create", "read"} |->
                 IF op = "read" THEN {"managers", "public"} ELSE {"managers"}]

\* A league, the teams in it, the matches of teams: a chain; a tree of itself; one
\* with the slug of a collection of the program, which relates to what only an
\* extension is named; one that is not valid; and one whose array has no fields.
League == New("leagues", <<TextField("name")>>)
Team == [New("teams", <<Relation("league", <<"leagues">>), Relation("owner", <<"users">>)>>)
            EXCEPT !.byRoles = OnlyManagers]
Match == [New("matches", <<Relation("home", <<"teams">>), Upload("photo", "assets")>>)
            EXCEPT !.hasTexts = TRUE, !.texts = {"create"}]
Tree == New("trees", <<Relation("parent", <<"trees">>)>>)
Again == New("stories", <<Relation("form", <<"forms">>)>>)
Broken == [New("leagues", <<TextField("name")>>) EXCEPT !.valid = FALSE]
Line == [New("lines", <<TextField("kind")>>) EXCEPT !.complete = FALSE]

\* Extensions: by roles, one that has no list of its own, and one that hides
\* fields and brings some that relate to nothing, next to each other if there are no
\* assets, twice in one field if there are no teams; one by text that is refused; and
\* one of the plugin's collection.
UsersByRoles == [Extends("users-ext", "users") EXCEPT !.byRoles = ReadByMore, !.complete = FALSE,
                   !.fields = <<TextField("alt")>>]
StoriesByRoles == [Extends("stories-ext", "stories") EXCEPT !.byRoles = OnlyManagers,
                     !.hidden = {"title", "by"},
                     !.fields = <<Relation("nobody", <<"nothing">>), TextField("note"),
                                  Relation("nowhere", <<"nothing">>), TextField("more"),
                                  Relation("both", <<"teams", "nowhere">>)>>]
StoriesRefused == [Extends("stories-ext", "stories") EXCEPT !.hasTexts = TRUE, !.texts = {"update", "unlock"},
                     !.valid = FALSE]
FormsByRoles == [Extends("forms", "forms") EXCEPT !.byRoles = OnlyManagers]

All == {League, Team, Match, Tree, Again, Broken, Line, UsersByRoles, StoriesByRoles,
        StoriesRefused, FormsByRoles}
=============================================================================
