----------------------------- MODULE AccessRules -----------------------------
(***************************************************************************)
(* The access functions of AccessUtils and of custom entities, and what    *)
(* becomes of them when ConfigUtils merges an extension into a collection: *)
(* it turns every function into its source text and evaluates the text in  *)
(* its own module, where a function that needs what it closed over (this,  *)
(* or the list of wheres) throws as soon as it gets that far.              *)
(*                                                                         *)
(* A rule stands for one access function.  A map from operations to rules  *)
(* lacks the operations for which a collection brings none.                *)
(***************************************************************************)
EXTENDS Naturals

CONSTANTS
    Ops,    (* operations of a collection that are subject to access *)
    Roles,  (* roles of users, "admin" among them *)
    Users   (* those who ask, each the set of his roles *)

ASSUME AccessAssumption == "admin" \in Roles /\ Users \subseteq SUBSET Roles

\* A function, with the roles it names, and whether it was evaluated from its text.
RuleKinds == {"isAdmin", "adminOrOwn", "edit", "readWithWheres", "readAll", "text", "roles", "noOp"}
Rules == [kind : RuleKinds, roles : SUBSET Roles, moved : BOOLEAN]

\* A user without roles is told from a visitor by a role nobody names.
Visitor == {}
IsAdmin(user) == "admin" \in user
LoggedIn(user) == user # Visitor

Rule(kind) == [kind |-> kind, roles |-> {}, moved |-> FALSE]
Named(roles) == [kind |-> "roles", roles |-> roles, moved |-> TRUE]
Text == [kind |-> "text", roles |-> {}, moved |-> TRUE]
Moved(rule) == [kind |-> rule.kind, roles |-> rule.roles, moved |-> TRUE]
NoOp == [kind |-> "noOp", roles |-> {}, moved |-> TRUE]

\* The ready-made sets of rules.
GetIsAdminOnly == [op \in Ops \cap {"create", "read", "update", "delete"} |-> Rule("isAdmin")]
GetIsAdminOrSelf ==
    [op \in Ops \ {"unlock", "admin"} |-> IF op = "create" THEN Rule("isAdmin") ELSE Rule("adminOrOwn")]
GetIsAdminOrBy ==
    [op \in Ops \ {"admin"} |-> IF op = "unlock" THEN Rule("isAdmin") ELSE Rule("adminOrOwn")]
GetEdit == [op \in Ops \cap {"create", "update", "delete"} |-> Rule("edit")]
GetReadAll == [op \in Ops \cap {"read"} |-> Rule("readAll")]
GetReadWithWheres == [op \in Ops \cap {"read"} |-> Rule("readWithWheres")]

\* What the function answers: everything, the documents that match a filter,
\* nothing, or not at all because it throws.
Answer(rule, user) ==
    CASE rule.kind = "isAdmin" -> IF IsAdmin(user) THEN "all" ELSE "none"
      [] rule.kind = "adminOrOwn" ->
            IF IsAdmin(user) THEN "all" ELSE IF LoggedIn(user) THEN "some" ELSE "none"
      [] rule.kind = "edit" ->
            IF rule.moved THEN "throws" ELSE IF LoggedIn(user) THEN "all" ELSE "none"
      [] rule.kind = "readWithWheres" ->
            IF LoggedIn(user) THEN "all" ELSE IF rule.moved THEN "throws" ELSE "some"
      [] rule.kind = "readAll" -> "all"
      [] rule.kind = "text" -> IF LoggedIn(user) THEN "all" ELSE "none"
      [] rule.kind = "roles" ->
            IF user \cap rule.roles # {} THEN "all" ELSE "none"
      [] rule.kind = "noOp" -> "none"

\* Without a rule Payload asks for a user.
Answers(access, op, user) ==
    IF op \in DOMAIN access THEN Answer(access[op], user)
    ELSE IF LoggedIn(user) THEN "all" ELSE "none"

-----------------------------------------------------------------------------
(* Merging *)

TransformFromRolesToAccess(byRoles) == [op \in DOMAIN byRoles |-> Named(byRoles[op])]

\* Mutant: the rules of the collection itself are not merged in.
TransformToAccess_NoFallback(keys, source, fallback) ==
    [op \in keys \cup DOMAIN fallback |-> IF op \in DOMAIN source THEN source[op] ELSE NoOp]

\* The result has the keys of both: those of the source that hold null get the
\* rule of the collection as text, or else a function that answers nothing.
TransformToAccess(keys, source, fallback) ==
    [op \in keys \cup DOMAIN fallback |->
        IF op \in DOMAIN source THEN source[op]
        ELSE IF op \in DOMAIN fallback THEN Moved(fallback[op])
        ELSE NoOp]

\* Functions given as text name some operations; roles always name them all,
\* with null for those without roles.
WithTexts(texts, fallback) ==
    TransformToAccess(texts, [op \in texts |-> Text], fallback)
WithRoles(byRoles, fallback) ==
    TransformToAccess(Ops, TransformFromRolesToAccess(byRoles), fallback)
=============================================================================
