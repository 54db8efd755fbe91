---------------------------- MODULE MCDefinitions ----------------------------
(* How custom entities are defined (EntityEditor), and what a server makes *)
(* of definitions (EntityConfig).  The two share no state, and to          *)
(* interleave them would show nothing: a behaviour is one of a page of the *)
(* panel or one of the server.                                             *)
EXTENDS MCEntityEditor, MCEntityConfig

VARIABLE side

\* A page does not depend on the server's definitions: it begins with none.
DefinitionsInit ==
    /\ EditorInit /\ ConfigInit /\ side \in {"server", "page"}
    /\ side = "page" => disabled = {} /\ folder = {}

DefinitionsNext ==
    /\ \/ side = "server" /\ ConfigNext /\ UNCHANGED editorVars
       \/ side = "page" /\ EditorNext /\ UNCHANGED configVars
    /\ UNCHANGED side

DefinitionsSpec == DefinitionsInit /\ [][DefinitionsNext]_<<editorVars, configVars, side>>

\* Neither the documents nor the collections of the page are told apart.
Symmetry == Permutations(MCEdited) \cup Permutations(MCCollections)

\* The folder is read by a boot only: after the last one it is left out of the state.
InUse ==
    <<editorVars, disabled, IF boots < MaxBoots THEN folder ELSE {}, live, told, booted, raw,
      tried, saves, boots, side>>
=============================================================================
