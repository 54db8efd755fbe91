---------------------------- MODULE EntityEditor ----------------------------
(***************************************************************************)
(* The field of the admin panel in which a custom entity is defined        *)
(* (CustomEntitiesJsonEditor.tsx): a select for its kind, one for the      *)
(* collection it extends, and a text editor for its JSON.                  *)
(*                                                                         *)
(* A kind that is chosen puts a template into the form.  The template is   *)
(* the object of its module, not a copy of it, and the select for the      *)
(* collection writes into the object that is in the form: one page of the  *)
(* browser has one template of an extension for all the documents that are *)
(* edited in it, and it names the collection that was last chosen.         *)
(*                                                                         *)
(* An event handler and the render with the effect that follow it are one  *)
(* step.  Payload's form, which keeps values by reference and replaces     *)
(* them by the answer to a save, and the text editor, which takes over a   *)
(* text when the text it is given changes, are external.  The slug, which  *)
(* the server puts into each definition and the effect takes out, is left  *)
(* out.                                                                    *)
(***************************************************************************)

CONSTANTS
    Edited,        (* custom entities *)
    Collections,   (* the collections the select offers *)
    Placeholder,   (* the collection the template names at first *)
    Nothing        (* no document, no collection *)

\* What a JSON text defines, as far as it matters: nothing that can be stored
\* ("Empty"), an entity of its own, or an extension, which is the collection it
\* extends.
Kinds == {"SimpleEntity", "AdvancedEntity", "ExtensionEntity"}
Plain == {"SimpleEntity", "AdvancedEntity"}
Targets == Collections \cup {Placeholder}
Contents == {"Empty"} \cup Plain \cup Targets

ASSUME EditorAssumption ==
    /\ Placeholder \notin Collections
    /\ Nothing \notin Targets /\ Nothing \notin Edited
    /\ {"Empty", "Bad", "Template", "SimpleEntity", "AdvancedEntity"} \cap (Targets \cup {Nothing}) = {}

VARIABLES
    template,   (* the collection that the template of an extension names *)
    stored,     (* the definition in the latest version of each document, or Nothing *)
    drafts,     (* the documents whose latest version is a draft *)
    open,       (* the document in the form, or Nothing *)
    form,       (* the value of the field: kind, extensionCollection (ext), json *)
    selected,   (* what the select of the collection shows *)
    jsonError,  (* the text could not be parsed *)
    text,       (* what the text editor shows, when it is there *)
    last,       (* history: the collection picked or typed since the kind was chosen *)
    picks,      (* history: the collections picked since the page was loaded *)
    seen        (* history: the last text shown that can be parsed *)

editorVars == <<template, stored, drafts, open, form, selected, jsonError, text, last, picks, seen>>

Blank == [kind |-> "", ext |-> Nothing, json |-> "Empty"]

EditorInit ==
    /\ template = Placeholder
    /\ stored = [d \in Edited |-> Nothing] /\ drafts = {}
    /\ open = Nothing /\ form = Blank /\ selected = Nothing /\ jsonError = FALSE
    /\ text = "Empty" /\ last = Nothing
    /\ picks = {} /\ seen = "Empty"

\* The JSON of a form, when the template names t.
ContentOf(f, t) == IF f.json = "Template" THEN t ELSE f.json

\* The text editor is there once the kind and what goes with it are chosen.
Shown(f, s) == f.kind # "" /\ (f.kind = "ExtensionEntity" => s # Nothing)

\* The render after a handler has put in form f, selection s and template t: an
\* editor that was not there begins with the text it is given, and one that was
\* takes it over if it is another text than before.
Render(f, s, t) ==
    /\ form' = f /\ selected' = s /\ template' = t
    /\ text' = IF Shown(form, selected) /\ ContentOf(f, t) = ContentOf(form, template)
               THEN text ELSE ContentOf(f, t)

getExtensionCollection(kind, c) == IF kind = "ExtensionEntity" THEN c ELSE Nothing

-----------------------------------------------------------------------------
\* The field is mounted with the document's value, or without one.
Open(d) ==
    /\ open = Nothing
    /\ open' = d
    /\ form' = IF stored[d] = Nothing THEN Blank ELSE stored[d]
    /\ selected' = form'.ext
    /\ jsonError' = FALSE
    /\ text' = form'.json
    /\ last' = IF form'.json \in Targets THEN form'.json ELSE Nothing
    /\ UNCHANGED <<template, stored, drafts, picks>>

Leave == open # Nothing /\ open' = Nothing /\ UNCHANGED <<template, stored, drafts, form, selected, jsonError, text, last, picks>>

\* Mutant: choosing a kind also clears the error of the text.
onSelectChange_Clears(kind) ==
    /\ open # Nothing
    /\ LET c == getExtensionCollection(kind, selected) IN
       Render([kind |-> kind, ext |-> c, json |-> IF kind = "ExtensionEntity" THEN "Template" ELSE kind], c, template)
    /\ last' = Nothing /\ jsonError' = FALSE
    /\ UNCHANGED <<stored, drafts, open, picks>>

\* A kind is chosen: its template becomes the JSON, whatever that was.  An
\* error of the text stays.
onSelectChange(kind) ==
    /\ open # Nothing
    /\ LET c == getExtensionCollection(kind, selected) IN
       Render([kind |-> kind, ext |-> c, json |-> IF kind = "ExtensionEntity" THEN "Template" ELSE kind], c, template)
    /\ last' = Nothing
    /\ UNCHANGED <<stored, drafts, open, jsonError, picks>>

\* Mutant: the collection is not written into the JSON.
onExtensionSelectChange_Beside(c) ==
    /\ open # Nothing /\ form.kind = "ExtensionEntity"
    /\ Render([form EXCEPT !.ext = c], c, template)
    /\ last' = c /\ picks' = picks \cup {c}
    /\ UNCHANGED <<stored, drafts, open, jsonError>>

\* The collection to extend is chosen.  It is written into the JSON if that
\* extends anything: into the template, if that is what the form holds.
onExtensionSelectChange(c) ==
    /\ open # Nothing /\ form.kind = "ExtensionEntity"
    /\ Render([kind |-> form.kind, ext |-> c, json |-> IF form.json \in Targets THEN c ELSE form.json],
              c, IF form.json = "Template" THEN c ELSE template)
    /\ last' = c /\ picks' = picks \cup {c}
    /\ UNCHANGED <<stored, drafts, open, jsonError>>

\* The text is changed to one that can be parsed, by hand or by the text
\* editor itself: the form gets what was parsed and lets go of the template.
onEditorChange(content) ==
    /\ open # Nothing /\ Shown(form, selected)
    /\ form' = [kind |-> form.kind, ext |-> getExtensionCollection(form.kind, selected), json |-> content]
    /\ text' = content /\ jsonError' = FALSE
    /\ last' = IF content \in Targets THEN content ELSE Nothing
    /\ UNCHANGED <<template, stored, drafts, open, selected, picks>>

\* One that cannot be parsed leaves the form as it was.
onEditorChangeBad ==
    /\ open # Nothing /\ Shown(form, selected)
    /\ text' = "Bad" /\ jsonError' = TRUE
    /\ UNCHANGED <<template, stored, drafts, open, form, selected, last, picks>>

\* What the server stores of the form, which then holds it.  The server takes
\* no definition without fields that extends nothing.
SubmitForm ==
    /\ open # Nothing
    /\ ContentOf(form, template) # "Empty"
    /\ stored' = [stored EXCEPT ![open] = [form EXCEPT !.json = ContentOf(form, template)]]
    /\ Render(stored'[open], selected, template)
    /\ UNCHANGED <<open, jsonError, last, picks>>

\* The form is published, unless the text has an error.
SaveForm == ~jsonError /\ SubmitForm /\ drafts' = drafts \ {open}

\* A draft is saved without the validation of the field: a text with an error
\* stays in the editor, and what the form still holds is stored.
SaveFormAsDraft == SubmitForm /\ drafts' = drafts \cup {open}

\* The page is loaded again, and with it the module of the template.
Reload ==
    /\ template' = Placeholder /\ picks' = {}
    /\ open' = Nothing
    /\ UNCHANGED <<stored, drafts, form, selected, jsonError, text, last>>

Handled ==
    \/ \E d \in Edited : Open(d)
    \/ Leave
    \/ \E kind \in Kinds : onSelectChange(kind)
    \/ \E c \in Collections : onExtensionSelectChange(c)
    \/ \E content \in Contents : onEditorChange(content)
    \/ onEditorChangeBad
    \/ SaveForm
    \/ SaveFormAsDraft
    \/ Reload

\* The text that a step leaves on the screen.
Looked ==
    seen' = IF ~Shown(form, selected)' THEN "Empty" ELSE IF text' = "Bad" THEN seen ELSE text'

EditorNext == Handled /\ Looked

EditorSpec == EditorInit /\ [][EditorNext]_editorVars

-----------------------------------------------------------------------------
(* Properties *)

Definition == [kind : Kinds \cup {""}, ext : Collections \cup {Nothing}, json : Contents]

EditorTypeOK ==
    /\ template \in Targets
    /\ stored \in [Edited -> Definition \cup {Nothing}] /\ drafts \subseteq Edited
    /\ open \in Edited \cup {Nothing}
    /\ form \in [kind : Kinds \cup {""}, ext : Collections \cup {Nothing}, json : Contents \cup {"Template"}]
    /\ selected \in Collections \cup {Nothing}
    /\ jsonError \in BOOLEAN
    /\ text \in Contents \cup {"Bad"}
    /\ last \in Targets \cup {Nothing}
    /\ picks \subseteq Collections
    /\ seen \in Contents

\* What is stored was on the screen: it is the last text shown that could be
\* parsed, and when it is published the text still shown.  Only a draft is
\* stored behind a text with an error, and the one thing stored unseen is an
\* extension for which no collection is selected.
SavedWasShown ==
    [][\A d \in Edited : (stored'[d] # stored[d]) \/ (drafts' # drafts /\ d = open) =>
          IF Shown(form, selected)
          THEN stored'[d].json = seen /\ (d \notin drafts' => text = seen)
          ELSE form.kind = "ExtensionEntity" /\ selected = Nothing]_editorVars

\* An extension extends the collection that was picked or typed for it after
\* its kind was chosen.  When none was, it extends what the template names: a
\* collection picked for any document since the page was loaded, or the first.
UnpickedExtensionsInherit ==
    [][\A d \in Edited : stored'[d] # stored[d] /\ stored'[d].json \in Targets =>
          IF last # Nothing
          THEN stored'[d].json = last
          ELSE stored'[d].json \in picks \cup {Placeholder}]_editorVars
=============================================================================
