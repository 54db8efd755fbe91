--------------------------- MODULE DerivedFields ---------------------------
(***************************************************************************)
(* Values that hooks compute from other fields when a document is saved:   *)
(* the address of a user's photo (Photos) and the slug of a media document *)
(* (MediaSlugs), and, here, the HTML copy of a rich text and the list of   *)
(* its links (ContentBlockHooks.ts, RichTextHooks.ts, and the hook that    *)
(* ConfigUtils.TransformToField gives to a custom entity).                 *)
(***************************************************************************)
EXTENDS MediaSlugs, TextUtils

CONSTANTS
    Docs,       (* documents with a rich text *)
    KindOf,     (* what they are: a story, a form, or a custom entity *)
    RichTexts,  (* sequences of nodes *)
    MaxSaves    (* bound: saves of all documents *)

ASSUME DerivedAssumption ==
    /\ KindOf \in [Docs -> {"story", "form", "entity"}]
    /\ RichTexts \subseteq Seq(Nodes) /\ None \notin RichTexts
    /\ MaxSaves \in Nat

VARIABLES
    rich,    (* of each document: its text, or None, and the copy: html, links *)
    saves    (* how many saves there were *)

derivedVars == <<slugVars, rich, saves>>

DerivedInit ==
    /\ SlugsInit
    /\ rich = [d \in Docs |-> [text |-> None, html |-> <<>>, links |-> <<>>]]
    /\ saves = 0

OneMore == saves < MaxSaves /\ saves' = saves + 1

\* A save that Payload keeps the documents of takes one of the bounded saves, when
\* it begins.
SaveDocuments ==
    \/ OneMore /\ MediaSave /\ UNCHANGED rich
    \/ \E m \in Media : DeleteMedia(m) /\ UNCHANGED <<rich, saves>>
    \/ \E r \in Requests :
         /\ IF request[r] = None THEN OneMore ELSE UNCHANGED saves
         /\ SaveUser(r)
         /\ UNCHANGED rich

-----------------------------------------------------------------------------
\* A column of a story is copied as a whole; a form and a custom entity keep a
\* copy of the children of each node.
Copied(d, t) ==
    IF KindOf[d] = "story" THEN t
    ELSE FlattenSeq([i \in DOMAIN t |-> t[i].children])

\* A text that is taken away leaves the copy of a story and of a form as it is; the
\* hook of a custom entity throws then, and the save is refused.
SaveText(d, t) ==
    /\ OneMore
    /\ KindOf[d] = "entity" => t # None
    /\ rich' = [rich EXCEPT ![d] =
         IF t = None THEN [@ EXCEPT !.text = None]
         ELSE [text |-> t, html |-> Serialize(Copied(d, t)), links |-> GetInternalLinks(Copied(d, t))]]
    /\ UNCHANGED slugVars

DerivedNext ==
    \/ SaveDocuments
    \/ \E d \in Docs, t \in RichTexts \cup {None} : SaveText(d, t)

DerivedSpec == DerivedInit /\ [][DerivedNext]_derivedVars

-----------------------------------------------------------------------------
\* A node and all those below it.
NodesOf[node \in Nodes] == {node} \cup UNION {NodesOf[child] : child \in ToSet(node.children)}

\* The HTML of a text leaves nothing out and names all that it links to.
Plain(t) == \A node \in UNION {NodesOf[n] : n \in ToSet(t)} :
    /\ node.type # "upload"
    /\ node.type = "link" => node.populated /\ Serialize(node.children) # <<>>

Times(x, s) == Cardinality({i \in DOMAIN s : s[i] = x})

\* Every document that the stored HTML links to is in the stored list of links, as
\* often as there; and the list has no other unless the text has links without words
\* or uploads, which the HTML leaves out, or links whose value is not populated, which
\* it calls undefined (TextUtils.ts, Serialize and GetInternalLinks, which walk the
\* tree in two orders and read a link's document in two places).
LinksAreListed ==
    \A d \in Docs :
        LET r == rich[d]
        IN \A doc \in Linked :
             /\ Times(doc, r.html) <= Times(doc, r.links)
             /\ (r.text # None /\ Plain(r.text)) => Times(doc, r.html) = Times(doc, r.links)
=============================================================================
