----------------------------- MODULE TextUtils -----------------------------
(***************************************************************************)
(* The functions that compute from a rich text its HTML and the list of    *)
(* the documents it links to (TextUtils.ts).                               *)
(*                                                                         *)
(* A rich text is a sequence of Slate nodes.  Of the HTML only what is     *)
(* shown is kept, in its order: words, links to documents and addresses;   *)
(* tags and escapes are left out.                                          *)
(*                                                                         *)
(* Both functions call themselves on the children of a node, and a text,   *)
(* which is JSON, nests only so deep.                                      *)
(***************************************************************************)
EXTENDS Sequences, SequencesExt, Naturals

CONSTANTS
    Nodes,     (* the nodes of rich texts *)
    Depth,     (* of each node, how many levels of nodes are below it at most *)
    Words,     (* what is written in texts *)
    Linked     (* documents that rich texts link to *)

\* Nodes: a text of words, an element with children, a link to a document doc, or
\* to one that is not named (""), with children, and an upload, whose value has an
\* address (TRUE) or not, with children.  The value of a link is the document only
\* if somebody populated it; the panel saves its id alone.
Text(words) == [type |-> "text", words |-> words, children |-> <<>>]
Element(children) == [type |-> "element", children |-> children]
Link(doc, populated, children) ==
    [type |-> "link", doc |-> doc, populated |-> populated, children |-> children]
UploadNode(url, children) == [type |-> "upload", url |-> url, children |-> children]

Undefined == "undefined"
Address == "url"

IsNode(node) ==
    /\ node.children \in Seq(Nodes)
    /\ \/ node.type = "text" /\ node.words \in Seq(Words) /\ node = Text(node.words)
       \/ node.type = "element" /\ node = Element(node.children)
       \/ /\ node.type = "link" /\ node.doc \in Linked \cup {""} /\ node.populated \in BOOLEAN
          /\ node = Link(node.doc, node.populated, node.children)
       \/ node.type = "upload" /\ node.url \in BOOLEAN /\ node = UploadNode(node.url, node.children)

ASSUME TextAssumption ==
    /\ \A node \in Nodes : IsNode(node)
    /\ Depth \in [Nodes -> Nat]
    /\ \A node \in Nodes : \A child \in ToSet(node.children) : Depth[child] < Depth[node]
    /\ Linked \cap (Words \cup {Undefined, Address, ""}) = {}

\* What a walk has made of each node of a list, one after the other.
Joined(made, nodes) == FlattenSeq([i \in DOMAIN nodes |-> made[nodes[i]]])

-----------------------------------------------------------------------------
\* The HTML names the document a link has as its value, the list of links whatever
\* the link is to.
Target(node) == IF node.doc = "" \/ ~node.populated THEN Undefined ELSE node.doc

\* What is made of a node when this was made of its children.
Html(node, childrenText) ==
    IF node.type = "text" THEN node.words
    ELSE IF node.type = "upload" /\ node.url THEN <<Address>>
    ELSE IF childrenText = <<>> THEN <<>>
    ELSE CASE node.type = "link" -> <<Target(node)>> \o childrenText
           [] node.type = "upload" -> <<Undefined>>
           [] OTHER -> childrenText

HtmlOf[node \in Nodes] == Html(node, Joined(HtmlOf, node.children))
Serialize(children) == Joined(HtmlOf, children)

-----------------------------------------------------------------------------
\* Mutant: the links below a link, or any other element, are not looked for.
Links_Flat(node, childrenLinks) ==
    IF node.type = "link" /\ node.doc # "" THEN <<node.doc>> ELSE <<>>

\* Those below a node come before the node's own.
Links(node, childrenLinks) ==
    childrenLinks \o IF node.type = "link" /\ node.doc # "" THEN <<node.doc>> ELSE <<>>

LinksOf[node \in Nodes] == Links(node, Joined(LinksOf, node.children))
GetInternalLinks(children) == Joined(LinksOf, children)
=============================================================================
