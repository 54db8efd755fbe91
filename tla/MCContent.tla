------------------------------ MODULE MCContent ------------------------------
(* What hooks store with content (DerivedFields), and what the form of a   *)
(* document shows of its oEmbed blocks (OEmbedPreview).  The two share no  *)
(* state, and to interleave them would show nothing: a behaviour is one of *)
(* the server or one of a page of the panel.                               *)
EXTENDS MCDerivedFields, MCOEmbedPreview

VARIABLE side

ContentInit == DerivedInit /\ PreviewInit /\ side \in {"server", "page"}

ContentNext ==
    /\ \/ side = "server" /\ DerivedNext /\ UNCHANGED previewVars
       \/ side = "page" /\ PreviewNext /\ UNCHANGED derivedVars
    /\ UNCHANGED side

ContentSpec == ContentInit /\ [][ContentNext]_<<derivedVars, previewVars, side>>

\* Media documents, the saves of a user and the blocks of a document are alike.
Symmetry == Permutations(Media) \cup Permutations(Requests) \cup Permutations(Blocks)
=============================================================================
