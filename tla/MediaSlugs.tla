---------------------------- MODULE MediaSlugs ----------------------------
(***************************************************************************)
(* The slug of a media document (SlugField.ts), by which an endpoint finds *)
(* it (bySlugEndpoints.ts).  A hook computes it when the document is saved *)
(* and again whenever it is read.  Media documents are saved with their    *)
(* file (the module Photos), their text and their slug at once.            *)
(*                                                                         *)
(* As in Photos, the fields that a save does not name may or may not have  *)
(* been filled in from the stored document when a hook runs.               *)
(***************************************************************************)
EXTENDS Photos, SlugUtils

CONSTANTS
    Names,      (* texts that can be the alt text of a media document *)
    SlugTexts   (* texts that can be put into the field of its slug *)

ASSUME SlugsAssumption ==
    Names \subseteq Seq(Characters) /\ SlugTexts \subseteq Seq(Characters)

VARIABLES
    meta,    (* alt and slug of each media document *)
    bare     (* history: media documents whose last save gave the hook no letter *)

slugVars == <<photoVars, meta, bare>>

SlugsInit ==
    /\ PhotosInit
    /\ meta = [m \in Media |-> [alt |-> <<>>, slug |-> <<>>]]
    /\ bare = {}

\* Mutant: dashes are joined too early.
slugifyHook_JoinsFirst(slug, name) == Slugify_JoinsFirst(IF slug # <<>> THEN slug ELSE name)

\* What the hook makes of the slug and the name it is given; it runs before the
\* validation and after every read.
slugifyHook(slug, name) == Slugify(IF slug # <<>> THEN slug ELSE name)

\* The slug a reader of m gets.
Shown(m) == slugifyHook(meta[m].slug, meta[m].alt)

\* The documents the endpoint may answer with, which takes the first of them.
bySlug(slug) == {m \in Media : file[m] # None /\ meta[m].slug = slug}

HasLetters(t) == \E i \in DOMAIN t : t[i] \in {Letter, Upper}

\* What the hook is given of a field: what the save brings or, of a field that it
\* does not name, what is stored, or nothing.
Given(new, old) == IF new = Kept THEN {<<>>, old} ELSE {new}

\* A save of m that brings a file f, an alt text and a slug, or does not name them.
SaveMedia(m, f, alt, slug) ==
    /\ file[m] = None => f # Kept /\ alt # Kept
    /\ IF f = Kept THEN UNCHANGED photoVars ELSE Upload(m, f)
    /\ \E name \in Given(alt, meta[m].alt), value \in Given(slug, meta[m].slug) :
         /\ meta' = [meta EXCEPT ![m] = [alt |-> IF alt = Kept THEN @.alt ELSE alt,
                                         slug |-> slugifyHook(value, name)]]
         /\ bare' = IF HasLetters(IF value # <<>> THEN value ELSE name)
                    THEN bare \ {m} ELSE bare \cup {m}

DeleteMedia(m) == RemoveMedia(m) /\ UNCHANGED <<meta, bare>>

SaveUser(r) == SaveStep(r) /\ UNCHANGED <<meta, bare>>

MediaSave ==
    \E m \in Media, f \in Files \cup {Kept}, alt \in Names \cup {Kept}, slug \in SlugTexts \cup {Kept} :
        SaveMedia(m, f, alt, slug)

SlugsNext ==
    \/ MediaSave
    \/ \E m \in Media : DeleteMedia(m)
    \/ \E r \in Requests : SaveUser(r)

SlugsSpec == SlugsInit /\ [][SlugsNext]_slugVars

-----------------------------------------------------------------------------
SlugsTypeOK ==
    /\ meta \in [Media -> [alt : Seq(Characters), slug : Seq(Characters)]]
    /\ bare \in SUBSET Media

\* The slug that readers are shown finds the document it was shown with, or one
\* that is shown with the same slug: what the hook makes of a stored slug is that
\* slug.  Two saves break it: one that names neither the slug nor the text empties
\* the stored slug, and so does a slug without a letter; what is shown is then made
\* of the text (SlugField.ts, the hook; bySlugEndpoints.ts, the lookup).
ShownSlugFinds ==
    \A m \in Media : file[m] # None /\ m \notin bare =>
        LET slug == Shown(m)
        IN slug # <<>> => m \in bySlug(slug) /\ \A n \in bySlug(slug) : Shown(n) = slug
=============================================================================
