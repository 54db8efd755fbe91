-------------------------- MODULE MCDerivedFields --------------------------
EXTENDS DerivedFields

CONSTANTS f1, f2, f3, story, entity

\* A picture with all sizes, one too small for the first, and one without sizes.
MCSizes == [f \in Files |->
    CASE f = f1 -> [profile |-> "there", thumbnail |-> "there"]
      [] f = f2 -> [profile |-> "hollow", thumbnail |-> "there"]
      [] OTHER -> [profile |-> "absent", thumbnail |-> "absent"]]

MCKindOf == story :> "story" @@ entity :> "entity"

\* "É & e" and "e--e "; nothing, " e  E" and "&".
MCNames == {<<"A", "m", " ", "!", " ", "a">>, <<"a", "-", "-", "a", " ">>}
MCSlugTexts == {<<>>, <<" ", "a", " ", " ", "A">>, <<"!">>}

\* A list with links at two depths, one of them as the panel saves it; links without
\* words and to no document, links in uploads with and without an address, a link that
\* is no paragraph, links as the panel saves them alone, no words.
Some == Text(<<"words">>)
ToX == Link("x", TRUE, <<Some>>)
ToY == Link("y", TRUE, <<Some>>)
MCRichTexts == {<<Element(<<Element(<<ToY, Some>>), ToX, Element(<<Link("x", FALSE, <<ToY>>)>>)>>)>>,
                <<Element(<<Link("x", TRUE, <<Text(<<>>)>>), ToY>>), Element(<<Link("", TRUE, <<Some>>)>>)>>,
                <<Element(<<UploadNode(TRUE, <<ToX>>), ToY, UploadNode(FALSE, <<Link("y", TRUE, <<Some>>)>>)>>)>>,
                <<ToX, Some, Element(<<ToY>>)>>,
                <<Element(<<Link("x", FALSE, <<Some>>), Link("y", FALSE, <<Text(<<>>)>>)>>)>>,
                <<Element(<<Text(<<>>)>>)>>}

RECURSIVE Below(_)
Below(node) == {node} \cup UNION {Below(child) : child \in ToSet(node.children)}
MCNodes == UNION {Below(node) : node \in UNION {ToSet(t) : t \in MCRichTexts}}

RECURSIVE Levels(_)
Levels(node) == Max({0} \cup {Levels(child) + 1 : child \in ToSet(node.children)})
MCDepth == [node \in MCNodes |-> Levels(node)]

\* Of all short texts: a slug is its own slug, and has no two dashes in a row nor
\* anything but letters and dashes.
ASSUME SlugsAreFixed ==
    \A n \in 0 .. 5 : \A t \in [1 .. n -> {Letter, Upper, Mark, Space, Dash, Other}] :
        LET s == Slugify(t)
        IN Slugify(s) = s /\ \A i \in DOMAIN s : s[i] \in {Letter, Dash}
=============================================================================
