SPECIFICATION ContentSpec
CONSTANTS
    f1 = f1
    f2 = f2
    f3 = f3
    Users = {u1}
    Media = {m1, m2}
    Files = {f1, f2, f3}
    Sizes <- MCSizes
    Requests = {r1, r2}
    Kept = Kept
    None = None
    Names <- MCNames
    SlugTexts <- MCSlugTexts
    Docs = {story, entity}
    story = story
    entity = entity
    KindOf <- MCKindOf
    Nodes <- MCNodes
    Depth <- MCDepth
    Words = {"words"}
    Linked = {"x", "y"}
    RichTexts <- MCRichTexts
    MaxSaves = 4
    b1 = b1
    b2 = b2
    video = video
    tweet = tweet
    flickr = flickr
    embed = embed
    Blocks = {b1, b2}
    Addresses = {video, tweet, flickr, embed}
    ScriptOf <- Scripts
    Widgets = "widgets.js"
    Nothing = Nothing
    MaxFetches = 4
INVARIANTS ShownSlugFinds PhotoUrlIsExplained LinksAreListed PreviewFollowsAddress ScriptsLoadOnce
SYMMETRY Symmetry
CHECK_DEADLOCK FALSE
