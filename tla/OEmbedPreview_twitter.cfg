SPECIFICATION PreviewSpec
CONSTANTS
    b1 = b1
    b2 = b2
    video = video
    tweet = tweet
    flickr = flickr
    embed = embed
    Blocks = {b1}
    Addresses = {video, tweet}
    ScriptOf <- Scripts
    Widgets = "widgets.js"
    Nothing = Nothing
    MaxFetches = 1
INVARIANT AnswersAreShown
CHECK_DEADLOCK FALSE
