--------------------------- MODULE MCOEmbedPreview ---------------------------
EXTENDS OEmbedPreview

CONSTANTS b1, b2, video, tweet, flickr, embed

\* A video comes without a script, a tweet with the one that is there already.
Scripts ==
    [u \in Addresses |-> CASE u = video -> Nothing
                          [] u = tweet -> Widgets
                          [] u = flickr -> "photos.js"
                          [] u = embed -> "embeds.js"]
=============================================================================
