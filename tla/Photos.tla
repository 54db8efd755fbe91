------------------------------- MODULE Photos -------------------------------
(***************************************************************************)
(* The photo of a user and the copy of its address (Users.ts): the field   *)
(* photo relates to a media document, and whenever the user is saved a     *)
(* hook looks that document up and stores the address of its picture in    *)
(* photo_url, which goes into the session and is what the panel shows.     *)
(* Nothing looks at the users when a media document gets another file or   *)
(* is deleted, and the hook has an await between the user it was given and *)
(* the write.                                                              *)
(*                                                                         *)
(* Payload, which keeps the documents, is external.  A save either brings  *)
(* a photo, or NULL, or does not name the field; what a save does not name *)
(* Payload may fill in from the document as it was read when the save      *)
(* began, before the hooks run, or leave alone: both are followed.         *)
(***************************************************************************)

CONSTANTS
    Users,      (* documents of users *)
    Media,      (* identities of media documents *)
    Files,      (* pictures that can be uploaded *)
    Sizes,      (* of each file, what became of the sizes "profile" and "thumbnail" *)
    Requests,   (* saves of users that can be under way at once *)
    Kept,       (* in a save: the field is not named *)
    None        (* no photo, no address, no file *)

\* An address is the file's, or that of one of its sizes.
Urls == Files \X {"profile", "thumbnail", "original"}

\* A size is there, is left without an address, because the picture is smaller
\* ("hollow"), or is not in the document at all ("absent").
ASSUME PhotosAssumption ==
    /\ Sizes \in [Files -> [{"profile", "thumbnail"} -> {"there", "hollow", "absent"}]]
    /\ {Kept, None} \cap (Media \cup Files \cup Urls) = {}
    /\ Kept # None

VARIABLES
    file,      (* the file of each media document, or None where there is no document *)
    user,      (* the stored user: photo, url *)
    request,   (* saves of users under way *)
    owner,     (* history: the media document each file was uploaded to, or None *)
    chosen,    (* history: the photos that saves of each user brought *)
    blank      (* history: those of them whose lookup gave no address *)

photoVars == <<file, user, request, owner, chosen, blank>>

Pending == [at : {"hook", "write"}, user : Users, photo : Media \cup {None, Kept},
            url : Urls \cup {None, Kept}, sees : Media \cup {None}]

\* The address a lookup of a media document yields.
UrlOf(f) ==
    LET url(size) == IF Sizes[f][size] = "there" THEN <<f, size>> ELSE None
    IN IF Sizes[f]["profile"] # "absent" THEN url("profile")
       ELSE IF Sizes[f]["thumbnail"] # "absent" THEN url("thumbnail")
       ELSE <<f, "original">>

PhotosInit ==
    /\ file = [m \in Media |-> None]
    /\ user = [u \in Users |-> [photo |-> None, url |-> None]]
    /\ request = [r \in Requests |-> None]
    /\ owner = [f \in Files |-> None]
    /\ chosen = [u \in Users |-> {}]
    /\ blank = [u \in Users |-> {}]

\* A media document is created, or its file is replaced.
Upload(m, f) ==
    /\ owner[f] = None
    /\ file[m] = None => \A g \in Files : owner[g] # m
    /\ file' = [file EXCEPT ![m] = f]
    /\ owner' = [owner EXCEPT ![f] = m]
    /\ UNCHANGED <<user, request, chosen, blank>>

RemoveMedia(m) ==
    /\ file[m] # None
    /\ file' = [file EXCEPT ![m] = None]
    /\ UNCHANGED <<user, request, owner, chosen, blank>>

-----------------------------------------------------------------------------
\* Mutant: the hook looks up the photo the user had.
Sees_Former(u, photo) == user[u].photo

\* The photo in the data of the save.
Sees(u, photo) == IF photo = Kept THEN None ELSE photo

\* A save of u that brings the photo p, or does not name it.
BeginSave(r, u, p) ==
    /\ request[r] = None
    /\ \E merged \in BOOLEAN :
         LET photo == IF merged /\ p = Kept THEN user[u].photo ELSE p
         IN request' = [request EXCEPT ![r] =
              [at |-> "hook", user |-> u, photo |-> photo,
               url |-> IF merged THEN user[u].url ELSE Kept,
               sees |-> Sees(u, photo)]]
    /\ chosen' = [chosen EXCEPT ![u] = IF p \in Media THEN @ \cup {p} ELSE @]
    /\ UNCHANGED <<file, user, owner, blank>>

\* The hook goes on to the write with the address it found; without one the field
\* stays as it is.
Goes(r, url) ==
    request' = [request EXCEPT ![r].at = "write", ![r].url = IF url = None THEN @ ELSE url]

\* The hook has nothing to look up.
SkipLookup(r) ==
    /\ request[r] # None /\ request[r].at = "hook" /\ request[r].sees = None
    /\ Goes(r, None)
    /\ UNCHANGED <<file, user, owner, chosen, blank>>

\* It looks up the document as it is now.
Lookup(r) ==
    /\ request[r] # None /\ request[r].at = "hook" /\ request[r].sees # None
    /\ LET m == request[r].sees
           url == IF file[m] = None THEN None ELSE UrlOf(file[m])
       IN /\ Goes(r, url)
          /\ blank' = [blank EXCEPT ![request[r].user] = IF url = None THEN @ \cup {m} ELSE @]
    /\ UNCHANGED <<file, user, owner, chosen>>

\* Payload throws for a document it does not find, or the database fails: the
\* save is refused.
LookupFails(r) ==
    /\ request[r] # None /\ request[r].at = "hook" /\ request[r].sees # None
    /\ request' = [request EXCEPT ![r] = None]
    /\ UNCHANGED <<file, user, owner, chosen, blank>>

WriteUser(r) ==
    /\ request[r] # None /\ request[r].at = "write"
    /\ LET q == request[r]
           Left(new, old) == IF new = Kept THEN old ELSE new
       IN user' = [user EXCEPT ![q.user] = [photo |-> Left(q.photo, @.photo), url |-> Left(q.url, @.url)]]
    /\ request' = [request EXCEPT ![r] = None]
    /\ UNCHANGED <<file, owner, chosen, blank>>

SaveStep(r) ==
    \/ SkipLookup(r) \/ Lookup(r) \/ LookupFails(r) \/ WriteUser(r)
    \/ \E u \in Users, p \in Media \cup {None, Kept} : BeginSave(r, u, p)
MediaStep(m) == RemoveMedia(m) \/ \E f \in Files : Upload(m, f)
PhotosNext == (\E r \in Requests : SaveStep(r)) \/ (\E m \in Media : MediaStep(m))

PhotosSpec == PhotosInit /\ [][PhotosNext]_photoVars

-----------------------------------------------------------------------------
PhotosTypeOK ==
    /\ file \in [Media -> Files \cup {None}]
    /\ user \in [Users -> [photo : Media \cup {None}, url : Urls \cup {None}]]
    /\ request \in [Requests -> Pending \cup {None}]
    /\ owner \in [Files -> Media \cup {None}]
    /\ chosen \in [Users -> SUBSET Media]
    /\ blank \in [Users -> SUBSET Media]

\* For a user u, photo p and address url belong together.
Fit(u, p, url) ==
    url # None =>
      LET m == owner[url[1]]
      IN m \in chosen[u] /\ p \in {None, m} \cup blank[u]

\* The address that a user is shown with is one of the photo the user has, though
\* perhaps of a file that was replaced since; unless the photo was taken away, or
\* the hook found no address for it, which both leave the former address where it
\* is.  This holds though saves of one user run at once, each from the document as
\* it was when it began (Users.ts, the hook of photo_url).
PhotoUrlIsExplained == \A u \in Users : Fit(u, user[u].photo, user[u].url)
=============================================================================
