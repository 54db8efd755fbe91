--------------------------- MODULE Communications ---------------------------
(***************************************************************************)
(* Creating a communication sends an email to each of its recipients.      *)
(* beforeValidate of "tos" replaces the recipients by all users, read page *)
(* by page, when sendToAll is set; the document is written; afterChange    *)
(* then looks the recipients and the copies up again and mails those it    *)
(* finds, one message to each recipient with all copies on it, all at      *)
(* once.  Several requests run at the same time, and users come and go     *)
(* between any two reads.                                                  *)
(***************************************************************************)
EXTENDS Naturals, Sequences, FiniteSets, SequencesExt, Subsequences

CONSTANTS
    Comms,         (* requests that create a communication *)
    People,        (* identities of users *)
    NoTos,         (* a list of users that a request does not have *)
    CopyLists,     (* bound: the lists of users that ccs and bccs may hold *)
    PageLimit,     (* users in a page of the sendToAll reads: 100 *)
    FindLimit,     (* documents in a page of a find without a limit: 10 *)
    MaxUserChanges (* bound: users created or deleted *)

ASSUME CommunicationsAssumption ==
    /\ PageLimit \in Nat \ {0} /\ FindLimit \in Nat \ {0}
    /\ MaxUserChanges \in Nat
    /\ IsFiniteSet(People)
    /\ CopyLists \subseteq Seq(People) /\ NoTos \notin Seq(People)

VARIABLES
    users,     (* the users, newest first *)
    changes,   (* users created or deleted so far *)
    stage,     (* of each request: the await it is at, or how it was answered *)
    all,       (* its sendToAll *)
    tos,       (* its recipients *)
    copies,    (* what it has in ccs and in bccs *)
    depth0,    (* it asked for depth 0: its document names users by ids alone *)
    allDocs,   (* the users on the pages it has read *)
    unread,    (* pages it has asked for and not read yet *)
    stored,    (* its document is written *)
    found,     (* the recipients afterChange found *)
    cc,        (* the users it found of ccs *)
    mails,     (* the messages it handed to the transport *)
    pending,   (* the recipients of those not settled yet *)
    seen       (* history: the users when it read page 1, <<>> once they change *)

asked == <<all, copies, depth0>>
reads == <<allDocs, unread, seen>>
delivery == <<mails, pending>>
vars == <<users, changes, stage, asked, tos, reads, stored, found, cc, delivery>>

Answers == {"created", "invalid", "failed"}
Awaits == {"page 1", "pages", "write", "parts", "tos", "ccs", "bccs", "mails"}

Init ==
    /\ users \in SetToAllKPermutations(People)
    /\ changes = 0
    /\ stage = [c \in Comms |-> "idle"]
    /\ all \in [Comms -> BOOLEAN]
    /\ copies \in [Comms -> [{"ccs", "bccs"} -> CopyLists \cup {NoTos}]]
    /\ depth0 \in [Comms -> BOOLEAN]
    /\ tos \in [Comms -> {NoTos, <<>>} \cup {<<p>> : p \in People}]
    /\ allDocs = [c \in Comms |-> <<>>] /\ unread = [c \in Comms |-> {}]
    /\ seen = [c \in Comms |-> <<>>]
    /\ stored = [c \in Comms |-> FALSE]
    /\ found = [c \in Comms |-> <<>>]
    /\ cc = [c \in Comms |-> {}]
    /\ mails = [c \in Comms |-> <<>>]
    /\ pending = [c \in Comms |-> {}]

To(c, next) == stage' = [stage EXCEPT ![c] = next]

-----------------------------------------------------------------------------
(* beforeValidate and validate of tos *)

Receive(c) ==
    /\ stage[c] = "idle"
    /\ To(c, IF all[c] THEN "page 1" ELSE IF tos[c] = NoTos THEN "invalid" ELSE "write")
    /\ UNCHANGED <<users, changes, asked, tos, reads, stored, found, cc, delivery>>

\* Mutant: the loop ends one page earlier still.
ReadFirstPage_EndsEarly(c) ==
    /\ stage[c] = "page 1"
    /\ allDocs' = [allDocs EXCEPT ![c] = Page(users, PageLimit, 1)]
    /\ unread' = [unread EXCEPT ![c] = 1 .. PagesOf(users, PageLimit) - 2]
    /\ seen' = [seen EXCEPT ![c] = users]
    /\ To(c, "pages")
    /\ UNCHANGED <<users, changes, asked, tos, stored, found, cc, delivery>>

\* The loop that asks for the other pages runs from 1 to the last but one.
ReadFirstPage(c) ==
    /\ stage[c] = "page 1"
    /\ allDocs' = [allDocs EXCEPT ![c] = Page(users, PageLimit, 1)]
    /\ unread' = [unread EXCEPT ![c] = 1 .. PagesOf(users, PageLimit) - 1]
    /\ seen' = [seen EXCEPT ![c] = users]
    /\ To(c, "pages")
    /\ UNCHANGED <<users, changes, asked, tos, stored, found, cc, delivery>>

\* Promise.all keeps the pages in order however they are answered, and they are
\* joined when all are there; here each page is put after those that came before
\* it, as order plays no part later.
ReadPage(c, i) ==
    /\ stage[c] = "pages" /\ i \in unread[c]
    /\ allDocs' = [allDocs EXCEPT ![c] = @ \o Page(users, PageLimit, i)]
    /\ unread' = [unread EXCEPT ![c] = @ \ {i}]
    /\ UNCHANGED <<users, changes, stage, asked, tos, seen, stored, found, cc, delivery>>

CollectTos(c) ==
    /\ stage[c] = "pages" /\ unread[c] = {}
    /\ tos' = [tos EXCEPT ![c] = allDocs[c]]
    /\ To(c, "write")
    /\ UNCHANGED <<users, changes, asked, reads, stored, found, cc, delivery>>

Write(c) ==
    /\ stage[c] = "write"
    /\ stored' = [stored EXCEPT ![c] = TRUE]
    /\ To(c, "parts")
    /\ UNCHANGED <<users, changes, asked, tos, reads, found, cc, delivery>>

-----------------------------------------------------------------------------
(* afterChange *)

\* The uploads of the body have been fetched.
ReadParts(c) ==
    /\ stage[c] = "parts"
    /\ To(c, "tos")
    /\ UNCHANGED <<users, changes, asked, tos, reads, stored, found, cc, delivery>>

\* Mutant: the recipients are mailed as they are listed.
FindTos_AsListed(c) ==
    /\ stage[c] = "tos"
    /\ found' = [found EXCEPT ![c] = tos[c]]
    /\ To(c, IF tos[c] = <<>> THEN "failed" ELSE "ccs")
    /\ UNCHANGED <<users, changes, asked, tos, reads, stored, cc, delivery>>

\* One find for all recipients, with the default limit.  It throws when there
\* is no recipient, or when none is left.
FindTos(c) ==
    LET hits == Page(Among(users, ToSet(tos[c])), FindLimit, 1)
    IN  /\ stage[c] = "tos"
        /\ found' = [found EXCEPT ![c] = hits]
        /\ To(c, IF hits = <<>> THEN "failed" ELSE "ccs")
        /\ UNCHANGED <<users, changes, asked, tos, reads, stored, cc, delivery>>

\* The copies of a list that a find by their ids returns.  A copy is asked for
\* by value.id, which an id alone does not have.
CopiesFound(c, field) ==
    IF copies[c][field] = NoTos \/ depth0[c] THEN {}
    ELSE ToSet(Page(Among(users, ToSet(copies[c][field])), FindLimit, 1))

\* An empty list is truthy and has no first element: looking at it throws.
FindCcs(c) ==
    /\ stage[c] = "ccs"
    /\ cc' = [cc EXCEPT ![c] = CopiesFound(c, "ccs")]
    /\ To(c, IF copies[c]["ccs"] = <<>> THEN "failed" ELSE "bccs")
    /\ UNCHANGED <<users, changes, asked, tos, reads, stored, found, delivery>>

\* The bccs are the last thing looked up: then a message goes out to every
\* recipient found, each with all copies.
FindBccsAndMail(c) ==
    /\ stage[c] = "bccs"
    /\ IF copies[c]["bccs"] = <<>> THEN To(c, "failed") /\ UNCHANGED delivery
       ELSE /\ mails' = [mails EXCEPT ![c] =
                  [i \in 1 .. Len(found[c]) |->
                      [to |-> found[c][i], cc |-> cc[c], bcc |-> CopiesFound(c, "bccs")]]]
            /\ pending' = [pending EXCEPT ![c] = ToSet(found[c])]
            /\ To(c, "mails")
    /\ UNCHANGED <<users, changes, asked, tos, reads, stored, found, cc>>

\* Mutant: an email that fails is not caught.
MailSettles_Thrown(c, p) ==
    /\ stage[c] = "mails" /\ p \in pending[c]
    /\ pending' = [pending EXCEPT ![c] = @ \ {p}]
    /\ UNCHANGED stage \/ To(c, "failed")
    /\ UNCHANGED <<users, changes, asked, tos, reads, stored, found, cc, mails>>

\* Sent, or failed: an error is logged and no more.
MailSettles(c, p) ==
    /\ stage[c] = "mails" /\ p \in pending[c]
    /\ pending' = [pending EXCEPT ![c] = @ \ {p}]
    /\ UNCHANGED <<users, changes, stage, asked, tos, reads, stored, found, cc, mails>>

\* Mutant: an email per listed recipient is waited for.
Answer_AllListed(c) ==
    /\ stage[c] = "mails" /\ pending[c] = {} /\ Len(found[c]) = Len(tos[c])
    /\ To(c, "created")
    /\ UNCHANGED <<users, changes, asked, tos, reads, stored, found, cc, delivery>>

Answer(c) ==
    /\ stage[c] = "mails" /\ pending[c] = {}
    /\ To(c, "created")
    /\ UNCHANGED <<users, changes, asked, tos, reads, stored, found, cc, delivery>>

\* A find, the write or the lookup of an upload rejects.
Reject(c) ==
    /\ stage[c] \in Awaits \ {"mails"}
    /\ To(c, "failed")
    /\ UNCHANGED <<users, changes, asked, tos, reads, stored, found, cc, delivery>>

-----------------------------------------------------------------------------
UsersChange == seen' = [c \in Comms |-> IF stage[c] \in Answers THEN seen[c] ELSE <<>>]

CreateUser(p) ==
    /\ changes < MaxUserChanges /\ ~Contains(users, p)
    /\ users' = <<p>> \o users
    /\ changes' = changes + 1
    /\ UsersChange
    /\ UNCHANGED <<stage, asked, tos, allDocs, unread, stored, found, cc, delivery>>

DeleteUser(p) ==
    /\ changes < MaxUserChanges /\ Contains(users, p)
    /\ users' = Among(users, People \ {p})
    /\ changes' = changes + 1
    /\ UsersChange
    /\ UNCHANGED <<stage, asked, tos, allDocs, unread, stored, found, cc, delivery>>

RequestStep(c) ==
    \/ ReadFirstPage(c) \/ CollectTos(c) \/ Write(c) \/ Reject(c)
    \/ \E i \in unread[c] : ReadPage(c, i)
    \/ ReadParts(c) \/ FindTos(c) \/ FindCcs(c) \/ FindBccsAndMail(c) \/ Answer(c)
    \/ \E p \in pending[c] : MailSettles(c, p)

Next ==
    \/ \E c \in Comms : Receive(c) \/ RequestStep(c)
    \/ \E p \in People : CreateUser(p) \/ DeleteUser(p)

\* The server keeps running, and finds and emails settle.
Fairness == \A c \in Comms : WF_vars(RequestStep(c))

Spec == Init /\ [][Next]_vars /\ Fairness

-----------------------------------------------------------------------------
(* Properties *)

Lists == Seq(People)
Messages == [to : People, cc : SUBSET People, bcc : SUBSET People]
TypeOK ==
    /\ users \in Lists /\ IsInjective(users) /\ changes \in 0 .. MaxUserChanges
    /\ stage \in [Comms -> {"idle"} \cup Awaits \cup Answers]
    /\ all \in [Comms -> BOOLEAN] /\ depth0 \in [Comms -> BOOLEAN]
    /\ copies \in [Comms -> [{"ccs", "bccs"} -> Lists \cup {NoTos}]]
    /\ tos \in [Comms -> Lists \cup {NoTos}]
    /\ allDocs \in [Comms -> Lists] /\ seen \in [Comms -> Lists]
    /\ unread \in [Comms -> SUBSET (Nat \ {0})]
    /\ stored \in [Comms -> BOOLEAN] /\ found \in [Comms -> Lists] /\ cc \in [Comms -> SUBSET People]
    /\ mails \in [Comms -> Seq(Messages)] /\ pending \in [Comms -> SUBSET People]

\* The users that a list of a request names.
Named(list) == IF list = NoTos THEN {} ELSE ToSet(list)

\* A communication is one message to each recipient, although sendToAll lists
\* the users of the first page twice and users move between its pages; and it
\* goes to nobody who is not named in tos, ccs or bccs.  A copy is on all the
\* messages: who is one gets a mail for each recipient.
OneMessagePerRecipient ==
    \A c \in Comms : \A i \in DOMAIN mails[c] :
        /\ \A j \in DOMAIN mails[c] : mails[c][i].to = mails[c][j].to => i = j
        /\ mails[c][i].to \in ToSet(tos[c])
        /\ mails[c][i].cc \subseteq Named(copies[c]["ccs"])
        /\ mails[c][i].bcc \subseteq Named(copies[c]["bccs"])

\* A request that failed mailed nobody, so that it may be sent again; but its
\* document may be there already.
FailureMailsNobody ==
    \A c \in Comms : stage[c] \in {"failed", "invalid"} => mails[c] = <<>>

\* How many users the pages before the last one hold; or the only page.
Listed(list) ==
    LET pages == PagesOf(list, PageLimit)
    IN  IF pages = 1 THEN Len(list) ELSE (pages - 1) * PageLimit

\* To whom the messages of a request are addressed.
Addressed(c) == {mails[c][i].to : i \in DOMAIN mails[c]}

\* With sendToAll and users that stay, the messages go to the newest users:
\* those before the last page, and no more than one find returns.
SendToAllReach ==
    \A c \in Comms : all[c] /\ stage[c] = "created" /\ seen[c] # <<>> =>
        Addressed(c) = ToSet(SubSeq(seen[c], 1, Min({Listed(seen[c]), FindLimit})))

\* What the label of the field says: "Send to all users?"
SendToAllReachesAll ==
    \A c \in Comms : all[c] /\ stage[c] = "created" /\ seen[c] # <<>> =>
        Addressed(c) = ToSet(seen[c])

\* Every request is answered.
RequestsAreAnswered == \A c \in Comms : stage[c] # "idle" ~> stage[c] \in Answers

=============================================================================
