------------------------- MODULE Collections_proofs -------------------------
(***************************************************************************)
(* Proofs about the collections whose hooks do more than one step:         *)
(* Communications, for any requests, people, limits and users that come    *)
(* and go; Photos, for any users, media documents, files and saves under   *)
(* way; MediaSlugs, for any titles; and DerivedFields, for rich texts that *)
(* nest any number of levels deep.                                         *)
(*                                                                         *)
(* The invariant of Communications follows a request from stage to stage:  *)
(* what it has read, while the users it saw are still the users; then whom *)
(* it lists, whom it finds, and whom it has mailed. That of Photos follows *)
(* a save: the photo and the address it is about to write already belong   *)
(* together, or it leaves alone what it does not write; it names only      *)
(* facts that last, for a file keeps its owner and the histories grow.     *)
(* That of MediaSlugs says what the hook leaves in the documents, and      *)
(* rests on a fact about texts: a slug is made of itself. That of          *)
(* DerivedFields says that the HTML and the links of a rich text were      *)
(* walked from the same tree: as each walk is a function that is defined   *)
(* by itself, a lemma first shows, level by level, that there is such a    *)
(* function.                                                               *)
(***************************************************************************)
EXTENDS Communications, DerivedFields, Subsequences_proofs, SequenceTheorems, TLAPS

-----------------------------------------------------------------------------
(* Pages *)

\* The first k pages of a list that is longer show its first k * PageLimit elements.
LEMMA PagesCover ==
    ASSUME NEW S, NEW list \in Seq(S), NEW k \in Nat, k * PageLimit <= Len(list)
    PROVE  UNION {OnPage(list, PageLimit, i) : i \in 1 .. k} = 1 .. k * PageLimit
<1> DEFINE L == PageLimit
<1>1. L \in Nat \ {0} /\ Len(list) \in Nat /\ k * L \in Nat  BY CommunicationsAssumption
<1>2. ASSUME NEW i \in 1 .. k, NEW j \in OnPage(list, L, i) PROVE j \in 1 .. k * L
  <2>1. i * L <= k * L /\ (i - 1) * L >= 0 /\ i * L \in Int /\ (i - 1) * L \in Int  BY <1>1
  <2>2. j \in Int /\ (i - 1) * L < j /\ j <= i * L  BY DEF OnPage
  <2> QED  BY <2>1, <2>2, <1>1
<1>3. ASSUME NEW j \in 1 .. k * L PROVE \E i \in 1 .. k : j \in OnPage(list, L, i)
  <2> DEFINE q == (j - 1) \div L
  <2>0. j - 1 \in Nat  BY <1>1
  <2>1. q \in Int /\ q * L <= j - 1 /\ j - 1 < (q + 1) * L  BY <1>1, <2>0
  <2> HIDE DEF q
  <2>2. q >= 0
    <3> DEFINE u == (q + 1) * L
    <3>1. u \in Int /\ j - 1 < u  BY <1>1, <2>1
    <3>2. q < 0 => u <= 0  BY <1>1, <2>1
    <3> HIDE DEF u
    <3> QED  BY <3>1, <3>2, <2>0, <2>1
  <2>3. q < k
    <3>1. q >= k => q * L >= k * L  BY <1>1, <2>1
    <3> QED  BY <3>1, <2>1, <1>1
  <2>4. q + 1 \in 1 .. k /\ (q + 1) - 1 = q  BY <2>1, <2>2, <2>3
  <2>5. j \in OnPage(list, L, q + 1)  BY <1>1, <2>1, <2>4 DEF OnPage
  <2> QED  BY <2>4, <2>5
<1> QED  BY <1>2, <1>3

\* All that the first page and those before the last show: the positions up to
\* Listed(list).
LEMMA ListedIsShown ==
    ASSUME NEW S, NEW list \in Seq(S), list # <<>>
    PROVE  /\ Listed(list) \in 1 .. Len(list)
           /\ UNION {OnPage(list, PageLimit, i) : i \in {1} \cup 1 .. PagesOf(list, PageLimit) - 1} = 1 .. Listed(list)
<1> DEFINE L == PageLimit
           q == PagesOf(list, PageLimit)
<1>1. L \in Nat \ {0} /\ Len(list) \in Nat \ {0}  BY CommunicationsAssumption
<1>2. q \in Nat \ {0} /\ (q - 1) * L < Len(list) /\ Len(list) <= q * L  BY <1>1, PagesFit
<1> HIDE DEF q
<1>3. CASE q = 1
  <2>0. 0 * L = 0 /\ 1 * L = L /\ Len(list) <= L  BY <1>1, <1>2, <1>3
  <2>1. OnPage(list, L, 1) = 1 .. Len(list)  BY <1>1, <2>0 DEF OnPage
  <2>2. Listed(list) = Len(list)  BY <1>3 DEF Listed, q
  <2>3. {1} \cup 1 .. q - 1 = {1}  BY <1>3
  <2> QED  BY <1>1, <2>1, <2>2, <2>3 DEF q
<1>4. CASE q # 1
  <2>1. q - 1 \in Nat \ {0} /\ {1} \cup 1 .. q - 1 = 1 .. q - 1  BY <1>2, <1>4
  <2>2. Listed(list) = (q - 1) * L  BY <1>4 DEF Listed, q
  <2>3. (q - 1) * L >= L /\ (q - 1) * L \in Nat  BY <2>1, <1>1
  <2>4. UNION {OnPage(list, L, i) : i \in 1 .. q - 1} = 1 .. (q - 1) * L
    <3> DEFINE k == q - 1
    <3>1. k \in Nat /\ k * L <= Len(list)  BY <1>1, <1>2, <2>1, <2>3
    <3> HIDE DEF k
    <3>2. UNION {OnPage(list, L, i) : i \in 1 .. k} = 1 .. k * L  BY <3>1, PagesCover
    <3> QED  BY <3>2 DEF k
  <2> QED  BY <1>1, <1>2, <2>1, <2>2, <2>3, <2>4 DEF q
<1> QED  BY <1>3, <1>4

-----------------------------------------------------------------------------
(* Lists of users *)

\* A page of a list of users is one.
LEMMA PageType ==
    ASSUME NEW list \in Lists, NEW limit \in Nat \ {0}, NEW i \in Nat \ {0}
    PROVE  /\ Page(list, limit, i) \in Lists
           /\ ToSet(Page(list, limit, i)) = At(list, OnPage(list, limit, i))
<1>1. list \in Seq(People)  BY DEF Lists
<1>2. Page(list, limit, i) \in Seq(People)  BY <1>1, PageShows
<1>3. ToSet(Page(list, limit, i)) = At(list, OnPage(list, limit, i))  BY <1>1, PageShows
<1> QED  BY <1>2, <1>3 DEF Lists

LEMMA ListsType ==
    ASSUME NEW s \in Lists, NEW t \in Lists
    PROVE  s \o t \in Lists /\ ToSet(s) \subseteq People /\ PagesOf(s, PageLimit) \in Int
<1>1. s \o t \in Lists /\ ToSet(s) \subseteq People  BY ConcatProperties DEF Lists, ToSet
<1>2. Len(s) + PageLimit - 1 \in Int /\ PageLimit \in Nat \ {0}
      BY CommunicationsAssumption DEF Lists
<1> QED  BY <1>1, <1>2 DEF PagesOf

\* A filter leaves a list of users, each of them once.
LEMMA AmongUsers ==
    ASSUME NEW s \in Lists, NEW S
    PROVE  Among(s, S) \in Lists /\ (IsInjective(s) => IsInjective(Among(s, S)))
<1>1. Among(s, S) \in Seq(People \cap S)  BY AmongElements DEF Lists
<1>2. Among(s, S) \in Lists  BY <1>1 DEF Lists
<1> QED  BY <1>2, AmongElements DEF Lists

\* What one find returns of those asked for.
LEMMA OneFindReturns ==
    ASSUME NEW s \in Lists, NEW S
    PROVE  ToSet(Page(Among(s, S), FindLimit, 1)) \subseteq ToSet(s) \cap S
<1> DEFINE kept == Among(s, S)
<1>1. FindLimit \in Nat \ {0} /\ s \in Seq(People)  BY CommunicationsAssumption DEF Lists
<1>2. ToSet(kept) = ToSet(s) \cap S  BY <1>1, AmongElements
<1>3. kept \in Lists  BY AmongUsers
<1> HIDE DEF kept
<1>4. ToSet(Page(kept, FindLimit, 1)) = At(kept, OnPage(kept, FindLimit, 1))  BY <1>1, <1>3, PageType
<1>5. At(kept, OnPage(kept, FindLimit, 1)) \subseteq ToSet(kept)  BY DEF At, OnPage, ToSet
<1> QED  BY <1>2, <1>4, <1>5 DEF kept

-----------------------------------------------------------------------------
(* Types *)

LEMMA TypeInit == Init => TypeOK
<1> SUFFICES ASSUME Init PROVE TypeOK  OBVIOUS
<1>1. users \in Lists /\ IsInjective(users)
  <2>1. PICK S \in SUBSET People : users \in SetToSeqs(S)
        BY DEF Init, SetToAllKPermutations
  <2>2. IsFiniteSet(S) /\ Cardinality(S) \in Nat
        BY <2>1, FS_Subset, FS_CardinalityType, CommunicationsAssumption
  <2>3. users \in [1 .. Cardinality(S) -> People]  BY <2>1 DEF SetToSeqs
  <2>4. IsInjective(users)  BY <2>1, <2>3 DEF SetToSeqs, IsInjective
  <2> QED  BY <2>2, <2>3, <2>4 DEF Lists
<1>2. \A p \in People : <<p>> \in Lists  BY DEF Lists
<1>3. <<>> \in Lists  BY DEF Lists
<1>4. tos \in [Comms -> Lists \cup {NoTos}]
  <2>1. {NoTos, <<>>} \cup {<<p>> : p \in People} \subseteq Lists \cup {NoTos}  BY <1>2, <1>3
  <2>2. tos \in [Comms -> {NoTos, <<>>} \cup {<<p>> : p \in People}]  BY DEF Init
  <2> QED  BY <2>1, <2>2
<1>5. changes \in 0 .. MaxUserChanges  BY CommunicationsAssumption DEF Init
<1>6. /\ stage \in [Comms -> {"idle"} \cup Awaits \cup Answers]
      /\ all \in [Comms -> BOOLEAN] /\ depth0 \in [Comms -> BOOLEAN]
      /\ copies \in [Comms -> [{"ccs", "bccs"} -> Lists \cup {NoTos}]]
      /\ stored \in [Comms -> BOOLEAN]
  <2>1. CopyLists \cup {NoTos} \subseteq Lists \cup {NoTos}  BY CommunicationsAssumption DEF Lists
  <2>2. copies \in [Comms -> [{"ccs", "bccs"} -> Lists \cup {NoTos}]]  BY <2>1 DEF Init
  <2> QED  BY <2>2 DEF Init
<1>7. /\ allDocs \in [Comms -> Lists] /\ seen \in [Comms -> Lists] /\ found \in [Comms -> Lists]
      /\ unread \in [Comms -> SUBSET (Nat \ {0})] /\ pending \in [Comms -> SUBSET People]
      /\ cc \in [Comms -> SUBSET People] /\ mails \in [Comms -> Seq(Messages)]
  <2>1. <<>> \in Seq(Messages)  OBVIOUS
  <2> QED  BY <1>3, <2>1 DEF Init
<1> QED  BY <1>1, <1>4, <1>5, <1>6, <1>7 DEF TypeOK

\* A step of request c that changes nothing of f but what is c's.
OwnOf(c, f) == f' = [f EXCEPT ![c] = f'[c]]
Own(c) ==
    /\ UNCHANGED <<users, changes, all, copies, depth0>>
    /\ OwnOf(c, stage) /\ OwnOf(c, tos) /\ OwnOf(c, allDocs) /\ OwnOf(c, unread) /\ OwnOf(c, seen)
    /\ OwnOf(c, stored) /\ OwnOf(c, found) /\ OwnOf(c, cc) /\ OwnOf(c, mails) /\ OwnOf(c, pending)

\* What request c has is of its type.
OwnType(c) ==
    /\ stage[c] \in {"idle"} \cup Awaits \cup Answers /\ tos[c] \in Lists \cup {NoTos}
    /\ allDocs[c] \in Lists /\ unread[c] \subseteq Nat \ {0} /\ seen[c] \in Lists
    /\ stored[c] \in BOOLEAN /\ found[c] \in Lists /\ cc[c] \subseteq People
    /\ mails[c] \in Seq(Messages) /\ pending[c] \subseteq People

LEMMA StepsAreOwn ==
    ASSUME TypeOK, NEW c \in Comms, Receive(c) \/ RequestStep(c)
    PROVE  Own(c)
<1> USE DEF TypeOK, To, asked, reads, delivery, Own, OwnOf
<1>1. CASE Receive(c)  BY <1>1 DEF Receive
<1>2. CASE ReadFirstPage(c)  BY <1>2 DEF ReadFirstPage
<1>3. CASE CollectTos(c)  BY <1>3 DEF CollectTos
<1>4. CASE Write(c)  BY <1>4 DEF Write
<1>5. CASE Reject(c)  BY <1>5 DEF Reject
<1>6. CASE \E i \in unread[c] : ReadPage(c, i)  BY <1>6 DEF ReadPage
<1>7. CASE ReadParts(c)  BY <1>7 DEF ReadParts
<1>8. CASE FindTos(c)  BY <1>8 DEF FindTos
<1>9. CASE FindCcs(c)  BY <1>9 DEF FindCcs
<1>10. CASE FindBccsAndMail(c)  BY <1>10 DEF FindBccsAndMail
<1>11. CASE Answer(c)  BY <1>11 DEF Answer
<1>12. CASE \E p \in pending[c] : MailSettles(c, p)  BY <1>12 DEF MailSettles
<1> QED  BY <1>1, <1>2, <1>3, <1>4, <1>5, <1>6, <1>7, <1>8, <1>9, <1>10, <1>11, <1>12 DEF RequestStep

LEMMA OwnTypeKeeps ==
    ASSUME TypeOK, NEW c \in Comms, Own(c), OwnType(c)'
    PROVE  TypeOK'
BY DEF TypeOK, Own, OwnOf, OwnType

\* Who is copied is a user, and named in the list.
LEMMA CopiesFoundType ==
    ASSUME TypeOK, NEW c \in Comms, NEW field \in {"ccs", "bccs"}
    PROVE  CopiesFound(c, field) \subseteq People /\ CopiesFound(c, field) \subseteq Named(copies[c][field])
<1> DEFINE list == copies[c][field]
<1>1. CASE list = NoTos \/ depth0[c]  BY <1>1 DEF CopiesFound
<1>2. CASE ~(list = NoTos \/ depth0[c])
  <2>1. /\ CopiesFound(c, field) = ToSet(Page(Among(users, ToSet(list)), FindLimit, 1))
        /\ Named(list) = ToSet(list) /\ users \in Lists
        BY <1>2 DEF CopiesFound, Named, TypeOK
  <2>2. ToSet(users) \subseteq People  BY <2>1, ListsType
  <2>3. \A S : ToSet(Page(Among(users, S), FindLimit, 1)) \subseteq ToSet(users) \cap S
        BY <2>1, OneFindReturns
  <2> HIDE DEF list
  <2>4. CopiesFound(c, field) \subseteq ToSet(users) \cap ToSet(list)  BY <2>1, <2>3
  <2> QED  BY <2>1, <2>2, <2>4 DEF list
<1> QED  BY <1>1, <1>2

\* The messages that leave once everybody is looked up.
Outgoing(c) ==
    [i \in 1 .. Len(found[c]) |-> [to |-> found[c][i], cc |-> cc[c], bcc |-> CopiesFound(c, "bccs")]]

LEMMA OutgoingIs ==
    ASSUME TypeOK, NEW c \in Comms
    PROVE  /\ Outgoing(c) \in Seq(Messages) /\ DOMAIN Outgoing(c) = DOMAIN found[c]
           /\ \A i \in DOMAIN Outgoing(c) :
                 /\ Outgoing(c)[i].to = found[c][i] /\ Outgoing(c)[i].cc = cc[c]
                 /\ Outgoing(c)[i].bcc = CopiesFound(c, "bccs")
<1> DEFINE copied == CopiesFound(c, "bccs")
<1>1. found[c] \in Seq(People) /\ cc[c] \subseteq People /\ copied \subseteq People
      BY CopiesFoundType DEF TypeOK, Lists
<1> HIDE DEF copied
<1>2. \A i \in 1 .. Len(found[c]) : [to |-> found[c][i], cc |-> cc[c], bcc |-> copied] \in Messages
      BY <1>1 DEF Messages
<1>3. Outgoing(c) = [i \in 1 .. Len(found[c]) |-> [to |-> found[c][i], cc |-> cc[c], bcc |-> copied]]
      BY DEF Outgoing, copied
<1>4. Outgoing(c) \in Seq(Messages) /\ DOMAIN Outgoing(c) = DOMAIN found[c]
      BY <1>1, <1>2, <1>3
<1>5. \A i \in DOMAIN Outgoing(c) :
         Outgoing(c)[i].to = found[c][i] /\ Outgoing(c)[i].cc = cc[c] /\ Outgoing(c)[i].bcc = copied
      BY <1>3
<1> QED  BY <1>4, <1>5 DEF copied

LEMMA StepsKeepOwnType ==
    ASSUME TypeOK, NEW c \in Comms, Receive(c) \/ RequestStep(c)
    PROVE  OwnType(c)'
<1>0. PageLimit \in Nat \ {0} /\ FindLimit \in Nat \ {0}  BY CommunicationsAssumption
<1>1. /\ users \in Lists /\ allDocs[c] \in Lists /\ found[c] \in Lists
      /\ unread[c] \subseteq Nat \ {0} /\ mails[c] \in Seq(Messages)
      BY DEF TypeOK
<1>2. Page(users, PageLimit, 1) \in Lists  BY <1>0, <1>1, PageType
<1>3. 1 .. PagesOf(users, PageLimit) - 1 \subseteq Nat \ {0}
  <2>1. PagesOf(users, PageLimit) \in Int  BY <1>1, ListsType
  <2> QED  BY <2>1
<1>4. \A i \in unread[c] : allDocs[c] \o Page(users, PageLimit, i) \in Lists
  <2>1. ASSUME NEW i \in unread[c] PROVE allDocs[c] \o Page(users, PageLimit, i) \in Lists
    <3>1. Page(users, PageLimit, i) \in Lists  BY <1>0, <1>1, PageType
    <3> QED  BY <3>1, <1>1, ListsType
  <2> QED  BY <2>1
<1>5. Page(Among(users, ToSet(tos[c])), FindLimit, 1) \in Lists
  <2>1. Among(users, ToSet(tos[c])) \in Lists  BY <1>1, AmongUsers
  <2> QED  BY <2>1, <1>0, PageType
<1>6. ToSet(found[c]) \subseteq People  BY <1>1, ListsType
<1>7. Outgoing(c) \in Seq(Messages)  BY OutgoingIs
<1>8. CopiesFound(c, "ccs") \subseteq People  BY CopiesFoundType
<1> USE DEF TypeOK, To, asked, reads, delivery, OwnType
<1>10. CASE Receive(c)  BY <1>10 DEF Receive, Awaits, Answers
<1>11. CASE ReadFirstPage(c)  BY <1>11, <1>2, <1>3 DEF ReadFirstPage, Awaits
<1>12. CASE CollectTos(c)  BY <1>12 DEF CollectTos, Awaits
<1>13. CASE Write(c)  BY <1>13 DEF Write, Awaits
<1>14. CASE Reject(c)  BY <1>14 DEF Reject, Answers
<1>15. CASE \E i \in unread[c] : ReadPage(c, i)  BY <1>15, <1>4 DEF ReadPage
<1>16. CASE ReadParts(c)  BY <1>16 DEF ReadParts, Awaits
<1>17. CASE FindTos(c)  BY <1>17, <1>5 DEF FindTos, Awaits, Answers
<1>18. CASE FindCcs(c)  BY <1>8, <1>18 DEF FindCcs, Awaits, Answers
<1>19. CASE FindBccsAndMail(c)
  <2>1. \/ To(c, "failed") /\ UNCHANGED delivery
        \/ /\ mails' = [mails EXCEPT ![c] = Outgoing(c)] /\ pending' = [pending EXCEPT ![c] = ToSet(found[c])]
           /\ To(c, "mails")
        BY <1>19 DEF FindBccsAndMail, Outgoing
  <2> QED  BY <1>19, <2>1, <1>6, <1>7 DEF FindBccsAndMail, Awaits, Answers
<1>20. CASE Answer(c)  BY <1>20 DEF Answer, Answers
<1>21. CASE \E p \in pending[c] : MailSettles(c, p)
  <2>1. pending'[c] \subseteq pending[c] /\ UNCHANGED <<stage, tos, reads, stored, found, cc, mails>>
        BY <1>21 DEF MailSettles
  <2> QED  BY <2>1
<1> QED  BY <1>10, <1>11, <1>12, <1>13, <1>14, <1>15, <1>16, <1>17, <1>18, <1>19, <1>20, <1>21
         DEF RequestStep

\* The users change, and what requests have seen of them is forgotten.
LEMMA UsersTypeKeeps ==
    ASSUME TypeOK, users' \in Lists, IsInjective(users'), changes < MaxUserChanges,
           changes' = changes + 1, UsersChange,
           UNCHANGED <<stage, all, copies, depth0, tos, allDocs, unread, stored, found, cc, mails, pending>>
    PROVE  TypeOK'
<1>1. changes' \in 0 .. MaxUserChanges  BY CommunicationsAssumption DEF TypeOK
<1>2. seen' \in [Comms -> Lists]
  <2>1. <<>> \in Lists  BY DEF Lists
  <2> QED  BY <2>1 DEF TypeOK, UsersChange
<1> QED  BY <1>1, <1>2 DEF TypeOK

LEMMA TypeStep == TypeOK /\ [Next]_vars => TypeOK'
<1> SUFFICES ASSUME TypeOK, [Next]_vars PROVE TypeOK'  OBVIOUS
<1>1. ASSUME NEW c \in Comms, Receive(c) \/ RequestStep(c) PROVE TypeOK'
      BY <1>1, StepsAreOwn, StepsKeepOwnType, OwnTypeKeeps
<1>2. ASSUME NEW p \in People, CreateUser(p) PROVE TypeOK'
  <2>1. users' \in Lists /\ IsInjective(users')
    <3>1. users' = <<p>> \o users /\ \A i \in DOMAIN users : users[i] # p
          BY <1>2 DEF CreateUser, Contains, TypeOK, Lists
    <3>2. users \in Seq(People) /\ IsInjective(users)  BY DEF TypeOK, Lists
    <3> QED  BY <3>1, <3>2 DEF Lists, IsInjective
  <2> QED  BY <1>2, <2>1, UsersTypeKeeps DEF CreateUser, asked, delivery
<1>3. ASSUME NEW p \in People, DeleteUser(p) PROVE TypeOK'
  <2>1. users' \in Lists /\ IsInjective(users')  BY <1>3, AmongUsers DEF DeleteUser, TypeOK
  <2> QED  BY <1>3, <2>1, UsersTypeKeeps DEF DeleteUser, asked, delivery
<1>4. CASE UNCHANGED vars  BY <1>4 DEF TypeOK, vars, asked, reads, delivery
<1> QED  BY <1>1, <1>2, <1>3, <1>4 DEF Next

-----------------------------------------------------------------------------
(* Stages *)

Mailing == {"mails", "created"}

\* Mails leave in one step, the last one that can fail.
SilentBeforeMailing ==
    \A c \in Comms : stage[c] \notin Mailing =>
        pending[c] = {} /\ mails[c] = <<>>

\* What is answered as created is written, and every mail of it has settled.
CreatedMeansSettled ==
    \A c \in Comms : stage[c] = "created" => stored[c] /\ pending[c] = {}

\* The document is written before anything afterChange does.
WrittenFirst ==
    \A c \in Comms : stage[c] \in {"parts", "tos", "ccs", "bccs"} \cup Mailing => stored[c]

StageInv == TypeOK /\ SilentBeforeMailing /\ CreatedMeansSettled /\ WrittenFirst

LEMMA StageInit == Init => StageInv
BY TypeInit
DEF Init, StageInv, SilentBeforeMailing, CreatedMeansSettled, WrittenFirst, Mailing

\* The same of one request.
StageOf(c) ==
    /\ stage[c] \notin Mailing => pending[c] = {} /\ mails[c] = <<>>
    /\ stage[c] = "created" => stored[c] /\ pending[c] = {}
    /\ stage[c] \in {"parts", "tos", "ccs", "bccs"} \cup Mailing => stored[c]

LEMMA StepsKeepStageOf ==
    ASSUME TypeOK, NEW c \in Comms, StageOf(c), Receive(c) \/ RequestStep(c)
    PROVE  StageOf(c)'
<1> USE DEF TypeOK, StageOf, To, delivery, Mailing
<1>1. CASE Receive(c)  BY <1>1 DEF Receive
<1>2. CASE ReadFirstPage(c)  BY <1>2 DEF ReadFirstPage
<1>3. CASE CollectTos(c)  BY <1>3 DEF CollectTos
<1>4. CASE Write(c)  BY <1>4 DEF Write
<1>5. CASE Reject(c)  BY <1>5 DEF Reject, Awaits
<1>6. CASE \E i \in unread[c] : ReadPage(c, i)  BY <1>6 DEF ReadPage
<1>7. CASE ReadParts(c)  BY <1>7 DEF ReadParts
<1>8. CASE FindTos(c)  BY <1>8 DEF FindTos
<1>9. CASE FindCcs(c)  BY <1>9 DEF FindCcs
<1>10. CASE FindBccsAndMail(c)
  <2>1. stage[c] = "bccs" /\ stored[c] /\ stored' = stored  BY <1>10 DEF FindBccsAndMail
  <2>2. \/ stage'[c] = "mails"
        \/ stage'[c] = "failed" /\ UNCHANGED <<mails, pending>>
        BY <1>10 DEF FindBccsAndMail
  <2> QED  BY <2>1, <2>2
<1>11. CASE Answer(c)  BY <1>11 DEF Answer
<1>12. CASE \E p \in pending[c] : MailSettles(c, p)
  <2>1. stage[c] = "mails" /\ stage' = stage /\ stored' = stored  BY <1>12 DEF MailSettles
  <2> QED  BY <2>1
<1> QED  BY <1>1, <1>2, <1>3, <1>4, <1>5, <1>6, <1>7, <1>8, <1>9, <1>10, <1>11, <1>12 DEF RequestStep

LEMMA StageStep == StageInv /\ [Next]_vars => StageInv'
<1> SUFFICES ASSUME StageInv, [Next]_vars, NEW d \in Comms PROVE StageOf(d)'
    BY TypeStep DEF StageInv, SilentBeforeMailing, CreatedMeansSettled, WrittenFirst, StageOf
<1>0. TypeOK /\ StageOf(d)
      BY DEF StageInv, SilentBeforeMailing, CreatedMeansSettled, WrittenFirst, StageOf
<1>1. ASSUME NEW c \in Comms, Receive(c) \/ RequestStep(c) PROVE StageOf(d)'
  <2>1. CASE d = c  BY <1>0, <1>1, <2>1, StepsKeepStageOf
  <2>2. CASE d # c
    <3>1. stage'[d] = stage[d] /\ stored'[d] = stored[d] /\ mails'[d] = mails[d] /\ pending'[d] = pending[d]
          BY <1>0, <1>1, <2>2, StepsAreOwn DEF Own, OwnOf, TypeOK
    <3> QED  BY <1>0, <3>1 DEF StageOf
  <2> QED  BY <2>1, <2>2
<1>2. ASSUME NEW p \in People, CreateUser(p) \/ DeleteUser(p) PROVE StageOf(d)'
  <2>1. UNCHANGED <<stage, stored, mails, pending>>  BY <1>2 DEF CreateUser, DeleteUser, delivery
  <2> QED  BY <1>0, <2>1 DEF StageOf
<1>3. CASE UNCHANGED vars
  <2>1. UNCHANGED <<stage, stored, mails, pending>>  BY <1>3 DEF vars, delivery
  <2> QED  BY <1>0, <2>1 DEF StageOf
<1> QED  BY <1>1, <1>2, <1>3 DEF Next

-----------------------------------------------------------------------------
(* One message per recipient *)

\* The users that FindTos finds.
Hits(c) == Page(Among(users, ToSet(tos[c])), FindLimit, 1)

\* A page of a list without repetitions has none.
LEMMA PageInjective ==
    ASSUME NEW list \in Lists, IsInjective(list)
    PROVE  IsInjective(Page(list, FindLimit, 1))
<1>1. FindLimit \in Nat \ {0} /\ Len(list) \in Nat  BY CommunicationsAssumption DEF Lists
<1> DEFINE n == Min({FindLimit, Len(list)})
<1>2. n \in 0 .. Len(list)  BY <1>1, MinOfTwo
<1>3. Page(list, FindLimit, 1) = SubSeq(list, 1, n)
  <2>1. (1 - 1) * FindLimit + 1 = 1 /\ 1 * FindLimit = FindLimit  BY <1>1
  <2> QED  BY <2>1 DEF Page
<1> HIDE DEF n
<1> QED  BY <1>1, <1>2, <1>3 DEF IsInjective, Lists

LEMMA HitsAre ==
    ASSUME TypeOK, NEW c \in Comms
    PROVE  IsInjective(Hits(c)) /\ ToSet(Hits(c)) \subseteq ToSet(tos[c])
<1>1. users \in Lists /\ IsInjective(users)  BY DEF TypeOK
<1>2. Among(users, ToSet(tos[c])) \in Lists /\ IsInjective(Among(users, ToSet(tos[c])))
      BY <1>1, AmongUsers
<1>3. IsInjective(Hits(c))  BY <1>2, PageInjective DEF Hits
<1>4. ToSet(Hits(c)) \subseteq ToSet(tos[c])  BY <1>1, OneFindReturns DEF Hits
<1> QED  BY <1>3, <1>4

\* Message i of a request goes to the i-th recipient found, and has the copies on it.
GoesTo(c, i) ==
    /\ i \in DOMAIN found[c] /\ mails[c][i].to = found[c][i]
    /\ mails[c][i].cc \subseteq Named(copies[c]["ccs"])
    /\ mails[c][i].bcc \subseteq Named(copies[c]["bccs"])

\* What a request has found is what it looked up, nobody twice; what it has mailed
\* went to whom it found.
FoundOf(c) ==
    /\ stage[c] \in {"idle", "page 1", "pages", "write", "parts", "tos"} => found[c] = <<>>
    /\ IsInjective(found[c]) /\ ToSet(found[c]) \subseteq ToSet(tos[c])
    /\ cc[c] \subseteq Named(copies[c]["ccs"])
    /\ \A i \in DOMAIN mails[c] : GoesTo(c, i)
    /\ stage[c] \in Mailing => DOMAIN mails[c] = DOMAIN found[c]

OnceInv == StageInv /\ \A c \in Comms : FoundOf(c)

\* The messages of a request leave all at once.
LEMMA MailsLeave ==
    ASSUME StageInv, NEW c \in Comms, FindBccsAndMail(c), stage'[c] = "mails"
    PROVE  mails'[c] = Outgoing(c)
BY DEF FindBccsAndMail, Outgoing, To, StageInv, TypeOK

LEMMA StepsKeepFoundOf ==
    ASSUME OnceInv, NEW c \in Comms, Receive(c) \/ RequestStep(c)
    PROVE  FoundOf(c)'
<1>0. /\ TypeOK /\ FoundOf(c) /\ UNCHANGED copies
      /\ stage \in [Comms -> {"idle"} \cup Awaits \cup Answers]
      /\ stage[c] \notin Mailing => mails[c] = <<>>
      BY StepsAreOwn DEF OnceInv, StageInv, SilentBeforeMailing, TypeOK, Own
<1>1. ASSUME UNCHANGED <<found, cc, mails>>, tos'[c] = tos[c] \/ found[c] = <<>>,
             stage'[c] \in {"idle", "page 1", "pages", "write", "parts", "tos"} => found[c] = <<>>,
             stage'[c] \in Mailing => stage[c] \in Mailing
      PROVE  FoundOf(c)'
  <2>1. \A i \in DOMAIN mails[c] : GoesTo(c, i)'  BY <1>0, <1>1 DEF FoundOf, GoesTo
  <2>2. ToSet(found'[c]) \subseteq ToSet(tos'[c])
    <3>1. CASE tos'[c] = tos[c]  BY <1>0, <1>1, <3>1 DEF FoundOf
    <3>2. CASE found[c] = <<>>  BY <1>1, <3>2 DEF ToSet
    <3> QED  BY <1>1, <3>1, <3>2
  <2> QED  BY <1>0, <1>1, <2>1, <2>2 DEF FoundOf
<1>2. CASE FindTos(c)
  <2>1. /\ found'[c] = Hits(c) /\ UNCHANGED <<tos, cc, mails>> /\ mails[c] = <<>>
        /\ stage'[c] \in {"failed", "ccs"}
        BY <1>0, <1>2 DEF FindTos, Hits, To, TypeOK, delivery, Mailing
  <2>2. IsInjective(found'[c]) /\ ToSet(found'[c]) \subseteq ToSet(tos'[c])  BY <1>0, <2>1, HitsAre
  <2>3. DOMAIN mails'[c] = {}  BY <2>1
  <2> QED  BY <1>0, <2>1, <2>2, <2>3 DEF FoundOf, Mailing
<1>3. CASE FindCcs(c)
  <2>1. /\ cc'[c] = CopiesFound(c, "ccs") /\ UNCHANGED <<tos, found, mails>> /\ mails[c] = <<>>
        /\ stage'[c] \in {"failed", "bccs"}
        BY <1>0, <1>3 DEF FindCcs, To, TypeOK, delivery, Mailing
  <2>2. cc'[c] \subseteq Named(copies'[c]["ccs"])  BY <1>0, <2>1, CopiesFoundType
  <2>3. DOMAIN mails'[c] = {}  BY <2>1
  <2> QED  BY <1>0, <2>1, <2>2, <2>3 DEF FoundOf, Mailing
<1>4. CASE FindBccsAndMail(c)
  <2>1. UNCHANGED <<tos, found, cc>> /\ stage[c] = "bccs" /\ stage'[c] \in {"failed", "mails"}
        BY <1>0, <1>4 DEF FindBccsAndMail, To
  <2>2. CASE stage'[c] = "mails"
    <3>1. mails'[c] = Outgoing(c)  BY <1>4, <2>2, MailsLeave DEF OnceInv
    <3>2. /\ DOMAIN mails'[c] = DOMAIN found[c]
          /\ \A i \in DOMAIN mails'[c] :
                /\ mails'[c][i].to = found[c][i] /\ mails'[c][i].cc = cc[c]
                /\ mails'[c][i].bcc = CopiesFound(c, "bccs")
          BY <1>0, <3>1, OutgoingIs
    <3>3. \A i \in DOMAIN mails'[c] : GoesTo(c, i)'
          BY <1>0, <2>1, <3>2, CopiesFoundType DEF GoesTo, FoundOf
    <3> QED  BY <1>0, <2>1, <2>2, <3>2, <3>3 DEF FoundOf
  <2>3. CASE stage'[c] = "failed"
    <3>1. UNCHANGED mails  BY <1>0, <1>4, <2>3 DEF FindBccsAndMail, To, delivery
    <3> QED  BY <1>0, <1>1, <2>1, <2>3, <3>1 DEF Mailing
  <2> QED  BY <2>1, <2>2, <2>3
<1>5. CASE CollectTos(c)
  <2>1. stage[c] = "pages" /\ stage'[c] = "write" /\ UNCHANGED <<found, cc, mails>>
        BY <1>0, <1>5 DEF CollectTos, To, delivery
  <2> QED  BY <1>0, <1>1, <2>1 DEF FoundOf, Mailing
<1>6. CASE \E p \in pending[c] : MailSettles(c, p)
  <2>1. UNCHANGED <<stage, tos, found, cc, mails>>  BY <1>6 DEF MailSettles
  <2> QED  BY <1>0, <1>1, <2>1 DEF FoundOf
<1>7. CASE \E i \in unread[c] : ReadPage(c, i)
  <2>1. UNCHANGED <<stage, tos, found, cc, mails>>  BY <1>7 DEF ReadPage, delivery
  <2> QED  BY <1>0, <1>1, <2>1 DEF FoundOf
<1>8. CASE Receive(c) \/ ReadFirstPage(c) \/ Write(c) \/ Reject(c) \/ ReadParts(c) \/ Answer(c)
  <2>1. /\ UNCHANGED <<tos, found, cc, mails>>
        /\ \/ stage'[c] = "failed" \/ stage[c] = "mails"
           \/ stage[c] \in {"idle", "page 1", "write", "parts"} /\ stage'[c] \notin Mailing
        BY <1>0, <1>8 DEF Receive, ReadFirstPage, Write, Reject, ReadParts, Answer, To, delivery, Mailing
  <2>2. stage[c] = "mails" => stage'[c] \in {"failed", "created"}
        BY <1>0, <1>8 DEF Receive, ReadFirstPage, Write, Reject, ReadParts, Answer, To
  <2> QED  BY <1>0, <1>1, <2>1, <2>2 DEF FoundOf, Mailing
<1> QED  BY <1>2, <1>3, <1>4, <1>5, <1>6, <1>7, <1>8 DEF RequestStep

LEMMA OnceStep == OnceInv /\ [Next]_vars => OnceInv'
<1> SUFFICES ASSUME OnceInv, [Next]_vars, NEW d \in Comms PROVE FoundOf(d)'
    BY StageStep DEF OnceInv
<1>0. TypeOK /\ FoundOf(d)  BY DEF OnceInv, StageInv
<1>1. ASSUME stage'[d] = stage[d], found'[d] = found[d], cc'[d] = cc[d], mails'[d] = mails[d],
             tos'[d] = tos[d], UNCHANGED copies
      PROVE  FoundOf(d)'
  <2>1. \A i \in DOMAIN mails[d] : GoesTo(d, i)'  BY <1>0, <1>1 DEF FoundOf, GoesTo
  <2> QED  BY <1>0, <1>1, <2>1 DEF FoundOf
<1>2. ASSUME NEW c \in Comms, Receive(c) \/ RequestStep(c) PROVE FoundOf(d)'
  <2>1. CASE d = c  BY <1>2, <2>1, StepsKeepFoundOf
  <2>2. CASE d # c  BY <1>0, <1>1, <1>2, <2>2, StepsAreOwn DEF Own, OwnOf, TypeOK
  <2> QED  BY <2>1, <2>2
<1>3. ASSUME NEW p \in People, CreateUser(p) \/ DeleteUser(p) PROVE FoundOf(d)'
      BY <1>1, <1>3 DEF CreateUser, DeleteUser, asked, delivery
<1>4. CASE UNCHANGED vars  BY <1>1, <1>4 DEF vars, asked, delivery
<1> QED  BY <1>2, <1>3, <1>4 DEF Next

LEMMA OnceInit == Init => OnceInv
<1> SUFFICES ASSUME Init, NEW c \in Comms PROVE FoundOf(c)  BY StageInit DEF OnceInv
<1>1. found[c] = <<>> /\ mails[c] = <<>> /\ cc[c] = {} /\ stage[c] = "idle"  BY DEF Init
<1> QED  BY <1>1 DEF FoundOf, Mailing, IsInjective, ToSet

LEMMA OnceInvOnce == OnceInv => OneMessagePerRecipient
<1> SUFFICES ASSUME OnceInv, NEW c \in Comms, NEW i \in DOMAIN mails[c]
             PROVE  /\ \A j \in DOMAIN mails[c] : mails[c][i].to = mails[c][j].to => i = j
                    /\ mails[c][i].to \in ToSet(tos[c])
                    /\ mails[c][i].cc \subseteq Named(copies[c]["ccs"])
                    /\ mails[c][i].bcc \subseteq Named(copies[c]["bccs"])
    BY DEF OneMessagePerRecipient
<1>1. FoundOf(c) /\ \A j \in DOMAIN mails[c] : GoesTo(c, j)  BY DEF OnceInv, FoundOf
<1>2. mails[c][i].to \in ToSet(tos[c])  BY <1>1 DEF FoundOf, GoesTo, ToSet
<1> QED  BY <1>1, <1>2 DEF FoundOf, GoesTo, IsInjective

-----------------------------------------------------------------------------
(* Whom sendToAll reaches *)

\* The first k of a list, and those on some of its pages.
First(list, k) == At(list, 1 .. k)
OnPages(list, pages) == At(list, UNION {OnPage(list, PageLimit, i) : i \in pages})

\* The users a sendToAll lists, and of these as many as one find returns.
ListedOf(list) == First(list, Listed(list))
ReachOf(list) == First(list, Min({Listed(list), FindLimit}))

\* The pages a request has read: the first, and those asked for and answered.
Answered(c) == {1} \cup ((1 .. PagesOf(seen[c], PageLimit) - 1) \ unread[c])

\* How far a request has got with the users it saw, which stay as long as it lasts.
Traced(c) ==
    /\ stage[c] \in {"idle", "page 1"} => seen[c] = <<>>
    /\ seen[c] # <<>> =>
         /\ stage[c] \notin Answers => seen[c] = users
         /\ stage[c] = "pages" =>
              /\ unread[c] \subseteq 1 .. PagesOf(seen[c], PageLimit) - 1
              /\ ToSet(allDocs[c]) = OnPages(seen[c], Answered(c))
         /\ stage[c] \in {"write", "parts", "tos"} => ToSet(tos[c]) = ListedOf(seen[c])
         /\ stage[c] \in {"ccs", "bccs"} => ToSet(found[c]) = ReachOf(seen[c])
         /\ stage[c] \in Mailing => Addressed(c) = ReachOf(seen[c])

ReachInv == OnceInv /\ \A c \in Comms : Traced(c)

\* Nobody has moved: the find for the recipients returns the first of them.
LEMMA HitsReach ==
    ASSUME TypeOK, NEW c \in Comms, seen[c] # <<>>, seen[c] = users, ToSet(tos[c]) = ListedOf(seen[c])
    PROVE  ToSet(Hits(c)) = ReachOf(seen[c])
<1> DEFINE k == Listed(users)
           I == {i \in DOMAIN users : users[i] \in ToSet(tos[c])}
           s == SubSeq(users, 1, k)
<1>1. users \in Seq(People) /\ users # <<>> /\ Len(users) \in Nat /\ DOMAIN users = 1 .. Len(users)
      BY DEF TypeOK, Lists
<1>2. k \in 1 .. Len(users)  BY <1>1, ListedIsShown
<1>3. FindLimit \in Nat \ {0}  BY CommunicationsAssumption
<1>4. ToSet(tos[c]) = {users[j] : j \in 1 .. k}  BY DEF ListedOf, First, At
<1> HIDE DEF k
<1>5. I = 1 .. k
  <2>1. \A j \in 1 .. k : j \in DOMAIN users  BY <1>1, <1>2
  <2>2. \A j \in 1 .. k : users[j] \in ToSet(tos[c])  BY <1>4
  <2>3. ASSUME NEW i \in DOMAIN users, users[i] \in ToSet(tos[c]) PROVE i \in 1 .. k
    <3>1. PICK j \in 1 .. k : users[i] = users[j]  BY <1>4, <2>3
    <3>2. i = j  BY <2>1, <3>1 DEF TypeOK, IsInjective
    <3> QED  BY <3>2
  <2> QED  BY <2>1, <2>2, <2>3
<1>6. Among(users, ToSet(tos[c])) = s
  <2>1. Among(users, ToSet(tos[c])) = Picked(users, I)  BY DEF Among
  <2>2. Picked(users, 1 .. k) = s  BY <1>1, <1>2, PickedBeginning
  <2> HIDE DEF I, s
  <2> QED  BY <2>1, <2>2, <1>5
<1>7. s \in Seq(People) /\ Len(s) = k /\ \A j \in 1 .. k : s[j] = users[j]  BY <1>1, <1>2
<1> HIDE DEF s
<1> DEFINE m == Min({k, FindLimit})
<1>8. m = IF k <= FindLimit THEN k ELSE FindLimit  BY <1>1, <1>2, <1>3, MinOfTwo
<1>9. OnPage(s, FindLimit, 1) = 1 .. m
  <2>1. (1 - 1) * FindLimit = 0 /\ 1 * FindLimit = FindLimit  BY <1>3
  <2>2. DOMAIN s = 1 .. k  BY <1>7
  <2> HIDE DEF m
  <2> QED  BY <2>1, <2>2, <1>1, <1>2, <1>3, <1>8 DEF OnPage
<1>10. ToSet(Hits(c)) = {s[j] : j \in 1 .. m}
  <2> HIDE DEF m
  <2>1. Hits(c) = Page(s, FindLimit, 1)  BY <1>6 DEF Hits
  <2>2. ToSet(Page(s, FindLimit, 1)) = At(s, OnPage(s, FindLimit, 1))
        BY <1>3, <1>7, PageType DEF Lists
  <2> QED  BY <1>9, <2>1, <2>2 DEF At
<1>11. \A j \in 1 .. m : j \in 1 .. k  BY <1>1, <1>2, <1>3, <1>8
<1>12. ReachOf(seen[c]) = {users[j] : j \in 1 .. m}  BY DEF ReachOf, First, At, k
<1> HIDE DEF m
<1> QED  BY <1>7, <1>10, <1>11, <1>12

-----------------------------------------------------------------------------
\* A step of request c that reads users, or joins what it has read.
LEMMA ReadsAreTraced ==
    ASSUME ReachInv, NEW c \in Comms,
           \/ ReadFirstPage(c) \/ CollectTos(c) \/ \E i \in unread[c] : ReadPage(c, i)
    PROVE  Traced(c)'
<1>0. /\ PageLimit \in Nat \ {0} /\ users \in Lists /\ users \in Seq(People) /\ UNCHANGED users
      /\ Traced(c) /\ TypeOK
      BY CommunicationsAssumption
      DEF ReachInv, OnceInv, StageInv, TypeOK, Lists, ReadFirstPage, CollectTos, ReadPage
<1>1. CASE ReadFirstPage(c)
  <2>1. /\ stage'[c] = "pages" /\ seen'[c] = users
        /\ unread'[c] = 1 .. PagesOf(users, PageLimit) - 1 /\ allDocs'[c] = Page(users, PageLimit, 1)
        BY <1>0, <1>1 DEF ReadFirstPage, To, TypeOK
  <2>2. ToSet(allDocs'[c]) = At(users, OnPage(users, PageLimit, 1))
    <3>1. ToSet(Page(users, PageLimit, 1)) = At(users, OnPage(users, PageLimit, 1))
          BY <1>0, PageType
    <3> QED  BY <2>1, <3>1
  <2>3. UNION {OnPage(users, PageLimit, i) : i \in {1}} = OnPage(users, PageLimit, 1)  OBVIOUS
  <2>4. Answered(c)' = {1}  BY <2>1 DEF Answered
  <2>5. ToSet(allDocs'[c]) = OnPages(users, {1})  BY <2>2, <2>3 DEF OnPages
  <2> QED  BY <1>0, <2>1, <2>4, <2>5 DEF Traced, Mailing
<1>2. CASE CollectTos(c)
  <2>1. /\ stage[c] = "pages" /\ unread[c] = {} /\ stage'[c] = "write"
        /\ tos'[c] = allDocs[c] /\ seen' = seen
        BY <1>0, <1>2 DEF CollectTos, To, TypeOK, reads
  <2>2. CASE seen[c] # <<>>
    <3>1. seen[c] = users /\ ToSet(allDocs[c]) = OnPages(users, Answered(c))
          BY <1>0, <2>1, <2>2 DEF Traced, Answers
    <3>2. Answered(c) = {1} \cup 1 .. PagesOf(users, PageLimit) - 1  BY <2>1, <3>1 DEF Answered
    <3>3. UNION {OnPage(users, PageLimit, i) : i \in {1} \cup 1 .. PagesOf(users, PageLimit) - 1} = 1 .. Listed(users)
          BY <1>0, <2>2, <3>1, ListedIsShown
    <3>4. OnPages(users, {1} \cup 1 .. PagesOf(users, PageLimit) - 1) = ListedOf(users)
          BY <3>3 DEF OnPages, ListedOf, First
    <3>5. ToSet(tos'[c]) = ListedOf(users)  BY <2>1, <3>1, <3>2, <3>4
    <3> QED  BY <1>0, <2>1, <3>1, <3>5 DEF Traced, Mailing
  <2>3. CASE seen[c] = <<>>  BY <2>1, <2>3 DEF Traced
  <2> QED  BY <2>2, <2>3
<1>3. ASSUME NEW i \in unread[c], ReadPage(c, i) PROVE Traced(c)'
  <2>1. /\ stage[c] = "pages" /\ stage'[c] = "pages" /\ seen' = seen
        /\ unread'[c] = unread[c] \ {i} /\ allDocs'[c] = allDocs[c] \o Page(users, PageLimit, i)
        BY <1>0, <1>3 DEF ReadPage, TypeOK
  <2>2. CASE seen[c] # <<>>
    <3>1. /\ seen[c] = users /\ ToSet(allDocs[c]) = OnPages(users, Answered(c))
          /\ unread[c] \subseteq 1 .. PagesOf(users, PageLimit) - 1
          BY <1>0, <2>1, <2>2 DEF Traced, Answers
    <3>2. i \in Nat \ {0} /\ allDocs[c] \in Lists  BY <1>0 DEF TypeOK
    <3>3. /\ Page(users, PageLimit, i) \in Lists
          /\ ToSet(Page(users, PageLimit, i)) = At(users, OnPage(users, PageLimit, i))
          BY <1>0, <3>2, PageType
    <3>4. ToSet(allDocs'[c]) = ToSet(allDocs[c]) \cup ToSet(Page(users, PageLimit, i))
          BY <2>1, <3>2, <3>3, ToSetConcat DEF Lists
    <3>5. Answered(c)' = Answered(c) \cup {i}  BY <2>1, <3>1 DEF Answered
    <3>6. OnPages(users, Answered(c) \cup {i})
             = OnPages(users, Answered(c)) \cup At(users, OnPage(users, PageLimit, i))
      <4> DEFINE I == Answered(c)
      <4> HIDE DEF I
      <4> QED  BY DEF OnPages, At
    <3>7. ToSet(allDocs'[c]) = OnPages(users, Answered(c)')  BY <3>1, <3>3, <3>4, <3>5, <3>6
    <3>8. unread'[c] \subseteq 1 .. PagesOf(users, PageLimit) - 1  BY <2>1, <3>1
    <3> QED  BY <1>0, <2>1, <3>1, <3>7, <3>8 DEF Traced, Mailing
  <2>3. CASE seen[c] = <<>>  BY <2>1, <2>3 DEF Traced
  <2> QED  BY <2>2, <2>3
<1> QED  BY <1>1, <1>2, <1>3

-----------------------------------------------------------------------------
\* A step of request c says nothing about the others.
LEMMA OthersTraced ==
    ASSUME TypeOK, NEW c \in Comms, Own(c), NEW d \in Comms \ {c}, Traced(d)
    PROVE  Traced(d)'
<1>1. /\ stage'[d] = stage[d] /\ seen'[d] = seen[d] /\ unread'[d] = unread[d]
      /\ allDocs'[d] = allDocs[d] /\ tos'[d] = tos[d] /\ found'[d] = found[d]
      /\ mails'[d] = mails[d] /\ users' = users
      BY DEF TypeOK, Own, OwnOf
<1>2. Answered(d)' = Answered(d) /\ Addressed(d)' = Addressed(d)  BY <1>1 DEF Answered, Addressed
<1> QED  BY <1>1, <1>2 DEF Traced

\* The messages reach those that were found.
LEMMA MailsReachFound ==
    ASSUME StageInv, NEW c \in Comms, FindBccsAndMail(c), stage'[c] = "mails"
    PROVE  Addressed(c)' = ToSet(found[c])
<1>1. mails'[c] = Outgoing(c)  BY MailsLeave
<1>2. \A i \in DOMAIN mails'[c] : mails'[c][i].to = found[c][i]
      BY <1>1, OutgoingIs DEF StageInv
<1>3. DOMAIN mails'[c] = DOMAIN found[c]  BY <1>1, OutgoingIs DEF StageInv
<1> QED  BY <1>2, <1>3 DEF Addressed, ToSet

\* The other steps of a request.
LEMMA LaterStepsAreTraced ==
    ASSUME ReachInv, NEW c \in Comms,
           \/ Receive(c) \/ Write(c) \/ Reject(c) \/ ReadParts(c) \/ FindTos(c) \/ FindCcs(c)
           \/ FindBccsAndMail(c) \/ Answer(c) \/ \E p \in pending[c] : MailSettles(c, p)
    PROVE  Traced(c)'
<1>0. /\ TypeOK /\ OnceInv /\ Traced(c) /\ UNCHANGED <<users, seen, allDocs, unread, tos>>
      BY DEF ReachInv, OnceInv, StageInv, Receive, Write, Reject, ReadParts, FindTos, FindCcs,
             FindBccsAndMail, Answer, MailSettles, reads
<1>1. stage \in [Comms -> {"idle"} \cup Awaits \cup Answers]  BY <1>0 DEF TypeOK
<1>2. CASE Receive(c)
  <2>1. seen[c] = <<>>  BY <1>0, <1>2 DEF Traced, Receive
  <2> QED  BY <1>0, <2>1 DEF Traced
<1>3. CASE Write(c) \/ ReadParts(c)
  <2>1. /\ \/ stage[c] = "write" /\ stage'[c] = "parts"
           \/ stage[c] = "parts" /\ stage'[c] = "tos"
        /\ UNCHANGED found /\ UNCHANGED mails
        BY <1>1, <1>3 DEF Write, ReadParts, To, delivery
  <2> QED  BY <1>0, <2>1 DEF Traced, Answers, Mailing
<1>4. CASE Reject(c) \/ stage'[c] = "failed"
  <2>1. stage'[c] = "failed"  BY <1>1, <1>4 DEF Reject, To
  <2> QED  BY <2>1 DEF Traced, Answers, Mailing
<1>5. CASE FindTos(c) /\ stage'[c] # "failed"
  <2>1. stage[c] = "tos" /\ stage'[c] = "ccs" /\ found'[c] = Hits(c)
        BY <1>0, <1>1, <1>5 DEF FindTos, Hits, To, TypeOK
  <2>2. seen[c] # <<>> => ToSet(Hits(c)) = ReachOf(seen[c])
        BY <1>0, <2>1, HitsReach DEF Traced, Answers
  <2> QED  BY <1>0, <2>1, <2>2 DEF Traced, Answers, Mailing
<1>6. CASE FindCcs(c) /\ stage'[c] # "failed"
  <2>1. stage[c] = "ccs" /\ stage'[c] = "bccs" /\ found' = found
        BY <1>1, <1>6 DEF FindCcs, To
  <2> QED  BY <1>0, <2>1 DEF Traced, Answers, Mailing
<1>7. CASE FindBccsAndMail(c) /\ stage'[c] # "failed"
  <2>1. stage[c] = "bccs" /\ stage'[c] = "mails"
        BY <1>1, <1>7 DEF FindBccsAndMail, To
  <2>2. Addressed(c)' = ToSet(found[c])  BY <1>0, <1>7, <2>1, MailsReachFound DEF OnceInv
  <2> QED  BY <1>0, <2>1, <2>2 DEF Traced, Answers, Mailing
<1>8. CASE Answer(c) \/ \E p \in pending[c] : MailSettles(c, p)
  <2>1. stage[c] = "mails" /\ stage'[c] \in Mailing /\ mails' = mails
        BY <1>1, <1>8 DEF Answer, MailSettles, To, delivery, Mailing
  <2>2. Addressed(c)' = Addressed(c)  BY <2>1 DEF Addressed
  <2> QED  BY <1>0, <2>1, <2>2 DEF Traced, Answers, Mailing
<1> QED  BY <1>2, <1>3, <1>4, <1>5, <1>6, <1>7, <1>8

LEMMA ReachInit == Init => ReachInv
BY OnceInit DEF Init, ReachInv, Traced

LEMMA ReachStep == ReachInv /\ [Next]_vars => ReachInv'
<1> SUFFICES ASSUME ReachInv, [Next]_vars, NEW d \in Comms PROVE Traced(d)'
    BY OnceStep DEF ReachInv
<1>0. TypeOK /\ Traced(d)  BY DEF ReachInv, OnceInv, StageInv
<1>1. ASSUME NEW c \in Comms, Receive(c) \/ RequestStep(c) PROVE Traced(d)'
  <2>1. CASE d = c  BY <1>1, <2>1, ReadsAreTraced, LaterStepsAreTraced DEF RequestStep
  <2>2. CASE d # c  BY <1>0, <1>1, <2>2, StepsAreOwn, OthersTraced
  <2> QED  BY <2>1, <2>2
<1>2. ASSUME NEW p \in People, CreateUser(p) \/ DeleteUser(p) PROVE Traced(d)'
  <2>1. /\ UNCHANGED <<stage, mails>>
        /\ seen'[d] = IF stage[d] \in Answers THEN seen[d] ELSE <<>>
        BY <1>2 DEF CreateUser, DeleteUser, UsersChange, delivery
  <2>2. Addressed(d)' = Addressed(d)  BY <2>1 DEF Addressed
  <2>3. CASE stage[d] \in Answers  BY <1>0, <2>1, <2>2, <2>3 DEF Traced, Answers, Mailing
  <2>4. CASE stage[d] \notin Answers  BY <1>0, <2>1, <2>4 DEF Traced
  <2> QED  BY <2>3, <2>4
<1>3. CASE UNCHANGED vars
  <2>1. UNCHANGED <<users, stage, tos, allDocs, unread, seen, found, mails>>
        BY <1>3 DEF vars, reads, delivery
  <2>2. Answered(d)' = Answered(d) /\ Addressed(d)' = Addressed(d)  BY <2>1 DEF Answered, Addressed
  <2> QED  BY <1>0, <2>1, <2>2 DEF Traced
<1> QED  BY <1>1, <1>2, <1>3 DEF Next

LEMMA ReachInvReaches == ReachInv => SendToAllReach
<1> SUFFICES ASSUME ReachInv, NEW c \in Comms, stage[c] = "created", seen[c] # <<>>
             PROVE  Addressed(c)
                       = ToSet(SubSeq(seen[c], 1, Min({Listed(seen[c]), FindLimit})))
    BY DEF SendToAllReach
<1> DEFINE list == seen[c]
           m == Min({Listed(list), FindLimit})
<1>1. list \in Seq(People) /\ list # <<>> /\ Len(list) \in Nat
      BY DEF ReachInv, OnceInv, StageInv, TypeOK, Lists
<1>2. m \in 1 .. Len(list)
  <2>1. Listed(list) \in 1 .. Len(list)  BY <1>1, ListedIsShown
  <2>2. FindLimit \in Nat \ {0}  BY CommunicationsAssumption
  <2>3. m = IF Listed(list) <= FindLimit THEN Listed(list) ELSE FindLimit
    <3>1. Listed(list) \in Int /\ FindLimit \in Int  BY <1>1, <2>1, <2>2
    <3> QED  BY <3>1, MinOfTwo
  <2> HIDE DEF m
  <2> QED  BY <1>1, <2>1, <2>2, <2>3
<1>3. Addressed(c) = ReachOf(list)  BY DEF ReachInv, Traced, Mailing
<1>4. ReachOf(list) = At(list, 1 .. m)  BY DEF ReachOf, First
<1> HIDE DEF m, list
<1>5. ToSet(SubSeq(list, 1, m)) = At(list, 1 .. m)
  <2> DEFINE s == SubSeq(list, 1, m)
  <2>1. DOMAIN s = 1 .. m /\ \A j \in 1 .. m : s[j] = list[j]  BY <1>1, <1>2
  <2>2. ToSet(s) = At(list, 1 .. m)
    <3> HIDE DEF s
    <3> QED  BY <2>1 DEF ToSet, At
  <2> QED  BY <2>2
<1> QED  BY <1>3, <1>4, <1>5 DEF m, list

-----------------------------------------------------------------------------
(* Theorems about Communications *)

\* The state keeps its type (Communications.ts, the hooks).
THEOREM CommunicationsTypeCorrect == Spec => []TypeOK
<1>1. StageInv => TypeOK  BY DEF StageInv
<1> QED  BY <1>1, StageInit, StageStep, PTL DEF Spec

\* A request that failed mailed nobody, whatever failed and whoever came or went.
THEOREM FailuresMailNobody == Spec => []FailureMailsNobody
<1>1. StageInv => FailureMailsNobody
      BY DEF StageInv, SilentBeforeMailing, FailureMailsNobody, Mailing
<1> QED  BY <1>1, StageInit, StageStep, PTL DEF Spec

\* A request answered as created has written its document and none of its mails
\* is still on the way.
THEOREM CreatedIsSettled == Spec => []CreatedMeansSettled
<1>1. StageInv => CreatedMeansSettled  BY DEF StageInv
<1> QED  BY <1>1, StageInit, StageStep, PTL DEF Spec

\* No two messages of a communication are addressed to the same user, however many
\* pages there are and whoever moves between them, and nobody gets one who is not
\* named in tos, ccs or bccs (afterChange looks up each list once).
THEOREM MessagesAreOnePerRecipient == Spec => []OneMessagePerRecipient
BY OnceInit, OnceStep, OnceInvOnce, PTL DEF Spec

\* With sendToAll and users that stay, the mails go to the newest users: those of
\* the pages before the last and of the only page, and no more than a find without
\* a limit returns (Communications.ts, beforeValidate of tos and afterChange).
THEOREM SendToAllReaches == Spec => []SendToAllReach
BY ReachInit, ReachStep, ReachInvReaches, PTL DEF Spec

-----------------------------------------------------------------------------
(* Requests come to an end *)

\* How many steps a request that was received has left at most, when there are so many
\* people, and so many pages and mails it waits for.
LeftAt(at, people, pages, open) ==
    IF at = "page 1" THEN people + people + 8
    ELSE IF at = "pages" THEN pages + people + 7
    ELSE IF at = "write" THEN people + 6
    ELSE IF at = "parts" THEN people + 5
    ELSE IF at = "tos" THEN people + 4
    ELSE IF at = "ccs" THEN people + 3
    ELSE IF at = "bccs" THEN people + 2
    ELSE IF at = "mails" THEN open + 1
    ELSE 0
StepsLeft(c) ==
    LeftAt(stage[c], Cardinality(People), Cardinality(unread[c]), Cardinality(pending[c]))

\* A step of a request leaves it fewer, and nobody else's leaves it more: neither other
\* requests nor users that come and go.
RequestsRunDown ==
    \A c \in Comms : stage[c] # "idle" =>
        /\ StepsLeft(c)' <= StepsLeft(c)
        /\ RequestStep(c) => StepsLeft(c)' < StepsLeft(c)

UnreadIsFinite == \A c \in Comms : IsFiniteSet(unread[c])

LEMMA LeftAtIs ==
    ASSUME NEW at, NEW people \in Nat, NEW pages \in Nat, NEW open \in Nat
    PROVE  /\ LeftAt(at, people, pages, open) \in Nat
           /\ at \in Awaits => LeftAt(at, people, pages, open) >= 1
           /\ at \in Answers => LeftAt(at, people, pages, open) = 0
<1>1. at = "page 1" => LeftAt(at, people, pages, open) = people + people + 8  BY DEF LeftAt
<1>2. at = "pages" => LeftAt(at, people, pages, open) = pages + people + 7  BY DEF LeftAt
<1>3. at = "write" => LeftAt(at, people, pages, open) = people + 6  BY DEF LeftAt
<1>4. at = "parts" => LeftAt(at, people, pages, open) = people + 5  BY DEF LeftAt
<1>5. at = "tos" => LeftAt(at, people, pages, open) = people + 4  BY DEF LeftAt
<1>6. at = "ccs" => LeftAt(at, people, pages, open) = people + 3  BY DEF LeftAt
<1>7. at = "bccs" => LeftAt(at, people, pages, open) = people + 2  BY DEF LeftAt
<1>8. at = "mails" => LeftAt(at, people, pages, open) = open + 1  BY DEF LeftAt
<1>9. at \notin Awaits => LeftAt(at, people, pages, open) = 0  BY DEF LeftAt, Awaits
<1>10. ASSUME at \in Awaits
       PROVE  /\ LeftAt(at, people, pages, open) \in Nat
              /\ LeftAt(at, people, pages, open) >= 1
  <2>1. PICK n \in {people + people + 8, pages + people + 7, people + 6, people + 5, people + 4,
                    people + 3, people + 2, open + 1} : LeftAt(at, people, pages, open) = n
        BY <1>1, <1>2, <1>3, <1>4, <1>5, <1>6, <1>7, <1>8, <1>10 DEF Awaits
  <2>2. n \in Nat /\ n >= 1  OBVIOUS
  <2> QED  BY <2>1, <2>2
<1>11. at \in Answers => at \notin Awaits  BY DEF Awaits, Answers
<1> QED  BY <1>9, <1>10, <1>11

\* What a step of a request does to it.
LEMMA RequestMoves ==
    ASSUME TypeOK, NEW c \in Comms, RequestStep(c)
    PROVE  \/ stage[c] \in Awaits /\ stage'[c] \in Answers /\ unread'[c] = unread[c]
           \/ /\ stage[c] = "page 1" /\ stage'[c] = "pages"
              /\ unread'[c] = 1 .. PagesOf(users, PageLimit) - 1
           \/ /\ stage[c] = "pages" /\ stage'[c] = "pages"
              /\ \E i \in unread[c] : unread'[c] = unread[c] \ {i}
           \/ /\ <<stage[c], stage'[c]>> \in {<<"pages", "write">>, <<"write", "parts">>, <<"parts", "tos">>,
                                              <<"tos", "ccs">>, <<"ccs", "bccs">>}
              /\ unread'[c] = unread[c]
           \/ /\ stage[c] = "bccs" /\ stage'[c] = "mails" /\ pending'[c] \subseteq People
              /\ unread'[c] = unread[c]
           \/ /\ stage[c] = "mails" /\ stage'[c] = "mails" /\ unread'[c] = unread[c]
              /\ \E p \in pending[c] : pending'[c] = pending[c] \ {p}
<1> DEFINE Moves ==
           \/ stage[c] \in Awaits /\ stage'[c] \in Answers /\ unread'[c] = unread[c]
           \/ /\ stage[c] = "page 1" /\ stage'[c] = "pages"
              /\ unread'[c] = 1 .. PagesOf(users, PageLimit) - 1
           \/ /\ stage[c] = "pages" /\ stage'[c] = "pages"
              /\ \E i \in unread[c] : unread'[c] = unread[c] \ {i}
           \/ /\ <<stage[c], stage'[c]>> \in {<<"pages", "write">>, <<"write", "parts">>, <<"parts", "tos">>,
                                              <<"tos", "ccs">>, <<"ccs", "bccs">>}
              /\ unread'[c] = unread[c]
           \/ /\ stage[c] = "bccs" /\ stage'[c] = "mails" /\ pending'[c] \subseteq People
              /\ unread'[c] = unread[c]
           \/ /\ stage[c] = "mails" /\ stage'[c] = "mails" /\ unread'[c] = unread[c]
              /\ \E p \in pending[c] : pending'[c] = pending[c] \ {p}
<1>1. /\ stage \in [Comms -> {"idle"} \cup Awaits \cup Answers] /\ unread \in [Comms -> SUBSET (Nat \ {0})]
      /\ pending \in [Comms -> SUBSET People]
      BY DEF TypeOK
<1> USE DEF To, reads, delivery
<1>2. CASE ReadFirstPage(c)  BY <1>1, <1>2 DEF ReadFirstPage
<1>3. CASE CollectTos(c)  BY <1>1, <1>3 DEF CollectTos
<1>4. CASE Write(c)  BY <1>1, <1>4 DEF Write
<1>5. CASE Reject(c)  BY <1>1, <1>5 DEF Reject, Answers
<1>6. CASE \E i \in unread[c] : ReadPage(c, i)  BY <1>1, <1>6 DEF ReadPage
<1>7. CASE ReadParts(c)  BY <1>1, <1>7 DEF ReadParts
<1>8. CASE FindTos(c)
  <2>1. stage[c] = "tos" /\ unread' = unread /\ stage'[c] \in {"failed", "ccs"}  BY <1>1, <1>8 DEF FindTos
  <2> QED  BY <2>1 DEF Awaits, Answers
<1>9. CASE FindCcs(c)  BY <1>1, <1>9 DEF FindCcs, Awaits, Answers
<1>10. CASE FindBccsAndMail(c)
  <2>1. OwnType(c)'  BY <1>10, StepsKeepOwnType DEF RequestStep
  <2>2. pending'[c] \subseteq People  BY <2>1 DEF OwnType
  <2>3. stage[c] = "bccs" /\ unread' = unread /\ stage'[c] \in {"failed", "mails"}
        BY <1>1, <1>10 DEF FindBccsAndMail
  <2> QED  BY <2>2, <2>3 DEF Awaits, Answers
<1>11. CASE Answer(c)  BY <1>1, <1>11 DEF Answer, Awaits, Answers
<1>12. CASE \E p \in pending[c] : MailSettles(c, p)  BY <1>1, <1>12 DEF MailSettles
<1> QED  BY <1>2, <1>3, <1>4, <1>5, <1>6, <1>7, <1>8, <1>9, <1>10, <1>11, <1>12 DEF RequestStep

\* There are no more pages than users, and no more users than people.
LEMMA PagesAreFew ==
    ASSUME TypeOK
    PROVE  /\ Cardinality(People) \in Nat
           /\ IsFiniteSet(1 .. PagesOf(users, PageLimit) - 1)
           /\ Cardinality(1 .. PagesOf(users, PageLimit) - 1) \in 0 .. Cardinality(People)
<1> DEFINE q == PagesOf(users, PageLimit)
           n == Len(users)
<1>1. users \in Seq(People) /\ IsInjective(users) /\ n \in Nat /\ DOMAIN users = 1 .. n
      BY DEF TypeOK, Lists
<1>2. PageLimit \in Nat \ {0} /\ IsFiniteSet(People)  BY CommunicationsAssumption
<1>3. n <= Cardinality(People) /\ Cardinality(People) \in Nat
  <2>1. users \in Injection(1 .. n, People)
        BY <1>1 DEF Injection, IsInjective
  <2>2. Cardinality(1 .. n) <= Cardinality(People)  BY <2>1, <1>2, FS_Injection
  <2>3. Cardinality(1 .. n) = n  BY <1>1, FS_Interval
  <2> QED  BY <2>2, <2>3, <1>2, FS_CardinalityType
<1>4. q \in Int /\ q - 1 <= n
  <2>1. CASE users = <<>>
    <3>1. q = (0 + PageLimit - 1) \div PageLimit  BY <2>1 DEF PagesOf
    <3>2. q \in Int /\ q * PageLimit <= PageLimit - 1  BY <1>2, <3>1, Quotient
    <3> HIDE DEF q
    <3>3. q >= 1 => q * PageLimit >= PageLimit  BY <1>2, <3>2
    <3> QED  BY <1>1, <1>2, <3>2, <3>3
  <2>2. CASE users # <<>>
    <3>1. q \in Nat \ {0} /\ (q - 1) * PageLimit < n  BY <1>1, <1>2, <2>2, PagesFit
    <3> HIDE DEF q
    <3>2. (q - 1) * PageLimit >= q - 1  BY <1>2, <3>1
    <3> QED  BY <1>1, <1>2, <3>1, <3>2
  <2> QED  BY <2>1, <2>2
<1> HIDE DEF q, n
<1>5. IsFiniteSet(1 .. q - 1) /\ Cardinality(1 .. q - 1) = IF 1 > q - 1 THEN 0 ELSE q - 1
      BY <1>4, FS_Interval
<1> QED  BY <1>1, <1>3, <1>4, <1>5 DEF q

LEMMA UnreadStep == TypeOK /\ UnreadIsFinite /\ [Next]_vars => UnreadIsFinite'
<1> SUFFICES ASSUME TypeOK, UnreadIsFinite, [Next]_vars, NEW d \in Comms PROVE IsFiniteSet(unread'[d])
    BY DEF UnreadIsFinite
<1>1. IsFiniteSet(unread[d])  BY DEF UnreadIsFinite
<1>2. ASSUME NEW c \in Comms, RequestStep(c) PROVE IsFiniteSet(unread'[d])
  <2>1. CASE d = c
    <3>1. \/ unread'[d] = unread[d]
          \/ unread'[d] = 1 .. PagesOf(users, PageLimit) - 1
          \/ \E i \in unread[d] : unread'[d] = unread[d] \ {i}
          BY <1>2, <2>1, RequestMoves
    <3> QED  BY <3>1, <1>1, PagesAreFew, FS_RemoveElement
  <2>2. CASE d # c
    <3>1. unread'[d] = unread[d]  BY <1>2, <2>2, StepsAreOwn DEF Own, OwnOf, TypeOK
    <3> QED  BY <3>1, <1>1
  <2> QED  BY <2>1, <2>2
<1>3. ASSUME NEW c \in Comms, Receive(c) PROVE IsFiniteSet(unread'[d])
      BY <1>1, <1>3 DEF Receive, reads
<1>4. ASSUME NEW p \in People, CreateUser(p) \/ DeleteUser(p) PROVE IsFiniteSet(unread'[d])
      BY <1>1, <1>4 DEF CreateUser, DeleteUser
<1>5. CASE UNCHANGED vars  BY <1>1, <1>5 DEF vars, reads
<1> QED  BY <1>2, <1>3, <1>4, <1>5 DEF Next

LEMMA SizesAre ==
    ASSUME TypeOK, UnreadIsFinite, NEW c \in Comms
    PROVE  /\ Cardinality(People) \in Nat /\ IsFiniteSet(People)
           /\ IsFiniteSet(unread[c]) /\ Cardinality(unread[c]) \in Nat
           /\ IsFiniteSet(pending[c]) /\ Cardinality(pending[c]) \in 0 .. Cardinality(People)
           /\ StepsLeft(c) \in Nat
<1>1. IsFiniteSet(unread[c]) /\ Cardinality(unread[c]) \in Nat  BY FS_CardinalityType DEF UnreadIsFinite
<1>2. IsFiniteSet(People) /\ Cardinality(People) \in Nat  BY CommunicationsAssumption, FS_CardinalityType
<1>3. pending[c] \subseteq People  BY DEF TypeOK
<1>4. IsFiniteSet(pending[c]) /\ Cardinality(pending[c]) \in 0 .. Cardinality(People)
      BY <1>2, <1>3, FS_Subset, FS_CardinalityType
<1>5. StepsLeft(c) \in Nat
  <2>1. Cardinality(pending[c]) \in Nat  BY <1>2, <1>4
  <2> QED  BY <1>1, <1>2, <2>1, LeftAtIs DEF StepsLeft
<1> QED  BY <1>1, <1>2, <1>4, <1>5

LEMMA StepsRunDown ==
    ASSUME TypeOK, UnreadIsFinite, TypeOK', UnreadIsFinite', NEW c \in Comms, RequestStep(c)
    PROVE  StepsLeft(c)' < StepsLeft(c)
<1> DEFINE N == Cardinality(People)
           pages == Cardinality(unread[c])
           pages_ == Cardinality(unread'[c])
           open == Cardinality(pending[c])
           open_ == Cardinality(pending'[c])
<1>1. /\ N \in Nat /\ pages \in Nat /\ open \in Nat /\ open <= N
      /\ IsFiniteSet(unread[c]) /\ IsFiniteSet(pending[c])
      BY SizesAre
<1>2. pages_ \in Nat /\ open_ \in Nat /\ open_ <= N
  <2>1. ASSUME TypeOK', UnreadIsFinite'
        PROVE  pages_ \in Nat /\ open_ \in 0 .. N
    <3>1. IsFiniteSet(unread'[c]) /\ pending'[c] \subseteq People  BY <2>1 DEF UnreadIsFinite, TypeOK
    <3>2. IsFiniteSet(People)  BY CommunicationsAssumption
    <3> QED  BY <3>1, <3>2, FS_Subset, FS_CardinalityType
  <2> QED  BY <1>1, <2>1
<1>3. /\ StepsLeft(c) = LeftAt(stage[c], N, pages, open)
      /\ StepsLeft(c)' = LeftAt(stage'[c], N, pages_, open_)
      BY DEF StepsLeft
<1>4. CASE stage[c] \in Awaits /\ stage'[c] \in Answers
  <2> HIDE DEF N, pages, pages_, open, open_
  <2>1. LeftAt(stage[c], N, pages, open) >= 1 /\ LeftAt(stage[c], N, pages, open) \in Nat
        BY <1>1, <1>4, LeftAtIs
  <2>2. LeftAt(stage'[c], N, pages_, open_) = 0  BY <1>1, <1>2, <1>4, LeftAtIs
  <2> QED  BY <1>3, <2>1, <2>2
<1>5. CASE stage[c] = "page 1" /\ stage'[c] = "pages" /\ unread'[c] = 1 .. PagesOf(users, PageLimit) - 1
  <2>1. Cardinality(1 .. PagesOf(users, PageLimit) - 1) \in 0 .. N  BY PagesAreFew
  <2>2. pages_ <= N
    <3>1. unread'[c] = 1 .. PagesOf(users, PageLimit) - 1  BY <1>5
    <3>2. pages_ \in 0 .. N  BY <2>1, <3>1
    <3> HIDE DEF N, pages_
    <3> QED  BY <1>1, <3>2
  <2> HIDE DEF N, pages, pages_, open, open_
  <2>3. LeftAt(stage[c], N, pages, open) = N + N + 8  BY <1>5 DEF LeftAt
  <2>4. LeftAt(stage'[c], N, pages_, open_) = pages_ + N + 7  BY <1>5 DEF LeftAt
  <2> QED  BY <1>1, <1>2, <1>3, <2>2, <2>3, <2>4
<1>6. CASE /\ stage[c] = "pages" /\ stage'[c] = "pages"
           /\ \E i \in unread[c] : unread'[c] = unread[c] \ {i}
  <2>1. pages_ = pages - 1  BY <1>1, <1>6, FS_RemoveElement
  <2> HIDE DEF N, pages, pages_, open, open_
  <2> QED  BY <1>1, <1>2, <1>3, <1>6, <2>1 DEF LeftAt
<1>7. CASE <<stage[c], stage'[c]>> \in {<<"pages", "write">>, <<"write", "parts">>, <<"parts", "tos">>,
                                        <<"tos", "ccs">>, <<"ccs", "bccs">>}
  <2> HIDE DEF N, pages, pages_, open, open_
  <2>1. CASE stage[c] = "pages" /\ stage'[c] = "write"
    <3>1. LeftAt(stage[c], N, pages, open) = pages + N + 7  BY <2>1 DEF LeftAt
    <3>2. LeftAt(stage'[c], N, pages_, open_) = N + 6  BY <2>1 DEF LeftAt
    <3> QED  BY <1>1, <1>3, <3>1, <3>2
  <2>2. CASE stage[c] = "write" /\ stage'[c] = "parts"
    <3>1. LeftAt(stage[c], N, pages, open) = N + 6  BY <2>2 DEF LeftAt
    <3>2. LeftAt(stage'[c], N, pages_, open_) = N + 5  BY <2>2 DEF LeftAt
    <3> QED  BY <1>1, <1>3, <3>1, <3>2
  <2>3. CASE stage[c] = "parts" /\ stage'[c] = "tos"
    <3>1. LeftAt(stage[c], N, pages, open) = N + 5  BY <2>3 DEF LeftAt
    <3>2. LeftAt(stage'[c], N, pages_, open_) = N + 4  BY <2>3 DEF LeftAt
    <3> QED  BY <1>1, <1>3, <3>1, <3>2
  <2>4. CASE stage[c] = "tos" /\ stage'[c] = "ccs"
    <3>1. LeftAt(stage[c], N, pages, open) = N + 4  BY <2>4 DEF LeftAt
    <3>2. LeftAt(stage'[c], N, pages_, open_) = N + 3  BY <2>4 DEF LeftAt
    <3> QED  BY <1>1, <1>3, <3>1, <3>2
  <2>5. CASE stage[c] = "ccs" /\ stage'[c] = "bccs"
    <3>1. LeftAt(stage[c], N, pages, open) = N + 3  BY <2>5 DEF LeftAt
    <3>2. LeftAt(stage'[c], N, pages_, open_) = N + 2  BY <2>5 DEF LeftAt
    <3> QED  BY <1>1, <1>3, <3>1, <3>2
  <2> QED  BY <1>7, <2>1, <2>2, <2>3, <2>4, <2>5
<1>8. CASE stage[c] = "bccs" /\ stage'[c] = "mails"
  <2> HIDE DEF N, pages, pages_, open, open_
  <2> QED  BY <1>1, <1>2, <1>3, <1>8 DEF LeftAt
<1>9. CASE /\ stage[c] = "mails" /\ stage'[c] = "mails"
           /\ \E p \in pending[c] : pending'[c] = pending[c] \ {p}
  <2>1. open_ = open - 1  BY <1>1, <1>9, FS_RemoveElement
  <2> HIDE DEF N, pages, pages_, open, open_
  <2> QED  BY <1>1, <1>2, <1>3, <1>9, <2>1 DEF LeftAt
<1> QED  BY <1>4, <1>5, <1>6, <1>7, <1>8, <1>9, RequestMoves

\* A request that was received is over after at most so many steps of its own as twice
\* the people and eight, whatever other requests do and whoever comes and goes: with
\* the fairness of the event loop, which the prover has no rule for, that is why every
\* request is answered (Communications.ts).
THEOREM RequestsAlwaysRunDown == Spec => [][RequestsRunDown]_vars
<1>1. Init => UnreadIsFinite
      BY FS_EmptySet DEF Init, UnreadIsFinite
<1>2. ASSUME TypeOK, UnreadIsFinite, [Next]_vars PROVE RequestsRunDown
  <2> SUFFICES ASSUME NEW d \in Comms, stage[d] # "idle" PROVE
               /\ StepsLeft(d)' <= StepsLeft(d)
               /\ RequestStep(d) => StepsLeft(d)' < StepsLeft(d)
      BY DEF RequestsRunDown
  <2>0. /\ TypeOK' /\ UnreadIsFinite'
        /\ StepsLeft(d) \in Nat /\ StepsLeft(d)' \in Nat
    <3>1. TypeOK' /\ UnreadIsFinite'  BY <1>2, TypeStep, UnreadStep
    <3>2. StepsLeft(d)' \in Nat
      <4>1. IsFiniteSet(unread'[d]) /\ pending'[d] \subseteq People  BY <3>1 DEF UnreadIsFinite, TypeOK
      <4>2. IsFiniteSet(People)  BY CommunicationsAssumption
      <4>3. Cardinality(People) \in Nat /\ Cardinality(unread'[d]) \in Nat /\ Cardinality(pending'[d]) \in Nat
            BY <4>1, <4>2, FS_Subset, FS_CardinalityType
      <4> QED  BY <4>3, LeftAtIs DEF StepsLeft
    <3> QED  BY <1>2, <3>1, <3>2, SizesAre
  <2>1. RequestStep(d) => StepsLeft(d)' < StepsLeft(d)  BY <1>2, <2>0, StepsRunDown
  <2>2. UNCHANGED <<stage[d], unread[d], pending[d]>> => StepsLeft(d)' = StepsLeft(d)
        BY DEF StepsLeft
  <2>3. RequestStep(d) \/ UNCHANGED <<stage[d], unread[d], pending[d]>>
    <3>1. ASSUME NEW c \in Comms, c # d, Receive(c) \/ RequestStep(c)
          PROVE  UNCHANGED <<stage[d], unread[d], pending[d]>>
          BY <1>2, <3>1, StepsAreOwn DEF Own, OwnOf, TypeOK
    <3>2. ~Receive(d)  BY DEF Receive
    <3>3. ASSUME NEW p \in People, CreateUser(p) \/ DeleteUser(p)
          PROVE  UNCHANGED <<stage[d], unread[d], pending[d]>>
          BY <3>3 DEF CreateUser, DeleteUser, delivery
    <3>4. UNCHANGED vars => UNCHANGED <<stage[d], unread[d], pending[d]>>
          BY DEF vars, reads, delivery
    <3> QED  BY <1>2, <3>1, <3>2, <3>3, <3>4 DEF Next
  <2> QED  BY <2>0, <2>1, <2>2, <2>3
<1> QED  BY <1>1, <1>2, TypeInit, TypeStep, UnreadStep, PTL DEF Spec

-----------------------------------------------------------------------------
(* Photos *)

\* A save that has looked up its photo m found an address of one of m's files, or
\* none, and then m is blank for its user.
SaveFits(q) ==
    LET u == q.user
    IN /\ q.sees = IF q.photo = Kept THEN None ELSE q.photo
       /\ q.sees # None => q.sees \in chosen[u]
       /\ q.url \notin {None, Kept} =>
            /\ q.photo # Kept
            /\ owner[q.url[1]] \in chosen[u]
            /\ q.at = "write" => Fit(u, q.photo, q.url)
       /\ (q.at = "write" /\ q.url \in {None, Kept} /\ q.photo \notin {None, Kept}) =>
            q.photo \in blank[u]

\* The file of a media document is its own.
FilesAreOwned == \A m \in Media : file[m] # None => owner[file[m]] = m

ChosenArePhotos == \A u \in Users : user[u].photo # None => user[u].photo \in chosen[u]

PhotosInv ==
    /\ PhotosTypeOK
    /\ FilesAreOwned
    /\ ChosenArePhotos
    /\ PhotoUrlIsExplained
    /\ \A r \in Requests : request[r] # None => SaveFits(request[r])
-----------------------------------------------------------------------------
\* The address of a file is the file's own.
LEMMA UrlOfFile ==
    ASSUME NEW f \in Files, UrlOf(f) # None
    PROVE  UrlOf(f) \in Urls /\ UrlOf(f)[1] = f /\ UrlOf(f) # Kept
<1> UrlOf(f) \in {<<f, "profile">>, <<f, "thumbnail">>, <<f, "original">>}
    BY DEF UrlOf
<1> QED
    BY PhotosAssumption DEF Urls

LEMMA PhotosInvInit == PhotosInit => PhotosInv
BY PhotosAssumption, SMTT(30)
DEF PhotosInit, PhotosInv, PhotosTypeOK, FilesAreOwned, ChosenArePhotos, PhotoUrlIsExplained, Fit

\* A step that lets files keep their owners and the histories grow keeps what
\* belongs together together.
LEMMA FitLasts ==
    ASSUME PhotosTypeOK, NEW u \in Users, NEW p, NEW url \in Urls \cup {None}, Fit(u, p, url),
           \A f \in Files : owner[f] # None => owner'[f] = owner[f],
           chosen[u] \subseteq chosen'[u], blank[u] \subseteq blank'[u]
    PROVE  Fit(u, p, url)'
BY PhotosAssumption DEF Fit, PhotosTypeOK, Urls

LEMMA SaveFitsLasts ==
    ASSUME PhotosTypeOK, NEW q \in Pending, SaveFits(q),
           \A f \in Files : owner[f] # None => owner'[f] = owner[f],
           \A u \in Users : chosen[u] \subseteq chosen'[u] /\ blank[u] \subseteq blank'[u]
    PROVE  SaveFits(q)'
<1> DEFINE u == q.user
<1>1. /\ u \in Users /\ q.url \in Urls \cup {None, Kept}
      /\ chosen[u] \subseteq chosen'[u] /\ blank[u] \subseteq blank'[u]
    BY DEF Pending
<1>2. q.url \notin {None, Kept} => owner'[q.url[1]] = owner[q.url[1]]
    BY <1>1, PhotosAssumption DEF SaveFits, PhotosTypeOK, Urls
<1> QED
    BY <1>1, <1>2 DEF SaveFits, Fit

LEMMA UploadInvariant ==
    ASSUME PhotosInv, NEW m \in Media, NEW f \in Files, Upload(m, f)
    PROVE  PhotosInv'
<1>1. \A g \in Files : owner[g] # None => owner'[g] = owner[g]
    BY DEF Upload, PhotosInv, PhotosTypeOK
<1>2. PhotosTypeOK' /\ ChosenArePhotos'
    BY DEF Upload, PhotosInv, PhotosTypeOK, ChosenArePhotos
<1>3. FilesAreOwned'
    <2> SUFFICES ASSUME NEW n \in Media, file'[n] # None
                 PROVE  owner'[file'[n]] = n
        BY DEF FilesAreOwned
    <2>1. CASE n = m
        BY <2>1, PhotosAssumption DEF Upload, PhotosInv, PhotosTypeOK
    <2>2. CASE n # m
        BY <2>2, PhotosAssumption DEF Upload, PhotosInv, PhotosTypeOK, FilesAreOwned
    <2> QED
        BY <2>1, <2>2
<1>4. PhotoUrlIsExplained'
    BY <1>1, FitLasts DEF Upload, PhotosInv, PhotosTypeOK, PhotoUrlIsExplained
<1>5. \A r \in Requests : request'[r] # None => SaveFits(request[r])'
    BY <1>1, SaveFitsLasts DEF Upload, PhotosInv, PhotosTypeOK
<1> QED
    BY <1>2, <1>3, <1>4, <1>5 DEF PhotosInv, Upload

LEMMA RemoveInvariant ==
    ASSUME PhotosInv, NEW m \in Media, RemoveMedia(m)
    PROVE  PhotosInv'
BY PhotosAssumption
DEF RemoveMedia, PhotosInv, PhotosTypeOK, FilesAreOwned, ChosenArePhotos, PhotoUrlIsExplained, Fit, SaveFits

LEMMA BeginInvariant ==
    ASSUME PhotosInv, NEW r \in Requests, NEW u \in Users, NEW p \in Media \cup {None, Kept},
           BeginSave(r, u, p)
    PROVE  PhotosInv'
<1>1. PICK merged \in BOOLEAN :
        LET photo == IF merged /\ p = Kept THEN user[u].photo ELSE p
        IN request' = [request EXCEPT ![r] =
             [at |-> "hook", user |-> u, photo |-> photo,
              url |-> IF merged THEN user[u].url ELSE Kept, sees |-> Sees(u, photo)]]
    BY DEF BeginSave
<1>q. PICK q : q = request'[r]
    OBVIOUS
<1>2. \A v \in Users : chosen[v] \subseteq chosen'[v] /\ chosen'[v] \subseteq Media
    BY DEF BeginSave, PhotosInv, PhotosTypeOK
<1>3. q \in Pending /\ q.at = "hook" /\ q.user = u
    BY <1>1, <1>q, PhotosAssumption DEF Sees, Pending, PhotosInv, PhotosTypeOK
<1>4. SaveFits(q)'
    <2>1. q.photo \notin {None, Kept} => q.photo \in chosen'[u]
        BY <1>1, <1>q, <1>2, PhotosAssumption DEF BeginSave, PhotosInv, PhotosTypeOK, ChosenArePhotos
    <2>2. q.url \notin {None, Kept} => q.photo # Kept /\ owner[q.url[1]] \in chosen'[u]
        BY <1>1, <1>q, <1>2, PhotosAssumption
        DEF BeginSave, PhotosInv, PhotosTypeOK, PhotoUrlIsExplained, Fit
    <2>3. q.sees = IF q.photo = Kept THEN None ELSE q.photo
        BY <1>1, <1>q DEF Sees, PhotosInv, PhotosTypeOK
    <2> QED
        BY <1>3, <2>1, <2>2, <2>3, PhotosAssumption DEF SaveFits, BeginSave
<1>5. \A s \in Requests : request'[s] # None => SaveFits(request[s])'
    <2> SUFFICES ASSUME NEW s \in Requests, request'[s] # None
                 PROVE  SaveFits(request[s])'
        OBVIOUS
    <2>1. CASE s = r
        BY <1>q, <1>4, <2>1 DEF SaveFits, Fit
    <2>2. CASE s # r
        <3>1. request'[s] = request[s] /\ request[s] \in Pending /\ SaveFits(request[s])
            BY <1>1, <2>2 DEF PhotosInv, PhotosTypeOK
        <3> QED
            BY <1>2, <3>1, SaveFitsLasts DEF BeginSave, PhotosInv, SaveFits, Fit
    <2> QED
        BY <2>1, <2>2
<1>6. PhotosTypeOK'
    BY <1>1, <1>q, <1>2, <1>3 DEF BeginSave, PhotosInv, PhotosTypeOK
<1>7. PhotoUrlIsExplained'
    BY <1>2, FitLasts DEF BeginSave, PhotosInv, PhotosTypeOK, PhotoUrlIsExplained
<1>8. FilesAreOwned' /\ ChosenArePhotos'
    BY <1>2 DEF BeginSave, PhotosInv, FilesAreOwned, ChosenArePhotos
<1> QED
    BY <1>5, <1>6, <1>7, <1>8 DEF PhotosInv

\* The hook of r has run: the rest of the state has not changed, but for blank.
LEMMA GoesInvariant ==
    ASSUME PhotosInv, NEW r \in Requests, request[r] # None, request[r].at = "hook",
           NEW url \in Urls \cup {None}, Goes(r, url), UNCHANGED <<file, user, owner, chosen>>,
           blank' \in [Users -> SUBSET Media], \A u \in Users : blank[u] \subseteq blank'[u],
           url # None => url # Kept /\ request[r].sees # None /\ owner[url[1]] = request[r].sees,
           url = None /\ request[r].sees # None => request[r].sees \in blank'[request[r].user]
    PROVE  PhotosInv'
<1>q. PICK q : q = request[r]
    OBVIOUS
<1>n. PICK n : n = request'[r]
    OBVIOUS
<1>1. q \in Pending /\ q.at = "hook" /\ SaveFits(q)
    BY <1>q DEF PhotosInv, PhotosTypeOK
<1>2. n = [q EXCEPT !.at = "write", !.url = IF url = None THEN @ ELSE url]
    BY <1>q, <1>n DEF Goes, PhotosInv, PhotosTypeOK
<1>3. n \in Pending /\ n.user = q.user /\ n.photo = q.photo /\ n.sees = q.sees /\ n.at = "write"
    BY <1>1, <1>2 DEF Pending
<1>4. SaveFits(n)'
    <2>1. CASE url = None
        BY <1>q, <1>1, <1>2, <1>3, <2>1, PhotosAssumption DEF SaveFits, Fit, Pending
    <2>2. CASE url # None
        <3>1. n.url = url /\ n.photo = n.sees /\ n.sees \in chosen[n.user]
            BY <1>q, <1>1, <1>2, <1>3, <2>2 DEF SaveFits, Pending
        <3> QED
            BY <1>q, <1>1, <1>3, <2>2, <3>1, PhotosAssumption DEF SaveFits, Fit, Pending
    <2> QED
        BY <2>1, <2>2
<1>5. \A s \in Requests : request'[s] # None => SaveFits(request[s])'
    <2> SUFFICES ASSUME NEW s \in Requests, request'[s] # None
                 PROVE  SaveFits(request[s])'
        OBVIOUS
    <2>1. CASE s = r
        BY <1>n, <1>4, <2>1 DEF SaveFits, Fit
    <2>2. CASE s # r
        <3>1. request'[s] = request[s] /\ request[s] \in Pending /\ SaveFits(request[s])
            BY <2>2 DEF Goes, PhotosInv, PhotosTypeOK
        <3> QED
            BY <3>1, SaveFitsLasts DEF PhotosInv, SaveFits, Fit
    <2> QED
        BY <2>1, <2>2
<1>6. PhotosTypeOK'
    BY <1>n, <1>3 DEF Goes, PhotosInv, PhotosTypeOK
<1>7. PhotoUrlIsExplained'
    BY FitLasts DEF PhotosInv, PhotosTypeOK, PhotoUrlIsExplained
<1> QED
    BY <1>5, <1>6, <1>7 DEF PhotosInv, FilesAreOwned, ChosenArePhotos

LEMMA LookupInvariant ==
    ASSUME PhotosInv, NEW r \in Requests, SkipLookup(r) \/ Lookup(r)
    PROVE  PhotosInv'
<1>1. CASE SkipLookup(r)
    BY <1>1, GoesInvariant DEF SkipLookup, PhotosInv, PhotosTypeOK
<1>2. CASE Lookup(r)
    <2>1. request[r] # None /\ request[r].at = "hook" /\ request[r] \in Pending
        BY <1>2 DEF Lookup, PhotosInv, PhotosTypeOK
    <2> DEFINE m == request[r].sees
               url == IF file[m] = None THEN None ELSE UrlOf(file[m])
    <2>2. m \in Media
        BY <1>2, <2>1 DEF Lookup, Pending
    <2>3. url # None => url \in Urls /\ url # Kept /\ owner[url[1]] = m
        BY <2>2, UrlOfFile DEF PhotosInv, PhotosTypeOK, FilesAreOwned
    <2>4. /\ blank' \in [Users -> SUBSET Media]
          /\ \A u \in Users : blank[u] \subseteq blank'[u]
          /\ url = None => m \in blank'[request[r].user]
        BY <1>2, <2>1, <2>2 DEF Lookup, PhotosInv, PhotosTypeOK, Pending
    <2>5. Goes(r, url) /\ UNCHANGED <<file, user, owner, chosen>> /\ m # None
        BY <1>2 DEF Lookup
    <2> HIDE DEF url
    <2> QED
        BY <2>1, <2>3, <2>4, <2>5, GoesInvariant
<1> QED
    BY <1>1, <1>2

LEMMA LookupFailsInvariant ==
    ASSUME PhotosInv, NEW r \in Requests, LookupFails(r)
    PROVE  PhotosInv'
BY DEF LookupFails, PhotosInv, PhotosTypeOK, FilesAreOwned, ChosenArePhotos, PhotoUrlIsExplained, Fit, SaveFits

LEMMA WriteInvariant ==
    ASSUME PhotosInv, NEW r \in Requests, WriteUser(r)
    PROVE  PhotosInv'
<1> DEFINE q == request[r]
           u == q.user
<1>1. q \in Pending /\ q.at = "write" /\ SaveFits(q) /\ u \in Users
    BY DEF WriteUser, PhotosInv, PhotosTypeOK, Pending
<1>2. user' = [user EXCEPT ![u] = [photo |-> IF q.photo = Kept THEN user[u].photo ELSE q.photo,
                                   url |-> IF q.url = Kept THEN user[u].url ELSE q.url]]
    BY DEF WriteUser, PhotosInv, PhotosTypeOK
<1>3. UNCHANGED <<file, owner, chosen, blank>> /\ request' = [request EXCEPT ![r] = None]
    BY DEF WriteUser
<1>4. PhotosTypeOK'
    BY <1>1, <1>2, <1>3 DEF PhotosInv, PhotosTypeOK, Pending
<1>5. user'[u].photo # None => user'[u].photo \in chosen[u]
    BY <1>1, <1>2 DEF PhotosInv, PhotosTypeOK, ChosenArePhotos, SaveFits, Pending
<1>6. Fit(u, user'[u].photo, user'[u].url)
    <2>1. user'[u].photo = (IF q.photo = Kept THEN user[u].photo ELSE q.photo)
          /\ user'[u].url = (IF q.url = Kept THEN user[u].url ELSE q.url)
        BY <1>1, <1>2 DEF PhotosInv, PhotosTypeOK
    <2>2. Fit(u, user[u].photo, user[u].url)
        BY <1>1 DEF PhotosInv, PhotoUrlIsExplained
    <2>3. CASE q.url = None
        BY <2>1, <2>3, PhotosAssumption DEF Fit
    <2>4. CASE q.url = Kept
        BY <1>1, <2>1, <2>2, <2>4, PhotosAssumption DEF Fit, SaveFits
    <2>5. CASE q.url \notin {None, Kept}
        BY <1>1, <2>1, <2>5 DEF SaveFits
    <2> QED
        BY <2>3, <2>4, <2>5
<1>7. ChosenArePhotos' /\ PhotoUrlIsExplained'
    BY <1>1, <1>2, <1>3, <1>5, <1>6 DEF PhotosInv, PhotosTypeOK, ChosenArePhotos, PhotoUrlIsExplained, Fit
<1>8. FilesAreOwned' /\ \A s \in Requests : request'[s] # None => SaveFits(request[s])'
    BY <1>3 DEF PhotosInv, PhotosTypeOK, FilesAreOwned, SaveFits, Fit
<1> QED
    BY <1>4, <1>7, <1>8 DEF PhotosInv

LEMMA PhotosInvStep == PhotosInv /\ [PhotosNext]_photoVars => PhotosInv'
<1> SUFFICES ASSUME PhotosInv, [PhotosNext]_photoVars
             PROVE  PhotosInv'
    OBVIOUS
<1>1. CASE \E r \in Requests : SaveStep(r)
    BY <1>1, BeginInvariant, LookupInvariant, LookupFailsInvariant, WriteInvariant DEF SaveStep
<1>2. CASE \E m \in Media : MediaStep(m)
    BY <1>2, UploadInvariant, RemoveInvariant DEF MediaStep
<1>3. CASE UNCHANGED photoVars
    BY <1>3 DEF photoVars, PhotosInv, PhotosTypeOK, FilesAreOwned, ChosenArePhotos, PhotoUrlIsExplained,
                Fit, SaveFits
<1> QED
    BY <1>1, <1>2, <1>3 DEF PhotosNext

THEOREM PhotosInvHolds == PhotosSpec => []PhotosInv
BY PhotosInvInit, PhotosInvStep, PTL DEF PhotosSpec

\* The state keeps its type (Users.ts, the hook of photo_url).
THEOREM PhotosTypeCorrect == PhotosSpec => []PhotosTypeOK
<1> PhotosInv => PhotosTypeOK
    BY DEF PhotosInv
<1> QED
    BY PhotosInvHolds, PTL

\* The address of a user's photo is of a file of that photo, unless the photo was
\* taken away or had no address, however the saves of users, the uploads and the
\* deletes of media documents interleave (Users.ts, the hook of photo_url).
THEOREM PhotoUrlAlwaysExplained == PhotosSpec => []PhotoUrlIsExplained
<1> PhotosInv => PhotoUrlIsExplained
    BY DEF PhotosInv
<1> QED
    BY PhotosInvHolds, PTL
-----------------------------------------------------------------------------
(* Slugs *)

\* The characters that Slugify takes out are gone and all others are there.
LEMMA WithoutIs ==
    ASSUME NEW S, NEW s \in Seq(S), NEW cs
    PROVE  Without(s, cs) \in Seq(S \ cs) /\ ToSet(Without(s, cs)) = ToSet(s) \ cs
<1> DEFINE I == {i \in DOMAIN s : s[i] \notin cs}
           t == Without(s, cs)
<1>1. I \in SUBSET DOMAIN s /\ t = Picked(s, I)  BY DEF Without
<1>2. t \in Seq(S) /\ {t[n] : n \in DOMAIN t} = {s[i] : i \in I}
  <2> HIDE DEF I, t
  <2>1. Picked(s, I) \in Seq(S)  BY <1>1, PickedType
  <2>2. {Picked(s, I)[n] : n \in DOMAIN Picked(s, I)} = {s[i] : i \in I}  BY <1>1, PickedElements
  <2> QED  BY <1>1, <2>1, <2>2
<1>3. {s[i] : i \in I} = ToSet(s) \ cs  BY DEF ToSet
<1>4. ToSet(t) = ToSet(s) \ cs  BY <1>2, <1>3 DEF ToSet
<1>5. \A n \in 1 .. Len(t) : t[n] \in S \ cs
  <2>1. \A n \in 1 .. Len(t) : t[n] \in S /\ t[n] \in ToSet(t)  BY <1>2 DEF ToSet
  <2> QED  BY <2>1, <1>4
<1>6. t \in Seq(S \ cs)
  <2> HIDE DEF t
  <2> QED  BY <1>2, <1>5, IsASeq
<1> QED  BY <1>4, <1>6

LEMMA MappedIs ==
    ASSUME NEW S, NEW s \in Seq(S), NEW c, NEW d
    PROVE  /\ Mapped(s, c, d) \in Seq((S \ {c}) \cup {d})
           /\ ToSet(s) \ {c} \subseteq ToSet(Mapped(s, c, d))
           /\ c \in ToSet(s) => d \in ToSet(Mapped(s, c, d))
<1>1. DOMAIN s = 1 .. Len(s) /\ Len(s) \in Nat /\ \A i \in 1 .. Len(s) : s[i] \in S  OBVIOUS
<1> QED  BY <1>1, IsASeq DEF Mapped, ToSet

LEMMA TrimIs ==
    ASSUME NEW S, NEW s \in Seq(S), NEW c
    PROVE  Trim(s, c) \in Seq(S) /\ ToSet(s) \ {c} \subseteq ToSet(Trim(s, c))
<1> DEFINE I == {i \in DOMAIN s : s[i] # c}
<1>1. DOMAIN s = 1 .. Len(s) /\ Len(s) \in Nat  OBVIOUS
<1>2. CASE I = {}
  <2>1. Trim(s, c) = <<>>  BY <1>2 DEF Trim
  <2> QED  BY <2>1, <1>2 DEF ToSet
<1>3. CASE I # {}
  <2> DEFINE a == Min(I)
             b == Max(I)
             t == SubSeq(s, a, b)
  <2>1. I \in SUBSET (1 .. Len(s)) /\ I \in SUBSET Nat  BY <1>1
  <2>2. a \in I /\ b \in I /\ \A i \in I : a <= i /\ i <= b
        BY <1>1, <1>3, <2>1, LeastElement, GreatestElement
  <2>3. Trim(s, c) = t  BY <1>3 DEF Trim
  <2> HIDE DEF a, b
  <2>4. a \in 1 .. Len(s) /\ b \in 1 .. Len(s) /\ a <= b  BY <2>1, <2>2
  <2>5. t \in Seq(S) /\ Len(t) = b - a + 1 /\ \A n \in 1 .. b - a + 1 : t[n] = s[a + n - 1]
        BY <2>4
  <2>6. ASSUME NEW i \in I PROVE s[i] \in ToSet(t)
    <3>1. i \in 1 .. Len(s) /\ a <= i /\ i <= b  BY <2>1, <2>2
    <3>2. i - a + 1 \in 1 .. b - a + 1 /\ a + (i - a + 1) - 1 = i  BY <3>1, <2>4
    <3>3. i - a + 1 \in DOMAIN t /\ t[i - a + 1] = s[i]  BY <3>2, <2>5
    <3> QED  BY <3>3 DEF ToSet
  <2>7. ToSet(s) \ {c} = {s[i] : i \in I}  BY DEF ToSet
  <2> QED  BY <2>3, <2>5, <2>6, <2>7
<1> QED  BY <1>2, <1>3

\* No c follows another.
NoRuns(s, c) == \A i \in 1 .. Len(s) : \A j \in 1 .. Len(s) : ~(j = i + 1 /\ s[i] = c /\ s[j] = c)

LEMMA SqueezeIs ==
    ASSUME NEW S, NEW s \in Seq(S), NEW c
    PROVE  /\ Squeeze(s, c) \in Seq(S)
           /\ ToSet(s) \ {c} \subseteq ToSet(Squeeze(s, c))
           /\ NoRuns(Squeeze(s, c), c)
<1> DEFINE I == {i \in DOMAIN s : ~(i > 1 /\ s[i] = c /\ s[i - 1] = c)}
           t == Squeeze(s, c)
<1>1. I \in SUBSET DOMAIN s /\ t = Picked(s, I)  BY DEF Squeeze
<1>2. t \in Seq(S) /\ {t[n] : n \in DOMAIN t} = {s[i] : i \in I}
  <2> HIDE DEF I, t
  <2>1. Picked(s, I) \in Seq(S)  BY <1>1, PickedType
  <2>2. {Picked(s, I)[n] : n \in DOMAIN Picked(s, I)} = {s[i] : i \in I}  BY <1>1, PickedElements
  <2> QED  BY <1>1, <2>1, <2>2
<1>3. ToSet(s) \ {c} \subseteq ToSet(t)
  <2>1. \A i \in DOMAIN s : s[i] # c => i \in I  OBVIOUS
  <2>2. ToSet(s) \ {c} \subseteq {s[i] : i \in I}  BY <2>1 DEF ToSet
  <2> QED  BY <2>2, <1>2 DEF ToSet
<1>4. NoRuns(t, c)
  <2> SUFFICES ASSUME NEW m \in 1 .. Len(t), NEW n \in 1 .. Len(t),
                      n = m + 1, t[m] = c, t[n] = c
               PROVE  FALSE
      BY DEF NoRuns
  <2> DEFINE i == Nth(I, m)
             j == Nth(I, n)
  <2>1. Len(t) = Cardinality(I) /\ IsPositions(I)  BY <1>1, PickedType
  <2>2. m \in 1 .. Cardinality(I) /\ n \in 1 .. Cardinality(I) /\ m < n  BY <2>1
  <2>3. t[m] = s[i] /\ t[n] = s[j]  BY <1>1, <2>2 DEF Picked
  <2>4. i \in I /\ j \in I /\ i < j  BY <2>1, <2>2, NthExists, NthIncreases
  <2>5. \A k \in I : ~(i < k /\ k < j)
    <3> SUFFICES ASSUME NEW k \in I, i < k, k < j PROVE FALSE  OBVIOUS
    <3>1. Rank(I, i) = m /\ Rank(I, j) = n  BY <2>1, <2>2, NthExists
    <3>2. Rank(I, i) < Rank(I, k) /\ Rank(I, k) < Rank(I, j)  BY <2>1, <2>4, RankIncreases
    <3>3. Rank(I, k) \in 1 .. Cardinality(I)  BY <2>1, RankCounts
    <3> HIDE DEF i, j
    <3> QED  BY <3>1, <3>2, <3>3
  <2> HIDE DEF i, j
  <2>6. i \in 1 .. Len(s) /\ j \in 1 .. Len(s) /\ s[i] = c /\ s[j] = c
        BY <2>3, <2>4
  <2>7. s[j - 1] # c  BY <2>4, <2>6
  <2>8. j - 1 # i /\ j - 1 \in DOMAIN s /\ i < j - 1 /\ j - 1 < j  BY <2>4, <2>6, <2>7
  <2>9. j - 1 \in I  BY <2>7, <2>8
  <2> QED  BY <2>5, <2>8, <2>9
<1> QED  BY <1>2, <1>3, <1>4

IsSlug(s) == s \in Seq({Letter, Dash}) /\ NoRuns(s, Dash)

LEMMA CharactersDiffer ==
    /\ Letter # Upper /\ Letter # Mark /\ Letter # Space /\ Letter # Dash /\ Letter # Other
    /\ Dash # Upper /\ Dash # Mark /\ Dash # Space /\ Dash # Other
    /\ Upper # Mark /\ Upper # Space /\ Upper # Other
BY DEF Letter, Upper, Mark, Space, Dash, Other

\* What Slugify makes of a text of characters is a slug, and has the letters of the
\* text.
LEMMA SlugifyMakesSlugs ==
    ASSUME NEW t \in Seq(Characters)
    PROVE  IsSlug(Slugify(t)) /\ (HasLetters(t) => Slugify(t) # <<>>)
<1> DEFINE t1 == Without(t, {Mark})
           t2 == Mapped(t1, Upper, Letter)
           t3 == Trim(t2, Space)
           t4 == Squeeze(t3, Space)
           t5 == Mapped(t4, Space, Dash)
           t6 == Without(t5, {Other})
           t7 == Squeeze(t6, Dash)
           C == {Letter, Space, Dash, Other}
<1>1. Slugify(t) = t7  BY DEF Slugify
<1>2. t1 \in Seq(Characters \ {Mark}) /\ ToSet(t1) = ToSet(t) \ {Mark}  BY WithoutIs
<1> HIDE DEF t1
<1>3. /\ t2 \in Seq(((Characters \ {Mark}) \ {Upper}) \cup {Letter})
      /\ ToSet(t1) \ {Upper} \subseteq ToSet(t2)
      /\ Upper \in ToSet(t1) => Letter \in ToSet(t2)
      BY <1>2, MappedIs
<1>4. ((Characters \ {Mark}) \ {Upper}) \cup {Letter} = C  BY CharactersDiffer DEF Characters, Upper, Mark, Letter, Space, Dash, Other
<1>5. t2 \in Seq(C)  BY <1>3, <1>4
<1> HIDE DEF t2
<1>6. t3 \in Seq(C) /\ ToSet(t2) \ {Space} \subseteq ToSet(t3)  BY <1>5, TrimIs
<1> HIDE DEF t3
<1>7. t4 \in Seq(C) /\ ToSet(t3) \ {Space} \subseteq ToSet(t4)  BY <1>6, SqueezeIs
<1> HIDE DEF t4
<1>8. t5 \in Seq((C \ {Space}) \cup {Dash}) /\ ToSet(t4) \ {Space} \subseteq ToSet(t5)
      BY <1>7, MappedIs
<1> HIDE DEF t5
<1>9. t6 \in Seq(((C \ {Space}) \cup {Dash}) \ {Other}) /\ ToSet(t6) = ToSet(t5) \ {Other}
      BY <1>8, WithoutIs
<1>10. ((C \ {Space}) \cup {Dash}) \ {Other} = {Letter, Dash}  BY DEF Letter, Space, Dash, Other
<1>11. t6 \in Seq({Letter, Dash})  BY <1>9, <1>10
<1> HIDE DEF t6
<1>12. /\ t7 \in Seq({Letter, Dash}) /\ NoRuns(t7, Dash)
       /\ ToSet(t6) \ {Dash} \subseteq ToSet(t7)
       BY <1>11, SqueezeIs
<1>13. HasLetters(t) => t7 # <<>>
  <2> SUFFICES ASSUME HasLetters(t) PROVE t7 # <<>>  OBVIOUS
  <2>1. Letter \in ToSet(t) \/ Upper \in ToSet(t)  BY DEF HasLetters, ToSet
  <2>2. Letter \in ToSet(t2)  BY <2>1, <1>2, <1>3, CharactersDiffer
  <2>3. Letter \in ToSet(t5)  BY <2>2, <1>6, <1>7, <1>8, CharactersDiffer
  <2>4. Letter \in ToSet(t7)  BY <2>3, <1>9, <1>12, CharactersDiffer
  <2> HIDE DEF t7
  <2> QED  BY <2>4 DEF ToSet
<1> QED  BY <1>1, <1>12, <1>13 DEF IsSlug

\* And a slug is made of itself.
LEMMA SlugIsFixed ==
    ASSUME NEW s, IsSlug(s)
    PROVE  Slugify(s) = s
<1>1. s \in Seq({Letter, Dash}) /\ NoRuns(s, Dash)  BY DEF IsSlug
<1>2. DOMAIN s = 1 .. Len(s) /\ Len(s) \in Nat /\ \A i \in DOMAIN s : s[i] \in {Letter, Dash}
      BY <1>1
<1>3. ASSUME NEW c, c \notin {Letter, Dash} PROVE Without(s, {c}) = s
  <2>1. {i \in DOMAIN s : s[i] \notin {c}} = DOMAIN s  BY <1>2, <1>3
  <2> QED  BY <2>1, <1>1, PickedAll DEF Without
<1>4. ASSUME NEW c, NEW d, c \notin {Letter, Dash} PROVE Mapped(s, c, d) = s
  <2>1. Mapped(s, c, d) = [i \in DOMAIN s |-> s[i]]  BY <1>2, <1>4 DEF Mapped
  <2> QED  BY <2>1, <1>1
<1>5. ASSUME NEW c, c = Dash \/ c \notin {Letter, Dash} PROVE Squeeze(s, c) = s
  <2>1. ASSUME NEW i \in DOMAIN s PROVE ~(i > 1 /\ s[i] = c /\ s[i - 1] = c)
    <3> SUFFICES ASSUME i > 1, s[i] = c, s[i - 1] = c PROVE FALSE  OBVIOUS
    <3>1. c = Dash  BY <1>2, <1>5
    <3>2. i - 1 \in 1 .. Len(s) /\ i \in 1 .. Len(s) /\ i = (i - 1) + 1  BY <1>2
    <3> QED  BY <3>1, <3>2, <1>1 DEF NoRuns
  <2>2. {i \in DOMAIN s : ~(i > 1 /\ s[i] = c /\ s[i - 1] = c)} = DOMAIN s  BY <2>1
  <2> QED  BY <2>2, <1>1, PickedAll DEF Squeeze
<1>6. Trim(s, Space) = s
  <2> DEFINE I == {i \in DOMAIN s : s[i] # Space}
  <2>1. I = 1 .. Len(s)  BY <1>2, CharactersDiffer
  <2>2. CASE s = <<>>
    <3>1. I = {}  BY <2>2
    <3> QED  BY <2>2, <3>1 DEF Trim
  <2>3. CASE s # <<>>
    <3>1. Len(s) >= 1 /\ I # {} /\ 1 \in I /\ Len(s) \in I  BY <1>1, <2>1, <2>3
    <3>2. I \in SUBSET Nat /\ I \in SUBSET (1 .. Len(s))  BY <2>1
    <3>3. /\ Min(I) \in I /\ \A i \in I : Min(I) <= i
          /\ Max(I) \in I /\ \A i \in I : i <= Max(I)
      <4> HIDE DEF I
      <4> QED  BY <1>2, <3>1, <3>2, LeastElement, GreatestElement
    <3>4. Min(I) = 1 /\ Max(I) = Len(s)
      <4> DEFINE a == Min(I)
                 b == Max(I)
      <4>1. /\ a \in 1 .. Len(s) /\ a <= 1
            /\ b \in 1 .. Len(s) /\ Len(s) <= b
            BY <2>1, <3>1, <3>3
      <4> HIDE DEF a, b
      <4>2. a = 1 /\ b = Len(s)  BY <4>1
      <4> QED  BY <4>2 DEF a, b
    <3>5. Trim(s, Space) = SubSeq(s, 1, Len(s))  BY <3>1, <3>4 DEF Trim
    <3> QED  BY <3>5, <1>1
  <2> QED  BY <2>2, <2>3
<1>7. Without(s, {Mark}) = s /\ Without(s, {Other}) = s  BY <1>3, CharactersDiffer
<1>8. Mapped(s, Upper, Letter) = s /\ Mapped(s, Space, Dash) = s  BY <1>4, CharactersDiffer
<1>9. Squeeze(s, Space) = s /\ Squeeze(s, Dash) = s  BY <1>5, CharactersDiffer
<1> QED  BY <1>6, <1>7, <1>8, <1>9 DEF Slugify

-----------------------------------------------------------------------------
\* Every stored slug is one, and that of a document whose last save gave the hook a
\* letter is not empty.
StoredSlugs ==
    \A m \in Media :
        /\ IsSlug(meta[m].slug)
        /\ file[m] # None /\ m \notin bare => meta[m].slug # <<>>

SlugsInv == PhotosInv /\ SlugsTypeOK /\ StoredSlugs

\* Saves of media documents and users are steps of Photos.
LEMMA SlugStepsArePhotoSteps == [SlugsNext]_slugVars => [PhotosNext]_photoVars
<1>1. MediaSave => [PhotosNext]_photoVars
  <2> SUFFICES ASSUME NEW m \in Media, NEW f \in Files \cup {Kept}, NEW alt, NEW slug,
                      SaveMedia(m, f, alt, slug)
               PROVE  [PhotosNext]_photoVars
      BY DEF MediaSave
  <2>1. UNCHANGED photoVars \/ (f \in Files /\ Upload(m, f))  BY DEF SaveMedia
  <2> QED  BY <2>1 DEF PhotosNext, MediaStep
<1>2. ASSUME NEW m \in Media, DeleteMedia(m) PROVE PhotosNext
      BY <1>2 DEF DeleteMedia, PhotosNext, MediaStep
<1>3. ASSUME NEW r \in Requests, SaveUser(r) PROVE PhotosNext
      BY <1>3 DEF SaveUser, PhotosNext
<1>4. UNCHANGED slugVars => UNCHANGED photoVars  BY DEF slugVars
<1> QED  BY <1>1, <1>2, <1>3, <1>4 DEF SlugsNext

\* What the hook makes of texts is a slug, with a letter if the text it takes has one.
LEMMA HookMakesSlugs ==
    ASSUME NEW slug \in Seq(Characters), NEW name \in Seq(Characters)
    PROVE  /\ IsSlug(slugifyHook(slug, name))
           /\ HasLetters(IF slug # <<>> THEN slug ELSE name) => slugifyHook(slug, name) # <<>>
BY SlugifyMakesSlugs DEF slugifyHook

LEMMA SlugsAreTexts == ASSUME NEW s, IsSlug(s) PROVE s \in Seq(Characters)
<1>1. {Letter, Dash} \subseteq Characters  BY DEF Characters
<1>2. s \in Seq({Letter, Dash})  BY DEF IsSlug
<1> QED  BY <1>1, <1>2, IsASeq

LEMMA SaveMediaKeepsSlugs ==
    ASSUME SlugsInv, NEW m \in Media, NEW f \in Files \cup {Kept},
           NEW alt \in Names \cup {Kept}, NEW slug \in SlugTexts \cup {Kept},
           SaveMedia(m, f, alt, slug)
    PROVE  SlugsTypeOK' /\ StoredSlugs'
<1>1. /\ meta \in [Media -> [alt : Seq(Characters), slug : Seq(Characters)]]
      /\ bare \in SUBSET Media /\ StoredSlugs
      BY DEF SlugsInv, SlugsTypeOK
<1>2. PICK name \in Given(alt, meta[m].alt), value \in Given(slug, meta[m].slug) :
        /\ meta' = [meta EXCEPT ![m] = [alt |-> IF alt = Kept THEN @.alt ELSE alt,
                                        slug |-> slugifyHook(value, name)]]
        /\ bare' = IF HasLetters(IF value # <<>> THEN value ELSE name)
                   THEN bare \ {m} ELSE bare \cup {m}
      BY DEF SaveMedia
<1> DEFINE made == slugifyHook(value, name)
           told == IF alt = Kept THEN meta[m].alt ELSE alt
           letters == HasLetters(IF value # <<>> THEN value ELSE name)
<1>3. <<>> \in Seq(Characters) /\ meta[m].alt \in Seq(Characters) /\ meta[m].slug \in Seq(Characters)
      BY <1>1
<1>4. name \in Seq(Characters) /\ value \in Seq(Characters) /\ told \in Seq(Characters)
      BY <1>3, SlugsAssumption DEF Given
<1>5. IsSlug(made) /\ (letters => made # <<>>)  BY <1>4, HookMakesSlugs
<1>6. made \in Seq(Characters)  BY <1>5, SlugsAreTexts
<1>7. meta' = [meta EXCEPT ![m] = [alt |-> told, slug |-> made]]  BY <1>1, <1>2
<1>8. bare' = IF letters THEN bare \ {m} ELSE bare \cup {m}  BY <1>2
<1> HIDE DEF made, told, letters
<1>9. /\ meta' \in [Media -> [alt : Seq(Characters), slug : Seq(Characters)]]
      /\ meta'[m].slug = made /\ \A n \in Media : n # m => meta'[n] = meta[n]
      BY <1>1, <1>4, <1>6, <1>7
<1>10. file \in [Media -> Files \cup {None}]  BY DEF SlugsInv, PhotosInv, PhotosTypeOK
<1>11. \A n \in Media : n # m => file'[n] = file[n]
       BY <1>10 DEF SaveMedia, Upload, photoVars
<1>12. ASSUME NEW n \in Media
       PROVE  IsSlug(meta'[n].slug) /\ (file'[n] # None /\ n \notin bare' => meta'[n].slug # <<>>)
  <2>1. CASE n = m
        BY <2>1, <1>5, <1>8, <1>9
  <2>2. CASE n # m
    <3>1. meta'[n] = meta[n] /\ file'[n] = file[n] /\ (n \in bare' <=> n \in bare)
          BY <2>2, <1>8, <1>9, <1>11
    <3> QED  BY <3>1, <1>1 DEF StoredSlugs
  <2> QED  BY <2>1, <2>2
<1> QED  BY <1>1, <1>8, <1>9, <1>12 DEF SlugsTypeOK, StoredSlugs

LEMMA SlugsInvInit == SlugsInit => SlugsInv
<1> SUFFICES ASSUME SlugsInit PROVE SlugsInv  OBVIOUS
<1>1. PhotosInv  BY PhotosInvInit DEF SlugsInit
<1>2. SlugsTypeOK  BY DEF SlugsInit, SlugsTypeOK
<1>3. IsSlug(<<>>)  BY DEF IsSlug, NoRuns
<1>4. StoredSlugs  BY <1>3 DEF SlugsInit, StoredSlugs, PhotosInit
<1> QED  BY <1>1, <1>2, <1>4 DEF SlugsInv

LEMMA SlugsInvStep == SlugsInv /\ [SlugsNext]_slugVars => SlugsInv'
<1> SUFFICES ASSUME SlugsInv, [SlugsNext]_slugVars PROVE SlugsInv'  OBVIOUS
<1>1. PhotosInv'  BY SlugStepsArePhotoSteps, PhotosInvStep DEF SlugsInv
<1>2. CASE MediaSave
      BY <1>1, <1>2, SaveMediaKeepsSlugs DEF MediaSave, SlugsInv
<1>3. CASE \E m \in Media : DeleteMedia(m)
  <2>1. PICK m \in Media : DeleteMedia(m)  BY <1>3
  <2>2. file \in [Media -> Files \cup {None}]  BY DEF SlugsInv, PhotosInv, PhotosTypeOK
  <2>3. \A n \in Media : file'[n] # None => file'[n] = file[n]
        BY <2>1, <2>2 DEF DeleteMedia, RemoveMedia
  <2> QED  BY <1>1, <2>1, <2>3 DEF DeleteMedia, SlugsInv, SlugsTypeOK, StoredSlugs
<1>4. CASE \E r \in Requests : SaveUser(r)
  <2>1. UNCHANGED <<file, meta, bare>>
        BY <1>4 DEF SaveUser, SaveStep, SkipLookup, Lookup, LookupFails, WriteUser, BeginSave
  <2> QED  BY <1>1, <2>1 DEF SlugsInv, SlugsTypeOK, StoredSlugs
<1>5. CASE UNCHANGED slugVars
      BY <1>1, <1>5 DEF slugVars, photoVars, SlugsInv, SlugsTypeOK, StoredSlugs
<1> QED  BY <1>2, <1>3, <1>4, <1>5 DEF SlugsNext

LEMMA StoredSlugsAreFound == SlugsInv => ShownSlugFinds
<1> SUFFICES ASSUME SlugsInv PROVE ShownSlugFinds  OBVIOUS
<1>1. StoredSlugs  BY DEF SlugsInv
<1>2. ASSUME NEW n \in Media, meta[n].slug # <<>> PROVE Shown(n) = meta[n].slug
  <2>1. IsSlug(meta[n].slug)  BY <1>1 DEF StoredSlugs
  <2> QED  BY <1>2, <2>1, SlugIsFixed DEF Shown, slugifyHook
<1>3. ASSUME NEW m \in Media, file[m] # None, m \notin bare
      PROVE  /\ m \in bySlug(Shown(m))
             /\ \A n \in bySlug(Shown(m)) : Shown(n) = Shown(m)
  <2>1. meta[m].slug # <<>> /\ Shown(m) = meta[m].slug  BY <1>1, <1>2, <1>3 DEF StoredSlugs
  <2> QED  BY <2>1, <1>2, <1>3 DEF bySlug
<1> QED  BY <1>3 DEF ShownSlugFinds

\* The state of the slugs keeps its type (SlugField.ts).
THEOREM SlugsTypeCorrect == SlugsSpec => []SlugsTypeOK
<1> SlugsInv => SlugsTypeOK
    BY DEF SlugsInv
<1> QED
    BY SlugsInvInit, SlugsInvStep, PTL DEF SlugsSpec

\* The slug that a reader is shown finds the document, or one that is shown with the
\* same, for all texts: a slug is its own slug, and each stored one is what the hook
\* made of a text with a letter (SlugField.ts; bySlugEndpoints.ts; SlugUtils.ts).
THEOREM ShownSlugAlwaysFinds == SlugsSpec => []ShownSlugFinds
BY SlugsInvInit, SlugsInvStep, StoredSlugsAreFound, PTL DEF SlugsSpec

\* Media documents with their slugs and users with their photos behave as the photos
\* of Photos do: the slug takes part in nothing that concerns the address (Media.ts,
\* Users.ts).
THEOREM SlugsImplementPhotos == SlugsSpec => PhotosSpec
<1>1. SlugsInit => PhotosInit  BY DEF SlugsInit
<1> QED
    BY <1>1, SlugStepsArePhotoSteps, PTL DEF SlugsSpec, PhotosSpec

-----------------------------------------------------------------------------
(* How often something is in a list *)

LEMMA TimesIs ==
    ASSUME NEW S, NEW s \in Seq(S), NEW x
    PROVE  /\ Times(x, s) \in Nat
           /\ IsFiniteSet({i \in DOMAIN s : s[i] = x})
           /\ x \notin ToSet(s) => Times(x, s) = 0
<1>1. IsFiniteSet(DOMAIN s)  BY FS_Interval
<1>2. IsFiniteSet({i \in DOMAIN s : s[i] = x})  BY <1>1, FS_Subset
<1>3. ASSUME x \notin ToSet(s) PROVE {i \in DOMAIN s : s[i] = x} = {}  BY <1>3 DEF ToSet
<1> QED  BY <1>2, <1>3, FS_CardinalityType, FS_EmptySet DEF Times

LEMMA ShortLists ==
    /\ \A S : <<>> \in Seq(S)
    /\ \A S : \A x \in S : <<x>> \in Seq(S)
    /\ \A x : x \notin ToSet(<<>>)
<1>1. \A S : <<>> \in Seq(S)  OBVIOUS
<1>2. ASSUME NEW S, NEW x \in S PROVE <<x>> \in Seq(S)  OBVIOUS
<1>3. \A x : x \notin ToSet(<<>>)  BY DEF ToSet
<1> QED  BY <1>1, <1>2, <1>3

LEMMA TimesConcat ==
    ASSUME NEW S, NEW s \in Seq(S), NEW t \in Seq(S), NEW x
    PROVE  Times(x, s \o t) = Times(x, s) + Times(x, t)
<1> DEFINE P == {i \in DOMAIN s : s[i] = x}
           Q == {i \in DOMAIN t : t[i] = x}
           R == {Len(s) + i : i \in Q}
           move == [i \in Q |-> Len(s) + i]
<1>1. /\ DOMAIN s = 1 .. Len(s) /\ DOMAIN t = 1 .. Len(t)
      /\ Len(s) \in Nat /\ Len(t) \in Nat
      OBVIOUS
<1>2. IsFiniteSet(P) /\ IsFiniteSet(Q)  BY TimesIs
<1>3. IsFiniteSet(R) /\ Cardinality(R) = Cardinality(Q)
  <2>1. \A i \in Q : i \in Nat  BY <1>1
  <2>2. move \in Bijection(Q, R)
        BY <2>1, <1>1 DEF Bijection, Injection, Surjection, IsInjective
  <2>3. ExistsBijection(Q, R)  BY <2>2 DEF ExistsBijection
  <2> QED  BY <2>3, <1>2, FS_Bijection
<1>4. {i \in DOMAIN (s \o t) : (s \o t)[i] = x} = P \cup R
  <2>1. ASSUME NEW k \in DOMAIN (s \o t), (s \o t)[k] = x PROVE k \in P \cup R
    <3>1. k \in 1 .. Len(s) + Len(t)  OBVIOUS
    <3>2. CASE k <= Len(s)  BY <3>1, <3>2, <2>1, <1>1
    <3>3. CASE ~(k <= Len(s))
      <4>1. k - Len(s) \in 1 .. Len(t) /\ Len(s) + (k - Len(s)) = k /\ t[k - Len(s)] = x
            BY <3>1, <3>3, <2>1, <1>1
      <4> QED  BY <4>1, <1>1
    <3> QED  BY <3>2, <3>3
  <2>2. ASSUME NEW k \in P PROVE k \in DOMAIN (s \o t) /\ (s \o t)[k] = x  BY <1>1
  <2>3. ASSUME NEW i \in Q PROVE Len(s) + i \in DOMAIN (s \o t) /\ (s \o t)[Len(s) + i] = x
        BY <1>1
  <2> QED  BY <2>1, <2>2, <2>3
<1>5. P \cap R = {}  BY <1>1
<1>6. Cardinality(P \cup R) = Cardinality(P) + Cardinality(R)
  <2>1. Cardinality(P \cap R) = 0 /\ Cardinality(P) \in Nat /\ Cardinality(R) \in Nat
        BY <1>2, <1>3, <1>5, FS_EmptySet, FS_CardinalityType
  <2>2. Cardinality(P \cup R) = Cardinality(P) + Cardinality(R) - Cardinality(P \cap R)
    <3> HIDE DEF P, R
    <3> QED  BY <1>2, <1>3, FS_Union
  <2> HIDE DEF P, R
  <2> QED  BY <2>1, <2>2
<1> QED  BY <1>3, <1>4, <1>6 DEF Times

LEMMA TimesOfOne ==
    ASSUME NEW x, NEW y
    PROVE  Times(x, <<y>>) = IF x = y THEN 1 ELSE 0
<1>1. DOMAIN <<y>> = {1} /\ <<y>>[1] = y  OBVIOUS
<1>2. {i \in DOMAIN <<y>> : <<y>>[i] = x} = IF x = y THEN {1} ELSE {}  BY <1>1
<1> QED  BY <1>2, FS_Singleton, FS_EmptySet DEF Times

\* When it is in each of some lists at most as often as in the one beside it, it is
\* in all of them together at most as often as in the others.
LEMMA TimesFlatten ==
    ASSUME NEW S, NEW a \in Seq(Seq(S)), NEW b \in Seq(Seq(S)), NEW x, Len(a) = Len(b),
           \A i \in 1 .. Len(a) : Times(x, a[i]) <= Times(x, b[i])
    PROVE  Times(x, FlattenSeq(a)) <= Times(x, FlattenSeq(b))
<1> DEFINE L == Len(a)
           A == Seq(S)
<1>1. L \in Nat /\ \A i \in 1 .. L : a[i] \in A /\ b[i] \in A  OBVIOUS
<1>2. PICK f \in [0 .. L -> A] :
        /\ f[0] = <<>> /\ FlattenSeq(a) = f[L] /\ \A n \in 1 .. L : f[n] = f[n - 1] \o a[n]
      BY FlattenSeqSteps
<1>3. PICK g \in [0 .. L -> A] :
        /\ g[0] = <<>> /\ FlattenSeq(b) = g[L] /\ \A n \in 1 .. L : g[n] = g[n - 1] \o b[n]
      BY FlattenSeqSteps
<1> DEFINE T == {n \in 0 .. L : Times(x, f[n]) <= Times(x, g[n])}
<1>4. 0 \in T
  <2>1. <<>> \in Seq(S)  OBVIOUS
  <2>2. Times(x, <<>>) \in Nat  BY <2>1, TimesIs
  <2> QED  BY <2>2, <1>1, <1>2, <1>3
<1>5. ASSUME NEW n \in 1 .. L, n - 1 \in T PROVE n \in T
  <2>1. n - 1 \in 0 .. L /\ n \in 0 .. L  BY <1>1
  <2>2. f[n - 1] \in A /\ g[n - 1] \in A /\ a[n] \in A /\ b[n] \in A  BY <2>1, <1>1
  <2>3. /\ Times(x, f[n]) = Times(x, f[n - 1]) + Times(x, a[n])
        /\ Times(x, g[n]) = Times(x, g[n - 1]) + Times(x, b[n])
    <3>1. f[n] = f[n - 1] \o a[n] /\ g[n] = g[n - 1] \o b[n]  BY <1>2, <1>3
    <3>2. Times(x, f[n - 1] \o a[n]) = Times(x, f[n - 1]) + Times(x, a[n])  BY <2>2, TimesConcat
    <3>3. Times(x, g[n - 1] \o b[n]) = Times(x, g[n - 1]) + Times(x, b[n])  BY <2>2, TimesConcat
    <3> QED  BY <3>1, <3>2, <3>3
  <2>4. /\ Times(x, f[n - 1]) \in Nat /\ Times(x, a[n]) \in Nat
        /\ Times(x, g[n - 1]) \in Nat /\ Times(x, b[n]) \in Nat
        BY <2>2, TimesIs
  <2>5. Times(x, a[n]) <= Times(x, b[n]) /\ Times(x, f[n - 1]) <= Times(x, g[n - 1])  BY <1>5
  <2> QED  BY <2>1, <2>3, <2>4, <2>5
<1> HIDE DEF T, L
<1>6. L \in T
  <2>1. L \in Nat  BY <1>1
  <2>2. 0 .. L \subseteq T  BY <2>1, <1>4, <1>5, InductionUpTo
  <2> QED  BY <2>1, <2>2
<1> QED  BY <1>2, <1>3, <1>6 DEF T

-----------------------------------------------------------------------------
(* Rich texts *)

LEMMA ChildrenAreNodes ==
    ASSUME NEW node \in Nodes
    PROVE  /\ node.children \in Seq(Nodes) /\ ToSet(node.children) \subseteq Nodes
           /\ Depth[node] \in Nat
           /\ \A child \in ToSet(node.children) : Depth[child] \in Nat /\ Depth[child] < Depth[node]
<1>1. node.children \in Seq(Nodes)  BY TextAssumption DEF IsNode
<1>2. ToSet(node.children) \subseteq Nodes  BY <1>1 DEF ToSet
<1> QED  BY <1>1, <1>2, TextAssumption

\* What holds of a node when it holds of its children holds of all nodes.
LEMMA NodeInduction ==
    ASSUME NEW S, \A node \in Nodes : ToSet(node.children) \subseteq S => node \in S
    PROVE  Nodes \subseteq S
<1> DEFINE T == {n \in Nat : \A node \in Nodes : Depth[node] < n => node \in S}
<1>1. 0 \in T  BY ChildrenAreNodes
<1>2. ASSUME NEW n \in Nat, n \in T PROVE n + 1 \in T
  <2> SUFFICES ASSUME NEW node \in Nodes, Depth[node] < n + 1 PROVE node \in S  OBVIOUS
  <2>1. \A child \in ToSet(node.children) : child \in Nodes /\ Depth[child] < n
        BY ChildrenAreNodes
  <2>2. ToSet(node.children) \subseteq S  BY <2>1, <1>2
  <2> QED  BY <2>2
<1> HIDE DEF T
<1>3. Nat \subseteq T  BY <1>1, <1>2, SetInduction
<1>4. ASSUME NEW node \in Nodes PROVE node \in S
  <2>1. Depth[node] \in Nat /\ Depth[node] + 1 \in T  BY ChildrenAreNodes, <1>3
  <2> QED  BY <2>1 DEF T
<1> QED  BY <1>4

\* What a walk makes of each node of a list.
Made(made, nodes) == [i \in DOMAIN nodes |-> made[nodes[i]]]

IsVisit(visit, A) == visit \in [Nodes \X Seq(A) -> A]

LEMMA MadeIs ==
    ASSUME NEW A, NEW f \in [Nodes -> A], NEW nodes \in Seq(Nodes)
    PROVE  Made(f, nodes) \in Seq(A) /\ Len(Made(f, nodes)) = Len(nodes)
<1>1. DOMAIN nodes = 1 .. Len(nodes) /\ Len(nodes) \in Nat /\ \A i \in 1 .. Len(nodes) : nodes[i] \in Nodes
      OBVIOUS
<1> QED  BY <1>1, IsASeq DEF Made

\* A walk: there is a function that makes of each node what the visit of the node
\* makes of what was made of its children, since nodes nest only so deep.
LEMMA WalkExists ==
    ASSUME NEW A, NEW visit, IsVisit(visit, A)
    PROVE  \E f \in [Nodes -> A] :
             \A node \in Nodes : f[node] = visit[<<node, Made(f, node.children)>>]
<1> DEFINE W == [Nodes -> A]
           next(f) == [node \in Nodes |-> visit[<<node, Made(f, node.children)>>]]
           step == [f \in W |-> next(f)]
           first == [node \in Nodes |-> visit[<<node, <<>>>>]]
<1>1. \A f \in W : next(f) \in W
  <2> SUFFICES ASSUME NEW f \in W, NEW node \in Nodes
               PROVE  visit[<<node, Made(f, node.children)>>] \in A
      OBVIOUS
  <2>1. Made(f, node.children) \in Seq(A)  BY ChildrenAreNodes, MadeIs
  <2> QED  BY <2>1 DEF IsVisit
<1>2. first \in W /\ step \in [W -> W]
  <2>1. first \in W
    <3>1. <<>> \in Seq(A)  OBVIOUS
    <3>2. \A node \in Nodes : visit[<<node, <<>>>>] \in A  BY <3>1 DEF IsVisit
    <3> QED  BY <3>2
  <2> HIDE DEF W, next
  <2> QED  BY <1>1, <2>1
<1> HIDE DEF first
<1>3. PICK F \in [Nat -> W] : F[0] = first /\ \A n \in Nat : F[n + 1] = step[F[n]]
  <2>1. first \in W  BY <1>2
  <2>2. step \in [W -> W]  BY <1>2
  <2> HIDE DEF W, step, next
  <2> QED  BY <2>1, <2>2, IterationExists
<1>4. \A n \in Nat : F[n + 1] = next(F[n])  BY <1>3
<1> DEFINE f == [node \in Nodes |-> F[Depth[node] + 1][node]]
           S == {node \in Nodes : \A n \in Nat : Depth[node] < n => F[n][node] = f[node]}
<1>5. f \in W
  <2>1. ASSUME NEW node \in Nodes PROVE F[Depth[node] + 1][node] \in A
    <3>1. Depth[node] + 1 \in Nat  BY ChildrenAreNodes
    <3> QED  BY <3>1
  <2> QED  BY <2>1
<1>6. ASSUME NEW node \in Nodes, ToSet(node.children) \subseteq S PROVE node \in S
  <2>1. ASSUME NEW n \in Nat, Depth[node] < n
        PROVE  F[n][node] = visit[<<node, Made(f, node.children)>>]
    <3>1. n - 1 \in Nat /\ (n - 1) + 1 = n /\ \A child \in ToSet(node.children) : Depth[child] < n - 1
          BY <2>1, ChildrenAreNodes
    <3>2. \A child \in ToSet(node.children) : F[n - 1][child] = f[child]  BY <3>1, <1>6
    <3>3. Made(F[n - 1], node.children) = Made(f, node.children)
      <4> HIDE DEF f
      <4>1. \A i \in DOMAIN node.children : node.children[i] \in ToSet(node.children)  BY DEF ToSet
      <4> QED  BY <3>2, <4>1 DEF Made
    <3>4. F[n] = next(F[n - 1])  BY <3>1, <1>4
    <3> QED  BY <3>3, <3>4
  <2>2. Depth[node] + 1 \in Nat /\ Depth[node] < Depth[node] + 1  BY ChildrenAreNodes
  <2>3. f[node] = F[Depth[node] + 1][node]  OBVIOUS
  <2> HIDE DEF f
  <2>4. f[node] = visit[<<node, Made(f, node.children)>>]  BY <2>1, <2>2, <2>3
  <2> QED  BY <2>1, <2>4
<1>7. Nodes \subseteq S
  <2> HIDE DEF S
  <2> QED  BY <1>6, NodeInduction
<1>8. ASSUME NEW node \in Nodes PROVE f[node] = visit[<<node, Made(f, node.children)>>]
  <2> DEFINE n == Depth[node] + 2
  <2>1. /\ n - 1 \in Nat /\ n \in Nat /\ (n - 1) + 1 = n /\ Depth[node] < n
        /\ \A child \in ToSet(node.children) : Depth[child] < n - 1
        BY ChildrenAreNodes
  <2> HIDE DEF n
  <2>2. F[n][node] = f[node] /\ \A child \in ToSet(node.children) : F[n - 1][child] = f[child]
        BY <2>1, <1>7, ChildrenAreNodes
  <2>3. Made(F[n - 1], node.children) = Made(f, node.children)
    <3> HIDE DEF f
    <3>1. \A i \in DOMAIN node.children : node.children[i] \in ToSet(node.children)  BY DEF ToSet
    <3> QED  BY <2>2, <3>1 DEF Made
  <2>4. F[n] = next(F[n - 1])  BY <2>1, <1>4
  <2> HIDE DEF f
  <2> QED  BY <2>2, <2>3, <2>4
<1> QED  BY <1>5, <1>8

\* What is shown of a text.
Pieces == Words \cup Linked \cup {Undefined, Address}

LEMMA HtmlType ==
    ASSUME NEW node \in Nodes, NEW s \in Seq(Pieces)
    PROVE  Html(node, s) \in Seq(Pieces)
<1>1. node.type = "text" => node.words \in Seq(Pieces)
  <2> SUFFICES ASSUME node.type = "text" PROVE node.words \in Seq(Pieces)  OBVIOUS
  <2>1. node.words \in Seq(Words)  BY TextAssumption DEF IsNode
  <2>2. Words \subseteq Pieces  BY DEF Pieces
  <2> QED  BY <2>1, <2>2, IsASeq
<1>2. node.type = "link" => node.doc \in Linked \cup {""}  BY TextAssumption DEF IsNode
<1> DEFINE target == Target(node)
<1>3. node.type = "link" => target \in Pieces  BY <1>2 DEF Pieces, Target
<1> HIDE DEF target
<1>4. node.type \in {"text", "element", "link", "upload"}  BY TextAssumption DEF IsNode
<1>5. /\ <<Address>> \in Seq(Pieces) /\ <<Undefined>> \in Seq(Pieces) /\ <<>> \in Seq(Pieces)
      BY DEF Pieces
<1>6. ASSUME node.type = "link" PROVE <<target>> \o s \in Seq(Pieces)
  <2>1. <<target>> \in Seq(Pieces)  BY <1>3, <1>6
  <2> QED  BY <2>1
<1>7. CASE node.type = "text"  BY <1>1, <1>7 DEF Html
<1>8. CASE node.type = "link"
  <2>1. Html(node, s) = IF s = <<>> THEN <<>> ELSE <<target>> \o s  BY <1>8 DEF Html, target
  <2> QED  BY <2>1, <1>5, <1>6, <1>8
<1>9. CASE node.type = "upload"  BY <1>5, <1>9 DEF Html
<1>10. CASE node.type = "element"  BY <1>5, <1>10 DEF Html
<1> QED  BY <1>4, <1>7, <1>8, <1>9, <1>10

LEMMA LinksType ==
    ASSUME NEW node \in Nodes, NEW s \in Seq(Linked)
    PROVE  Links(node, s) \in Seq(Linked)
<1>1. node.type = "link" => node.doc \in Linked \cup {""}  BY TextAssumption DEF IsNode
<1> DEFINE own == IF node.type = "link" /\ node.doc # "" THEN <<node.doc>> ELSE <<>>
<1>2. own \in Seq(Linked)
  <2>1. CASE node.type = "link" /\ node.doc # ""
    <3>1. node.doc \in Linked  BY <2>1, <1>1
    <3>2. <<node.doc>> \in Seq(Linked)  BY <3>1
    <3> QED  BY <2>1, <3>2
  <2>2. CASE ~(node.type = "link" /\ node.doc # "")
    <3>1. own = <<>> /\ <<>> \in Seq(Linked)
      <4>1. own = <<>>  BY <2>2
      <4> HIDE DEF own
      <4> QED  BY <4>1, ShortLists
    <3> QED  BY <3>1, Zenon
  <2> QED  BY <2>1, <2>2
<1>3. Links(node, s) = s \o own  BY DEF Links
<1> HIDE DEF own
<1> QED  BY <1>2, <1>3

LEMMA JoinedType ==
    ASSUME NEW A, NEW f, NEW nodes \in Seq(Nodes), \A node \in ToSet(nodes) : f[node] \in Seq(A)
    PROVE  /\ Made(f, nodes) \in Seq(Seq(A)) /\ Len(Made(f, nodes)) = Len(nodes)
           /\ Joined(f, nodes) = FlattenSeq(Made(f, nodes)) /\ Joined(f, nodes) \in Seq(A)
<1>1. /\ DOMAIN nodes = 1 .. Len(nodes) /\ Len(nodes) \in Nat
      /\ \A i \in 1 .. Len(nodes) : nodes[i] \in ToSet(nodes)
      BY DEF ToSet
<1>2. Made(f, nodes) \in Seq(Seq(A)) /\ Len(Made(f, nodes)) = Len(nodes)
  <2>1. \A i \in 1 .. Len(nodes) : f[nodes[i]] \in Seq(A)  BY <1>1
  <2> QED  BY <1>1, <2>1, IsASeq DEF Made
<1>3. FlattenSeq(Made(f, nodes)) \in Seq(A)  BY <1>2, FlattenSeqElements
<1> QED  BY <1>2, <1>3 DEF Joined, Made

\* Both walks do to a node what TextUtils.ts does, whatever a text nests.
LEMMA HtmlOfIs ==
    /\ HtmlOf = [node \in Nodes |-> Html(node, Joined(HtmlOf, node.children))]
    /\ HtmlOf \in [Nodes -> Seq(Pieces)]
<1> DEFINE A == Seq(Pieces)
           visit == [p \in Nodes \X Seq(A) |-> Html(p[1], FlattenSeq(p[2]))]
           Is(f) == f = [node \in Nodes |-> Html(node, Joined(f, node.children))]
<1>1. IsVisit(visit, A)
  <2>1. ASSUME NEW node \in Nodes, NEW s \in Seq(A) PROVE Html(node, FlattenSeq(s)) \in A
    <3>1. FlattenSeq(s) \in Seq(Pieces)  BY FlattenSeqElements
    <3> QED  BY <3>1, HtmlType
  <2> HIDE DEF A
  <2> QED  BY <2>1 DEF IsVisit
<1>2. \E f : Is(f)
  <2>1. PICK f \in [Nodes -> A] : \A node \in Nodes : f[node] = visit[<<node, Made(f, node.children)>>]
    <3> HIDE DEF A, visit
    <3> QED  BY <1>1, WalkExists
  <2>2. ASSUME NEW node \in Nodes PROVE f[node] = Html(node, Joined(f, node.children))
    <3>1. Made(f, node.children) \in Seq(A)
      <4> HIDE DEF A
      <4> QED  BY ChildrenAreNodes, MadeIs
    <3>2. visit[<<node, Made(f, node.children)>>] = Html(node, FlattenSeq(Made(f, node.children)))
      <4> HIDE DEF A
      <4> QED  BY <3>1
    <3>3. Joined(f, node.children) = FlattenSeq(Made(f, node.children))  BY DEF Joined, Made
    <3> QED  BY <2>1, <3>2, <3>3
  <2>3. Is(f)
    <3> HIDE DEF A
    <3>1. f = [node \in Nodes |-> f[node]]  OBVIOUS
    <3> QED  BY <3>1, <2>2
  <2> QED  BY <2>3
<1>3. Is(HtmlOf)  BY <1>2, Zenon DEF HtmlOf
<1> DEFINE S == {node \in Nodes : HtmlOf[node] \in A}
<1>4. ASSUME NEW node \in Nodes, ToSet(node.children) \subseteq S PROVE node \in S
  <2>1. Joined(HtmlOf, node.children) \in Seq(Pieces)  BY <1>4, ChildrenAreNodes, JoinedType
  <2>2. HtmlOf[node] = Html(node, Joined(HtmlOf, node.children))  BY <1>3
  <2> QED  BY <2>1, <2>2, HtmlType
<1> HIDE DEF S
<1>5. Nodes \subseteq S  BY <1>4, NodeInduction
<1>6. \A node \in Nodes : HtmlOf[node] \in A  BY <1>5 DEF S
<1> QED  BY <1>3, <1>6

LEMMA LinksOfIs ==
    /\ LinksOf = [node \in Nodes |-> Links(node, Joined(LinksOf, node.children))]
    /\ LinksOf \in [Nodes -> Seq(Linked)]
<1> DEFINE A == Seq(Linked)
           visit == [p \in Nodes \X Seq(A) |-> Links(p[1], FlattenSeq(p[2]))]
           Is(f) == f = [node \in Nodes |-> Links(node, Joined(f, node.children))]
<1>1. IsVisit(visit, A)
  <2>1. ASSUME NEW node \in Nodes, NEW s \in Seq(A) PROVE Links(node, FlattenSeq(s)) \in A
    <3>1. FlattenSeq(s) \in Seq(Linked)  BY FlattenSeqElements
    <3> QED  BY <3>1, LinksType
  <2> HIDE DEF A
  <2> QED  BY <2>1 DEF IsVisit
<1>2. \E f : Is(f)
  <2>1. PICK f \in [Nodes -> A] : \A node \in Nodes : f[node] = visit[<<node, Made(f, node.children)>>]
    <3> HIDE DEF A, visit
    <3> QED  BY <1>1, WalkExists
  <2>2. ASSUME NEW node \in Nodes PROVE f[node] = Links(node, Joined(f, node.children))
    <3>1. Made(f, node.children) \in Seq(A)
      <4> HIDE DEF A
      <4> QED  BY ChildrenAreNodes, MadeIs
    <3>2. visit[<<node, Made(f, node.children)>>] = Links(node, FlattenSeq(Made(f, node.children)))
      <4> HIDE DEF A
      <4> QED  BY <3>1
    <3>3. Joined(f, node.children) = FlattenSeq(Made(f, node.children))  BY DEF Joined, Made
    <3> QED  BY <2>1, <3>2, <3>3
  <2>3. Is(f)
    <3> HIDE DEF A
    <3>1. f = [node \in Nodes |-> f[node]]  OBVIOUS
    <3> QED  BY <3>1, <2>2
  <2> QED  BY <2>3
<1>3. Is(LinksOf)  BY <1>2, Zenon DEF LinksOf
<1> DEFINE S == {node \in Nodes : LinksOf[node] \in A}
<1>4. ASSUME NEW node \in Nodes, ToSet(node.children) \subseteq S PROVE node \in S
  <2>1. Joined(LinksOf, node.children) \in Seq(Linked)  BY <1>4, ChildrenAreNodes, JoinedType
  <2>2. LinksOf[node] = Links(node, Joined(LinksOf, node.children))  BY <1>3
  <2> QED  BY <2>1, <2>2, LinksType
<1> HIDE DEF S
<1>5. Nodes \subseteq S  BY <1>4, NodeInduction
<1>6. \A node \in Nodes : LinksOf[node] \in A  BY <1>5 DEF S
<1> QED  BY <1>3, <1>6

\* NodesOf does so too.
LEMMA NodesOfIs ==
    \A node \in Nodes : NodesOf[node] = {node} \cup UNION {NodesOf[child] : child \in ToSet(node.children)}
<1> DEFINE A == SUBSET Nodes
           visit == [p \in Nodes \X Seq(A) |-> {p[1]} \cup UNION ToSet(p[2])]
           Is(f) == f = [node \in Nodes |-> {node} \cup UNION {f[child] : child \in ToSet(node.children)}]
<1>1. IsVisit(visit, A)
  <2>1. ASSUME NEW node \in Nodes, NEW s \in Seq(A) PROVE {node} \cup UNION ToSet(s) \in A
        BY DEF ToSet
  <2> HIDE DEF A
  <2> QED  BY <2>1 DEF IsVisit
<1>2. \E f : Is(f)
  <2>1. PICK f \in [Nodes -> A] : \A node \in Nodes : f[node] = visit[<<node, Made(f, node.children)>>]
    <3> HIDE DEF A, visit
    <3> QED  BY <1>1, WalkExists
  <2>2. ASSUME NEW node \in Nodes
        PROVE  f[node] = {node} \cup UNION {f[child] : child \in ToSet(node.children)}
    <3> HIDE DEF A
    <3>1. Made(f, node.children) \in Seq(A)  BY ChildrenAreNodes, MadeIs
    <3>2. visit[<<node, Made(f, node.children)>>] = {node} \cup UNION ToSet(Made(f, node.children))
          BY <3>1
    <3>3. ToSet(Made(f, node.children)) = {f[child] : child \in ToSet(node.children)}
          BY DEF Made, ToSet
    <3> QED  BY <2>1, <3>2, <3>3
  <2>3. Is(f)
    <3> HIDE DEF A
    <3>1. f = [node \in Nodes |-> f[node]]  OBVIOUS
    <3> QED  BY <3>1, <2>2, Zenon
  <2> QED  BY <2>3
<1>3. Is(NodesOf)  BY <1>2, Zenon DEF NodesOf
<1> QED  BY <1>3, Zenon
-----------------------------------------------------------------------------
(* The links of a text are those of its HTML *)

LEMMA HtmlTimes ==
    ASSUME NEW node \in Nodes, NEW s \in Seq(Pieces), NEW doc \in Linked
    PROVE  Times(doc, Html(node, s)) =
             IF node.type \in {"text", "upload"} \/ s = <<>> THEN 0
             ELSE Times(doc, s) + IF node.type = "link" /\ node.doc = doc /\ node.populated THEN 1 ELSE 0
<1>1. doc \notin Words /\ doc # Undefined /\ doc # Address /\ doc # ""  BY TextAssumption
<1>2. node.type \in {"text", "element", "link", "upload"}  BY TextAssumption DEF IsNode
<1>3. Times(doc, <<>>) = 0
  <2>1. <<>> \in Seq(Pieces) /\ doc \notin ToSet(<<>>)  BY DEF ToSet
  <2> QED  BY <2>1, TimesIs
<1>4. Times(doc, <<Address>>) = 0 /\ Times(doc, <<Undefined>>) = 0  BY <1>1, TimesOfOne
<1>5. CASE node.type = "text"
  <2>1. node.words \in Seq(Words)  BY <1>5, TextAssumption DEF IsNode
  <2>2. doc \notin ToSet(node.words)
    <3>1. ToSet(node.words) \subseteq Words  BY <2>1 DEF ToSet
    <3> QED  BY <3>1, <1>1
  <2>3. Times(doc, node.words) = 0  BY <2>1, <2>2, TimesIs
  <2>4. Html(node, s) = node.words  BY <1>5 DEF Html
  <2> QED  BY <2>3, <2>4, <1>5
<1>6. CASE node.type = "upload"  BY <1>3, <1>4, <1>6 DEF Html
<1>7. CASE node.type = "element"
  <2>1. Html(node, s) = s  BY <1>7 DEF Html
  <2>2. Times(doc, s) \in Nat  BY TimesIs
  <2> QED  BY <2>1, <2>2, <1>3, <1>7
<1>8. CASE node.type = "link"
  <2> DEFINE target == Target(node)
  <2>1. Html(node, s) = IF s = <<>> THEN <<>> ELSE <<target>> \o s  BY <1>8 DEF Html
  <2>2. node.doc \in Linked \cup {""}  BY <1>8, TextAssumption DEF IsNode
  <2>3. target \in Pieces  BY <2>2 DEF Pieces, Target
  <2>4. doc = target <=> node.doc = doc /\ node.populated  BY <1>1, <2>2 DEF Target
  <2> HIDE DEF target
  <2>5. Times(doc, <<target>>) = IF node.doc = doc /\ node.populated THEN 1 ELSE 0  BY <2>4, TimesOfOne
  <2>6. <<target>> \in Seq(Pieces)  BY <2>3
  <2>7. Times(doc, <<target>> \o s) = Times(doc, <<target>>) + Times(doc, s)  BY <2>6, TimesConcat
  <2>8. Times(doc, s) \in Nat  BY TimesIs
  <2> QED  BY <2>1, <2>5, <2>7, <2>8, <1>3, <1>8
<1> QED  BY <1>2, <1>5, <1>6, <1>7, <1>8

LEMMA LinksTimes ==
    ASSUME NEW node \in Nodes, NEW l \in Seq(Linked), NEW doc \in Linked
    PROVE  Times(doc, Links(node, l)) =
             Times(doc, l) + IF node.type = "link" /\ node.doc = doc THEN 1 ELSE 0
<1> DEFINE own == IF node.type = "link" /\ node.doc # "" THEN <<node.doc>> ELSE <<>>
<1>1. doc # ""  BY TextAssumption
<1>2. node.type = "link" => node.doc \in Linked \cup {""}  BY TextAssumption DEF IsNode
<1>3. own \in Seq(Linked) /\ Times(doc, own) = IF node.type = "link" /\ node.doc = doc THEN 1 ELSE 0
  <2>1. CASE node.type = "link" /\ node.doc # ""
    <3>1. own = <<node.doc>> /\ node.doc \in Linked  BY <2>1, <1>2
    <3>2. <<node.doc>> \in Seq(Linked)
      <4> HIDE DEF own
      <4> QED  BY <3>1, ShortLists
    <3>3. Times(doc, <<node.doc>>) = IF doc = node.doc THEN 1 ELSE 0  BY TimesOfOne
    <3> HIDE DEF own
    <3> QED  BY <3>1, <3>2, <3>3, <2>1
  <2>2. CASE ~(node.type = "link" /\ node.doc # "")
    <3>1. own = <<>> /\ <<>> \in Seq(Linked) /\ doc \notin ToSet(<<>>)
      <4>1. own = <<>>  BY <2>2
      <4> HIDE DEF own
      <4> QED  BY <4>1, ShortLists
    <3>2. Times(doc, <<>>) = 0  BY <3>1, TimesIs
    <3> HIDE DEF own
    <3> QED  BY <3>1, <3>2, <2>2, <1>1
  <2> QED  BY <2>1, <2>2
<1>4. Links(node, l) = l \o own  BY DEF Links
<1> HIDE DEF own
<1>5. Times(doc, l \o own) = Times(doc, l) + Times(doc, own)  BY <1>3, TimesConcat
<1> QED  BY <1>3, <1>4, <1>5

LEMMA WalksAre ==
    ASSUME NEW node \in Nodes
    PROVE  /\ HtmlOf[node] = Html(node, Serialize(node.children))
           /\ LinksOf[node] = Links(node, GetInternalLinks(node.children))
<1>1. HtmlOf[node] = Html(node, Joined(HtmlOf, node.children))  BY HtmlOfIs
<1>2. LinksOf[node] = Links(node, Joined(LinksOf, node.children))  BY LinksOfIs
<1> QED  BY <1>1, <1>2 DEF Serialize, GetInternalLinks

\* What the walks make of a list is what they made of each of its nodes.
LEMMA ListsAre ==
    ASSUME NEW nodes \in Seq(Nodes)
    PROVE  /\ Serialize(nodes) = FlattenSeq(Made(HtmlOf, nodes))
           /\ GetInternalLinks(nodes) = FlattenSeq(Made(LinksOf, nodes))
           /\ Made(HtmlOf, nodes) \in Seq(Seq(Pieces)) /\ Len(Made(HtmlOf, nodes)) = Len(nodes)
           /\ Made(LinksOf, nodes) \in Seq(Seq(Linked)) /\ Len(Made(LinksOf, nodes)) = Len(nodes)
           /\ Serialize(nodes) \in Seq(Pieces) /\ GetInternalLinks(nodes) \in Seq(Linked)
           /\ Linked \subseteq Pieces
<1>1. ToSet(nodes) \subseteq Nodes  BY DEF ToSet
<1>2. \A node \in ToSet(nodes) : HtmlOf[node] \in Seq(Pieces)  BY <1>1, HtmlOfIs
<1>3. \A node \in ToSet(nodes) : LinksOf[node] \in Seq(Linked)  BY <1>1, LinksOfIs
<1>4. Linked \subseteq Pieces  BY DEF Pieces
<1>5. /\ Joined(HtmlOf, nodes) = FlattenSeq(Made(HtmlOf, nodes)) /\ Joined(HtmlOf, nodes) \in Seq(Pieces)
      /\ Made(HtmlOf, nodes) \in Seq(Seq(Pieces)) /\ Len(Made(HtmlOf, nodes)) = Len(nodes)
      BY <1>2, JoinedType
<1>6. /\ Joined(LinksOf, nodes) = FlattenSeq(Made(LinksOf, nodes)) /\ Joined(LinksOf, nodes) \in Seq(Linked)
      /\ Made(LinksOf, nodes) \in Seq(Seq(Linked)) /\ Len(Made(LinksOf, nodes)) = Len(nodes)
      BY <1>3, JoinedType
<1> QED  BY <1>4, <1>5, <1>6 DEF Serialize, GetInternalLinks

\* A document is in the HTML of a list at most as often as in its links when that
\* is so of each node; and the other way round.
LEMMA ListsCompare ==
    ASSUME NEW nodes \in Seq(Nodes), NEW doc
    PROVE  /\ (\A node \in ToSet(nodes) : Times(doc, HtmlOf[node]) <= Times(doc, LinksOf[node]))
                => Times(doc, Serialize(nodes)) <= Times(doc, GetInternalLinks(nodes))
           /\ (\A node \in ToSet(nodes) : Times(doc, LinksOf[node]) <= Times(doc, HtmlOf[node]))
                => Times(doc, GetInternalLinks(nodes)) <= Times(doc, Serialize(nodes))
<1> DEFINE h == Made(HtmlOf, nodes)
           l == Made(LinksOf, nodes)
<1>1. /\ Serialize(nodes) = FlattenSeq(h) /\ GetInternalLinks(nodes) = FlattenSeq(l)
      /\ h \in Seq(Seq(Pieces)) /\ Len(h) = Len(nodes)
      /\ l \in Seq(Seq(Linked)) /\ Len(l) = Len(nodes)
      BY ListsAre
<1>2. l \in Seq(Seq(Pieces))
  <2>1. Seq(Linked) \subseteq Seq(Pieces)  BY ListsAre
  <2> HIDE DEF l
  <2> QED  BY <1>1, <2>1
<1>3. \A i \in 1 .. Len(nodes) :
        nodes[i] \in ToSet(nodes) /\ h[i] = HtmlOf[nodes[i]] /\ l[i] = LinksOf[nodes[i]]
      BY DEF ToSet, Made
<1> HIDE DEF h, l
<1>4. ASSUME \A node \in ToSet(nodes) : Times(doc, HtmlOf[node]) <= Times(doc, LinksOf[node])
      PROVE  Times(doc, FlattenSeq(h)) <= Times(doc, FlattenSeq(l))
  <2>1. \A i \in 1 .. Len(h) : Times(doc, h[i]) <= Times(doc, l[i])  BY <1>1, <1>3, <1>4
  <2> QED  BY <1>1, <1>2, <2>1, TimesFlatten
<1>5. ASSUME \A node \in ToSet(nodes) : Times(doc, LinksOf[node]) <= Times(doc, HtmlOf[node])
      PROVE  Times(doc, FlattenSeq(l)) <= Times(doc, FlattenSeq(h))
  <2>1. \A i \in 1 .. Len(l) : Times(doc, l[i]) <= Times(doc, h[i])  BY <1>1, <1>3, <1>5
  <2> QED  BY <1>1, <1>2, <2>1, TimesFlatten
<1> QED  BY <1>1, <1>4, <1>5

LEMMA HtmlAtMostLinks ==
    ASSUME NEW doc \in Linked
    PROVE  \A node \in Nodes : Times(doc, HtmlOf[node]) <= Times(doc, LinksOf[node])
<1> DEFINE S == {node \in Nodes : Times(doc, HtmlOf[node]) <= Times(doc, LinksOf[node])}
<1>1. ASSUME NEW node \in Nodes, ToSet(node.children) \subseteq S PROVE node \in S
  <2> DEFINE s == Serialize(node.children)
             l == GetInternalLinks(node.children)
  <2>1. s \in Seq(Pieces) /\ l \in Seq(Linked)  BY ChildrenAreNodes, ListsAre
  <2>2. Times(doc, s) <= Times(doc, l)  BY <1>1, ChildrenAreNodes, ListsCompare
  <2>3. Times(doc, s) \in Nat /\ Times(doc, l) \in Nat  BY <2>1, TimesIs
  <2>4. HtmlOf[node] = Html(node, s) /\ LinksOf[node] = Links(node, l)  BY WalksAre
  <2> HIDE DEF s, l
  <2>5. Times(doc, Html(node, s)) =
          IF node.type \in {"text", "upload"} \/ s = <<>> THEN 0
          ELSE Times(doc, s) + IF node.type = "link" /\ node.doc = doc /\ node.populated THEN 1 ELSE 0
        BY <2>1, HtmlTimes
  <2>6. Times(doc, Links(node, l)) = Times(doc, l) + IF node.type = "link" /\ node.doc = doc THEN 1 ELSE 0
        BY <2>1, LinksTimes
  <2>7. Times(doc, Html(node, s)) <= Times(doc, Links(node, l))  BY <2>2, <2>3, <2>5, <2>6
  <2> QED  BY <2>4, <2>7
<1> HIDE DEF S
<1>2. Nodes \subseteq S  BY <1>1, NodeInduction
<1> QED  BY <1>2 DEF S

\* A node that leaves nothing out.
Shows(node) ==
    /\ node.type # "upload"
    /\ node.type = "link" => node.populated /\ Serialize(node.children) # <<>>

LEMMA LinksAtMostHtml ==
    ASSUME NEW doc \in Linked
    PROVE  \A node \in Nodes : (\A n \in NodesOf[node] : Shows(n)) =>
             Times(doc, LinksOf[node]) <= Times(doc, HtmlOf[node])
<1> DEFINE S == {node \in Nodes : (\A n \in NodesOf[node] : Shows(n)) =>
                   Times(doc, LinksOf[node]) <= Times(doc, HtmlOf[node])}
<1>1. ASSUME NEW node \in Nodes, ToSet(node.children) \subseteq S, \A n \in NodesOf[node] : Shows(n)
      PROVE  Times(doc, LinksOf[node]) <= Times(doc, HtmlOf[node])
  <2> DEFINE s == Serialize(node.children)
             l == GetInternalLinks(node.children)
  <2>1. s \in Seq(Pieces) /\ l \in Seq(Linked)  BY ChildrenAreNodes, ListsAre
  <2>2. \A child \in ToSet(node.children) : \A n \in NodesOf[child] : Shows(n)  BY <1>1, NodesOfIs
  <2>3. \A child \in ToSet(node.children) : Times(doc, LinksOf[child]) <= Times(doc, HtmlOf[child])
        BY <1>1, <2>2
  <2>4. Times(doc, l) <= Times(doc, s)  BY <2>3, ChildrenAreNodes, ListsCompare
  <2>5. Times(doc, s) \in Nat /\ Times(doc, l) \in Nat  BY <2>1, TimesIs
  <2>6. HtmlOf[node] = Html(node, s) /\ LinksOf[node] = Links(node, l)  BY WalksAre
  <2>7. node.type # "upload" /\ (node.type = "link" => node.populated /\ s # <<>>)
    <3>1. node \in NodesOf[node]  BY NodesOfIs
    <3> QED  BY <1>1, <3>1 DEF Shows
  <2>8. s = <<>> => Times(doc, s) = 0
    <3>1. doc \notin ToSet(<<>>)  BY DEF ToSet
    <3> HIDE DEF s
    <3> QED  BY <2>1, <3>1, TimesIs
  <2>9. node.type = "text" => Times(doc, s) = 0 /\ Times(doc, l) = 0
    <3> SUFFICES ASSUME node.type = "text" PROVE Times(doc, s) = 0 /\ Times(doc, l) = 0  OBVIOUS
    <3>1. node = Text(node.words)  BY TextAssumption DEF IsNode
    <3>2. node.children = <<>>
      <4>1. Text(node.words).children = <<>>  BY DEF Text
      <4> QED  BY <3>1, <4>1
    <3>3. <<>> \in Seq(Nodes)  OBVIOUS
    <3>4. Made(HtmlOf, <<>>) = <<>>  BY DEF Made
    <3>5. FlattenSeq(<<>>) = <<>>
      <4>1. <<>> \in Seq(Seq(Pieces)) /\ Len(<<>>) = 0  OBVIOUS
      <4>2. PICK f \in [0 .. 0 -> Seq(Pieces)] : f[0] = <<>> /\ FlattenSeq(<<>>) = f[0]
            BY <4>1, FlattenSeqSteps
      <4> QED  BY <4>2
    <3>6. s = <<>>  BY <3>2, <3>3, <3>4, <3>5, ListsAre
    <3>7. Times(doc, s) = 0  BY <3>6, <2>8
    <3> HIDE DEF s, l
    <3> QED  BY <2>4, <2>5, <3>7
  <2> HIDE DEF s, l
  <2>10. node.type \in {"text", "element", "link", "upload"}  BY TextAssumption DEF IsNode
  <2>11. Times(doc, Html(node, s)) =
          IF node.type \in {"text", "upload"} \/ s = <<>> THEN 0
          ELSE Times(doc, s) + IF node.type = "link" /\ node.doc = doc /\ node.populated THEN 1 ELSE 0
        BY <2>1, HtmlTimes
  <2>12. Times(doc, Links(node, l)) = Times(doc, l) + IF node.type = "link" /\ node.doc = doc THEN 1 ELSE 0
        BY <2>1, LinksTimes
  <2>13. Times(doc, Links(node, l)) <= Times(doc, Html(node, s))
         BY <2>4, <2>5, <2>7, <2>8, <2>9, <2>11, <2>12
  <2> QED  BY <2>6, <2>13
<1> HIDE DEF Shows
<1>2. \A node \in Nodes : ToSet(node.children) \subseteq S => node \in S  BY <1>1
<1> HIDE DEF S
<1>3. Nodes \subseteq S  BY <1>2, NodeInduction
<1> QED  BY <1>3 DEF S
LEMMA CopiedIs ==
    ASSUME NEW d \in Docs, NEW t \in RichTexts
    PROVE  /\ Copied(d, t) \in Seq(Nodes)
           /\ Plain(t) => \A node \in ToSet(Copied(d, t)) : \A n \in NodesOf[node] : Shows(n)
<1>1. t \in Seq(Nodes) /\ ToSet(t) \subseteq Nodes
  <2>1. t \in Seq(Nodes)  BY DerivedAssumption
  <2> QED  BY <2>1 DEF ToSet
<1>2. Plain(t) => \A node \in ToSet(t) : \A n \in NodesOf[node] : Shows(n)
      BY DEF Plain, Shows
<1>3. CASE KindOf[d] = "story"
  <2>1. Copied(d, t) = t  BY <1>3 DEF Copied
  <2> QED  BY <2>1, <1>1, <1>2
<1>4. CASE KindOf[d] # "story"
  <2> DEFINE lists == [i \in DOMAIN t |-> t[i].children]
  <2>1. Copied(d, t) = FlattenSeq(lists)  BY <1>4 DEF Copied
  <2>2. \A i \in DOMAIN t : t[i] \in ToSet(t) /\ t[i] \in Nodes /\ lists[i] = t[i].children
        BY <1>1 DEF ToSet
  <2>3. lists \in Seq(Seq(Nodes)) /\ DOMAIN lists = DOMAIN t
    <3>1. DOMAIN t = 1 .. Len(t) /\ Len(t) \in Nat  BY <1>1
    <3>2. \A i \in 1 .. Len(t) : t[i].children \in Seq(Nodes)  BY <2>2, <3>1, ChildrenAreNodes
    <3> QED  BY <3>1, <3>2, IsASeq
  <2> HIDE DEF lists
  <2>4. /\ FlattenSeq(lists) \in Seq(Nodes)
        /\ \A x : x \in ToSet(FlattenSeq(lists)) <=> \E i \in DOMAIN lists : x \in ToSet(lists[i])
        BY <2>3, FlattenSeqElements
  <2>5. ASSUME Plain(t), NEW node \in ToSet(Copied(d, t)), NEW n \in NodesOf[node] PROVE Shows(n)
    <3>1. PICK i \in DOMAIN t : node \in ToSet(t[i].children)  BY <2>1, <2>2, <2>3, <2>4, <2>5
    <3>2. n \in NodesOf[t[i]]  BY <3>1, <2>2, <2>5, NodesOfIs
    <3> QED  BY <3>2, <2>2, <2>5, <1>2
  <2> QED  BY <2>1, <2>4, <2>5
<1> QED  BY <1>3, <1>4

-----------------------------------------------------------------------------
(* The copies of rich texts *)

RichTypeOK ==
    /\ rich \in [Docs -> [text : RichTexts \cup {None}, html : Seq(Pieces), links : Seq(Linked)]]
    /\ saves \in 0 .. MaxSaves

DerivedInv == SlugsInv /\ RichTypeOK /\ LinksAreListed

\* The step of a media document or of a user is one of MediaSlugs, and leaves the
\* rich texts alone; that of a text is the other way round.
LEMMA DerivedSteps ==
    ASSUME RichTypeOK, [DerivedNext]_derivedVars
    PROVE  /\ [SlugsNext]_slugVars
           /\ saves' \in 0 .. MaxSaves
           /\ UNCHANGED rich \/ \E d \in Docs, t \in RichTexts \cup {None} : SaveText(d, t)
<1>1. saves \in 0 .. MaxSaves /\ MaxSaves \in Nat  BY DerivedAssumption DEF RichTypeOK
<1>2. OneMore => saves' \in 0 .. MaxSaves  BY <1>1 DEF OneMore
<1>3. CASE SaveDocuments  BY <1>1, <1>2, <1>3 DEF SaveDocuments, SlugsNext
<1>4. CASE \E d \in Docs, t \in RichTexts \cup {None} : SaveText(d, t)
      BY <1>2, <1>4 DEF SaveText
<1>5. CASE UNCHANGED derivedVars  BY <1>1, <1>5 DEF derivedVars
<1> QED  BY <1>3, <1>4, <1>5 DEF DerivedNext

LEMMA DerivedInvInit == DerivedInit => DerivedInv
<1> SUFFICES ASSUME DerivedInit PROVE DerivedInv  OBVIOUS
<1>1. SlugsInv  BY SlugsInvInit DEF DerivedInit
<1>2. rich = [d \in Docs |-> [text |-> None, html |-> <<>>, links |-> <<>>]] /\ saves = 0
      BY DEF DerivedInit
<1>3. <<>> \in Seq(Pieces) /\ <<>> \in Seq(Linked)  BY ShortLists
<1>4. RichTypeOK  BY <1>2, <1>3, DerivedAssumption DEF RichTypeOK
<1>5. LinksAreListed
  <2>1. ASSUME NEW doc PROVE Times(doc, <<>>) \in Nat
    <3>1. <<>> \in Seq(Nat)  OBVIOUS
    <3> QED  BY <3>1, TimesIs
  <2>2. \A d \in Docs : rich[d].html = <<>> /\ rich[d].links = <<>>  BY <1>2
  <2>3. ASSUME NEW d \in Docs, NEW doc
        PROVE  /\ Times(doc, rich[d].html) <= Times(doc, rich[d].links)
               /\ Times(doc, rich[d].html) = Times(doc, rich[d].links)
        BY <2>1, <2>2
  <2> QED  BY <2>3 DEF LinksAreListed
<1> QED  BY <1>1, <1>4, <1>5 DEF DerivedInv

\* What a save of a text leaves in its document.
LEMMA SaveTextKeeps ==
    ASSUME RichTypeOK, LinksAreListed, NEW d \in Docs, NEW t \in RichTexts \cup {None}, SaveText(d, t)
    PROVE  /\ rich' \in [Docs -> [text : RichTexts \cup {None}, html : Seq(Pieces), links : Seq(Linked)]]
           /\ LinksAreListed'
<1> DEFINE R == [text : RichTexts \cup {None}, html : Seq(Pieces), links : Seq(Linked)]
           c == Copied(d, t)
           new == IF t = None THEN [rich[d] EXCEPT !.text = None]
                  ELSE [text |-> t, html |-> Serialize(c), links |-> GetInternalLinks(c)]
           AreListed(r) == \A doc \in Linked :
             /\ Times(doc, r.html) <= Times(doc, r.links)
             /\ (r.text # None /\ Plain(r.text)) => Times(doc, r.html) = Times(doc, r.links)
<1>1. rich \in [Docs -> R] /\ \A e \in Docs : AreListed(rich[e])  BY DEF RichTypeOK, LinksAreListed
<1>2. rich' = [rich EXCEPT ![d] = new]  BY DEF SaveText
<1>3. CASE t = None
  <2>1. new = [rich[d] EXCEPT !.text = None]  BY <1>3
  <2>2. new \in R /\ new.html = rich[d].html /\ new.links = rich[d].links /\ new.text = None
        BY <2>1, <1>1
  <2> HIDE DEF new
  <2>3. new \in R /\ AreListed(new)  BY <2>2, <1>1
  <2>4. rich' \in [Docs -> R] /\ \A e \in Docs : AreListed(rich'[e])
        BY <2>3, <1>1, <1>2
  <2> QED  BY <2>4 DEF LinksAreListed
<1>4. CASE t # None
  <2>1. t \in RichTexts  BY <1>4
  <2>2. c \in Seq(Nodes) /\ (Plain(t) => \A node \in ToSet(c) : \A n \in NodesOf[node] : Shows(n))
        BY <2>1, CopiedIs
  <2>3. ToSet(c) \subseteq Nodes
    <3> HIDE DEF c
    <3> QED  BY <2>2 DEF ToSet
  <2> HIDE DEF c
  <2>4. Serialize(c) \in Seq(Pieces) /\ GetInternalLinks(c) \in Seq(Linked)  BY <2>2, ListsAre
  <2>5. new = [text |-> t, html |-> Serialize(c), links |-> GetInternalLinks(c)]  BY <1>4
  <2>6. ASSUME NEW doc \in Linked
        PROVE  /\ Times(doc, Serialize(c)) <= Times(doc, GetInternalLinks(c))
               /\ Plain(t) => Times(doc, Serialize(c)) = Times(doc, GetInternalLinks(c))
    <3>1. \A node \in ToSet(c) : Times(doc, HtmlOf[node]) <= Times(doc, LinksOf[node])
          BY <2>3, HtmlAtMostLinks
    <3>2. Times(doc, Serialize(c)) <= Times(doc, GetInternalLinks(c))
          BY <3>1, <2>2, ListsCompare
    <3>3. ASSUME Plain(t) PROVE Times(doc, GetInternalLinks(c)) <= Times(doc, Serialize(c))
      <4>1. \A node \in ToSet(c) : \A n \in NodesOf[node] : Shows(n)  BY <3>3, <2>2
      <4>2. \A node \in ToSet(c) : Times(doc, LinksOf[node]) <= Times(doc, HtmlOf[node])
            BY <4>1, <2>3, LinksAtMostHtml
      <4> QED  BY <4>2, <2>2, ListsCompare
    <3>4. Times(doc, Serialize(c)) \in Nat /\ Times(doc, GetInternalLinks(c)) \in Nat
          BY <2>4, TimesIs
    <3> QED  BY <3>2, <3>3, <3>4
  <2>7. /\ new \in R /\ new.text = t
        /\ new.html = Serialize(c) /\ new.links = GetInternalLinks(c)
        BY <2>1, <2>4, <2>5
  <2> HIDE DEF new
  <2>8. AreListed(new)  BY <2>6, <2>7
  <2>9. rich' \in [Docs -> R] /\ \A e \in Docs : AreListed(rich'[e])
        BY <2>7, <2>8, <1>1, <1>2
  <2> QED  BY <2>9 DEF LinksAreListed
<1> QED  BY <1>3, <1>4

LEMMA DerivedInvStep == DerivedInv /\ [DerivedNext]_derivedVars => DerivedInv'
<1> SUFFICES ASSUME DerivedInv, [DerivedNext]_derivedVars PROVE DerivedInv'  OBVIOUS
<1>1. SlugsInv /\ RichTypeOK /\ LinksAreListed  BY DEF DerivedInv
<1>2. /\ [SlugsNext]_slugVars /\ saves' \in 0 .. MaxSaves
      /\ UNCHANGED rich \/ \E d \in Docs, t \in RichTexts \cup {None} : SaveText(d, t)
      BY <1>1, DerivedSteps
<1>3. SlugsInv'  BY <1>1, <1>2, SlugsInvStep
<1>4. CASE UNCHANGED rich
      BY <1>1, <1>2, <1>3, <1>4 DEF DerivedInv, RichTypeOK, LinksAreListed
<1>5. CASE \E d \in Docs, t \in RichTexts \cup {None} : SaveText(d, t)
      BY <1>1, <1>2, <1>3, <1>5, SaveTextKeeps DEF DerivedInv, RichTypeOK
<1> QED  BY <1>2, <1>4, <1>5

\* Every document keeps a text, what is shown of it and links of their types, and
\* every media document its slug, for all texts that nest only so deep
\* (TextUtils.ts; SlugField.ts).
THEOREM DerivedTypeCorrect == DerivedSpec => [](SlugsTypeOK /\ RichTypeOK)
<1> DerivedInv => SlugsTypeOK /\ RichTypeOK  BY DEF DerivedInv, SlugsInv
<1> QED  BY DerivedInvInit, DerivedInvStep, PTL DEF DerivedSpec

\* Every document that the stored HTML links to is in the stored list of links as
\* often, and nothing else is unless the text has links without words or uploads:
\* the two walks of TextUtils.ts, which visit a node before and after its children,
\* count the same, whatever the texts and however deep they nest.
THEOREM LinksAlwaysListed == DerivedSpec => []LinksAreListed
<1> DerivedInv => LinksAreListed  BY DEF DerivedInv
<1> QED  BY DerivedInvInit, DerivedInvStep, PTL DEF DerivedSpec

\* Rich texts, slugs and photos side by side: the slugs and the photos behave as
\* those of MediaSlugs do, and so what a slug finds and what a photo's address is
\* are as they are there (ContentBlockHooks.ts, SlugField.ts, Users.ts).
THEOREM DerivedImplementsSlugs ==
    /\ DerivedSpec => SlugsSpec
    /\ DerivedSpec => [](ShownSlugFinds /\ PhotoUrlIsExplained)
<1>1. DerivedInit => SlugsInit  BY DEF DerivedInit
<1>2. DerivedInv /\ [DerivedNext]_derivedVars => [SlugsNext]_slugVars
      BY DerivedSteps DEF DerivedInv
<1>3. DerivedInv => ShownSlugFinds
      BY StoredSlugsAreFound DEF DerivedInv
<1>4. DerivedSpec => SlugsSpec
      BY <1>1, <1>2, DerivedInvInit, DerivedInvStep, PTL DEF DerivedSpec, SlugsSpec
<1>5. DerivedInv => PhotoUrlIsExplained
      BY DEF DerivedInv, SlugsInv, PhotosInv
<1> QED
    BY <1>3, <1>4, <1>5, DerivedInvInit, DerivedInvStep, PTL DEF DerivedSpec
=============================================================================
