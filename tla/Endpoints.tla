------------------------------ MODULE Endpoints ------------------------------
(***************************************************************************)
(* The HTTP handlers of one server process: the four probes, the lookup by *)
(* slug, the oEmbed lookup and the request to restart the instance; and    *)
(* the policy of the deployment, which starts a process that failed again, *)
(* a number of times.                                                      *)
(*                                                                         *)
(* Nothing in the server listens to unhandledRejection or to               *)
(* uncaughtException, and Express 4 does not look at the promise of an     *)
(* async handler: a rejection that no handler catches ends the process,    *)
(* and with it every request that is open.                                 *)
(***************************************************************************)
EXTENDS Naturals

CONSTANTS
    Requests,    (* HTTP requests *)
    MaxAttempts, (* restarts the policy grants *)
    MaxOutages   (* bound: times the database goes away *)

ASSUME EndpointsAssumption == MaxAttempts \in Nat /\ MaxOutages \in Nat

Probes == {"backofficeHealth", "apiHealth", "ready", "startup"}
Users == {"nobody", "editor", "admin"}

\* A lookup by slug is about a collection that has a field for it, or not; an
\* oEmbed lookup comes without an url, with a text, or with the object that
\* Express makes of ?url[x]=1.
Asks ==
    [path : Probes, user : {"nobody"}, sort : {"plain"}]
        \cup [path : {"restart"}, user : Users, sort : {"plain"}]
        \cup [path : {"bySlug"}, user : {"nobody"}, sort : {"slugs", "noSlugs"}]
        \cup [path : {"oembed"}, user : {"nobody", "editor"}, sort : {"noUrl", "text", "object"}]
NoAsk == [path |-> "none", user |-> "nobody", sort |-> "plain"]

VARIABLES
    server,     (* the process; it never ends by itself with code 0, "ended" *)
    attempts,   (* restarts so far *)
    database,   (* whether the database can be reached *)
    outages,    (* times it went away *)
    host,       (* what the probe takes from the database's url: none, right, or wrong *)
    envConfig,  (* the file env-config.js of this deployment *)
    ask,        (* what each request asks for *)
    at,         (* the await its handler is at, or what became of it *)
    status,     (* the status it was answered with, 0 when it was not *)
    operations, (* the restarts recorded in the database, by request *)
    culprits,   (* history: requests whose handler ended the process *)
    garbled     (* history: oEmbed lookups whose body was not JSON *)

deployment == <<host, envConfig>>
vars == <<server, attempts, database, outages, deployment, ask, at, status,
          operations, culprits, garbled>>

\* The entrypoint of the image writes env-config.js; without it the file is
\* missing, or what somebody put there.  The probe's regular expression takes no
\* host from some urls, and from one with several hosts a name that is nobody's.
Init ==
    /\ server = "starting" /\ attempts = 0
    /\ database \in BOOLEAN /\ outages = 0
    /\ host \in {"right", "none", "wrong"}
    /\ envConfig \in {"valid", "invalid", "missing"}
    /\ ask = [r \in Requests |-> NoAsk]
    /\ at = [r \in Requests |-> "none"]
    /\ status = [r \in Requests |-> 0]
    /\ operations = {} /\ culprits = {} /\ garbled = {}

Awaits == {"find", "stat", "read", "connect", "create", "get", "body"}
Open(r) == at[r] \in Awaits \cup {"unanswered"}

Answers(r, code) ==
    /\ at' = [at EXCEPT ![r] = "answered"]
    /\ status' = [status EXCEPT ![r] = code]
    /\ UNCHANGED <<server, culprits>>

Goes(r, await) == at' = [at EXCEPT ![r] = await] /\ UNCHANGED <<server, status, culprits>>

\* The process is gone, and so are the connections of its requests, with those
\* that are just being handled.
Exits(how, handled) ==
    /\ server' = how
    /\ at' = [r \in Requests |-> IF Open(r) \/ r \in handled THEN "dropped" ELSE at[r]]
    /\ UNCHANGED status

\* An error in the handler of r that nobody catches.
Throws(r) == Exits("failed", {r}) /\ culprits' = culprits \cup {r}

outside == <<attempts, database, outages, deployment>>

-----------------------------------------------------------------------------
(* The routes exist once payload.init is over *)

HandleProbe(r, a) ==
    \/ a.path = "apiHealth" /\ Goes(r, "find")
    \/ a.path = "backofficeHealth" /\ Goes(r, "stat")
    \/ a.path = "ready" /\ IF host = "none" THEN Answers(r, 500) ELSE Goes(r, "connect")
    \/ a.path = "startup" /\ Answers(r, 200)

\* A refused restart returns an object, which Express ignores.
HandleRestart(r, a) ==
    /\ a.path = "restart"
    /\ Goes(r, IF a.user = "admin" THEN "create" ELSE "unanswered")

\* A refused lookup sets a status it does not send; an object has no indexOf, and
\* the handler is async: its error is a rejection.
HandleLookup(r, a) ==
    /\ a.path = "oembed"
    /\ \/ a.user = "nobody" /\ Goes(r, "unanswered")
       \/ a.user # "nobody" /\ a.sort = "object" /\ Throws(r)
       \/ a.user # "nobody" /\ a.sort # "object" /\ Goes(r, "get")

HandleBySlug(r, a) == a.path = "bySlug" /\ Goes(r, "find")

Arrive(r, a) ==
    /\ at[r] = "none" /\ server \in {"starting", "serving"}
    /\ ask' = [ask EXCEPT ![r] = a]
    /\ IF server = "starting" THEN Answers(r, 404)
       ELSE HandleProbe(r, a) \/ HandleRestart(r, a) \/ HandleLookup(r, a) \/ HandleBySlug(r, a)
    /\ UNCHANGED <<outside, operations, garbled>>

\* The lookup by slug does not catch a find that rejects, and Payload refuses to
\* look for a field the collection does not have: alerts have no slug.
BySlugSettles(r) ==
    /\ at[r] = "find" /\ ask[r].path = "bySlug"
    /\ IF database /\ ask[r].sort = "slugs"
       THEN \E code \in {200, 404} : Answers(r, code)
       ELSE Throws(r)
    /\ UNCHANGED <<outside, ask, operations, garbled>>

\* Mutant: the health probe does not catch either.
HealthSettles_Uncaught(r) ==
    /\ at[r] = "find" /\ ask[r].path = "apiHealth"
    /\ IF database THEN Answers(r, 200) ELSE Throws(r)
    /\ UNCHANGED <<outside, ask, operations, garbled>>

\* The health probe does.
HealthSettles(r) ==
    /\ at[r] = "find" /\ ask[r].path = "apiHealth"
    /\ Answers(r, IF database THEN 200 ELSE 500)
    /\ UNCHANGED <<outside, ask, operations, garbled>>

\* stat() rejects for a missing file: the branch that answers 404 is not reached.
StatSettles(r) ==
    /\ at[r] = "stat"
    /\ IF envConfig = "missing" THEN Throws(r) ELSE Goes(r, "read")
    /\ UNCHANGED <<outside, ask, operations, garbled>>

ReadSettles(r) ==
    /\ at[r] = "read"
    /\ Answers(r, IF envConfig = "valid" THEN 200 ELSE 500)
    /\ UNCHANGED <<outside, ask, operations, garbled>>

\* Mutant: the socket's errors are logged.
ConnectSettles_Logged(r) ==
    /\ at[r] = "connect"
    /\ IF database /\ host = "right" THEN Answers(r, 200) ELSE Goes(r, "unanswered")
    /\ UNCHANGED <<outside, ask, operations, garbled>>

\* The socket has no listener for its errors: no connection, or no such host.
ConnectSettles(r) ==
    /\ at[r] = "connect"
    /\ IF database /\ host = "right" THEN Answers(r, 200) ELSE Throws(r)
    /\ UNCHANGED <<outside, ask, operations, garbled>>

\* Mutant: the process exits with code 0.
CreateSettles_Clean(r) ==
    /\ at[r] = "create" /\ database
    /\ operations' = operations \cup {r}
    /\ Exits("ended", {r}) /\ culprits' = culprits \cup {r}
    /\ UNCHANGED <<outside, ask, garbled>>

\* Mutant: the record is not awaited.
CreateSettles_NotAwaited(r) ==
    /\ at[r] = "create"
    /\ operations' \in {operations, operations \cup {r}}
    /\ Throws(r)
    /\ UNCHANGED <<outside, ask, garbled>>

\* The restart is recorded and then the process exits; a create that rejects
\* ends it no less.
CreateSettles(r) ==
    /\ at[r] = "create"
    /\ operations' = IF database THEN operations \cup {r} ELSE operations
    /\ Throws(r)
    /\ UNCHANGED <<outside, ask, garbled>>

\* The provider answers 200, or else a status is set and not sent.
LookupSettles(r) ==
    /\ at[r] = "get"
    /\ Goes(r, "body") \/ Goes(r, "unanswered")
    /\ UNCHANGED <<outside, ask, operations, garbled>>

\* JSON.parse is called in the listener for the end of the body.  A body that
\* breaks off does not end.  Without a url the status has been set to 400.
BodySettles(r) ==
    /\ at[r] = "body"
    /\ \/ Answers(r, IF ask[r].sort = "text" THEN 200 ELSE 400) /\ UNCHANGED garbled
       \/ Throws(r) /\ garbled' = garbled \cup {r}
       \/ Goes(r, "unanswered") /\ UNCHANGED garbled
    /\ UNCHANGED <<outside, ask, operations>>

-----------------------------------------------------------------------------
(* The process and what is around it *)

\* payload.init connects to the database, and exits without it.
InitSettles ==
    /\ server = "starting"
    /\ IF database THEN server' = "serving" /\ UNCHANGED <<at, status>> ELSE Exits("failed", {})
    /\ UNCHANGED <<outside, ask, operations, culprits, garbled>>

\* SIGINT: the process exits with code 0.
Interrupt ==
    /\ server \in {"starting", "serving"}
    /\ Exits("interrupted", {})
    /\ UNCHANGED <<outside, ask, operations, culprits, garbled>>

\* The policy: on failure, and not for ever.
Restart ==
    /\ server = "failed" /\ attempts < MaxAttempts
    /\ server' = "starting" /\ attempts' = attempts + 1
    /\ UNCHANGED <<database, outages, deployment, ask, at, status, operations, culprits, garbled>>

DatabaseGoes ==
    /\ database /\ outages < MaxOutages
    /\ database' = FALSE /\ outages' = outages + 1
    /\ UNCHANGED <<server, attempts, deployment, ask, at, status, operations, culprits, garbled>>

DatabaseReturns ==
    /\ ~database /\ database' = TRUE
    /\ UNCHANGED <<server, attempts, outages, deployment, ask, at, status, operations, culprits, garbled>>

HandlerStep(r) == BySlugSettles(r) \/ HealthSettles(r) \/ StatSettles(r) \/ ReadSettles(r)
                      \/ ConnectSettles(r) \/ CreateSettles(r)
LookupStep(r) == LookupSettles(r) \/ BodySettles(r)
ProcessStep == InitSettles \/ Restart

Next ==
    \/ \E r \in Requests, a \in Asks : Arrive(r, a)
    \/ \E r \in Requests : HandlerStep(r) \/ LookupStep(r)
    \/ ProcessStep \/ Interrupt \/ DatabaseGoes \/ DatabaseReturns

\* What the server waits for from the database, the disk and a socket settles
\* one way or the other, each of them has a timeout; an oEmbed provider need not
\* answer.  A process starts, and the policy does what it says.
Fairness == (\A r \in Requests : WF_vars(HandlerStep(r))) /\ WF_vars(ProcessStep)

Spec == Init /\ [][Next]_vars /\ Fairness

-----------------------------------------------------------------------------
(* Properties *)

TypeOK ==
    /\ server \in {"starting", "serving", "failed", "interrupted", "ended"}
    /\ attempts \in 0 .. MaxAttempts /\ outages \in 0 .. MaxOutages
    /\ database \in BOOLEAN /\ host \in {"right", "none", "wrong"}
    /\ envConfig \in {"valid", "invalid", "missing"}
    /\ ask \in [Requests -> Asks \cup {NoAsk}]
    /\ at \in [Requests -> Awaits \cup {"none", "answered", "unanswered", "dropped"}]
    /\ status \in [Requests -> {0, 200, 400, 404, 500}]
    /\ \A r \in Requests : status[r] # 0 <=> at[r] = "answered"
    /\ operations \subseteq Requests /\ culprits \subseteq Requests /\ garbled \subseteq Requests

Asked(r, path) == ask[r].path = path

\* No request ends the process, but for a restart an admin asked for; an oEmbed
\* lookup by somebody who is logged in, of an object or with a provider that sent
\* what is not JSON; the backoffice probe of a deployment without its file; the
\* readiness probe where it takes a wrong host from the url or once the database
\* has been away; and a lookup by slug, then or in a collection without slugs.
\* The health probe of the API never does.
OnlyFaultsKill ==
    \A r \in culprits :
        \/ Asked(r, "restart") /\ ask[r].user = "admin"
        \/ Asked(r, "oembed") /\ ask[r].user # "nobody" /\ (ask[r].sort = "object" \/ r \in garbled)
        \/ Asked(r, "backofficeHealth") /\ envConfig = "missing"
        \/ Asked(r, "ready") /\ host # "none" /\ (host = "wrong" \/ outages > 0)
        \/ Asked(r, "bySlug") /\ (ask[r].sort = "noSlugs" \/ outages > 0)

\* What is recorded as a restart has ended a process, and a restart that has
\* ended one is recorded, unless the database was away.
RestartsAreRecorded ==
    /\ operations \subseteq culprits
    /\ \A r \in culprits : Asked(r, "restart") /\ outages = 0 => r \in operations

\* Every request is answered, or loses its connection when the process ends,
\* whatever the database does; but for oEmbed lookups, which wait for a provider
\* and are not answered when they are refused, and restarts that are refused.
RequestsAreSettled ==
    \A r \in Requests :
        /\ ask[r].path \in Probes \cup {"bySlug"} ~> at[r] \in {"answered", "dropped"}
        /\ Asked(r, "restart") /\ ask[r].user = "admin" ~> at[r] \in {"answered", "dropped"}

\* Whatever ended it, the instance serves again, unless it was interrupted or
\* has used up what the policy grants: a restart somebody asked for included.
InstanceComesBack ==
    []<>(server \in {"serving", "interrupted"} \/ attempts = MaxAttempts)
=============================================================================
