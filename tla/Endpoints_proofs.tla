--------------------------- MODULE Endpoints_proofs ---------------------------
(***************************************************************************)
(* Proofs about Endpoints, for any requests, any number of restarts and of *)
(* outages: the type, what may end the process, and the record of restarts;*)
(* and about OEmbedPreview, which shows what one of the endpoints answers, *)
(* for any blocks, addresses and scripts.                                  *)
(***************************************************************************)
EXTENDS Endpoints, OEmbedPreview, TLAPS

USE EndpointsAssumption DEF EndpointsAssumption

\* What a handler awaits tells what was asked for, and a process that awaits
\* something serves.
AwaitsMatch ==
    \A r \in Requests :
        /\ at[r] \in Awaits => server = "serving"
        /\ at[r] = "find" => ask[r].path \in {"bySlug", "apiHealth"}
        /\ at[r] \in {"stat", "read"} => ask[r].path = "backofficeHealth"
        /\ at[r] = "connect" => ask[r].path = "ready" /\ host # "none"
        /\ at[r] = "create" => ask[r].path = "restart" /\ ask[r].user = "admin"
        /\ at[r] \in {"get", "body"} => ask[r].path = "oembed" /\ ask[r].user # "nobody"

\* A server that serves had a database when it started.
AwayIsAnOutage == server = "serving" /\ ~database => outages > 0

\* The handler of a culprit is over: it is not run again.
CulpritsAreOver == \A r \in culprits : at[r] = "dropped"

IInv == TypeOK /\ AwaitsMatch /\ AwayIsAnOutage /\ CulpritsAreOver
            /\ OnlyFaultsKill /\ RestartsAreRecorded

-----------------------------------------------------------------------------
(* The type *)

\* What a handler asks of the process keeps the type of the process's state.
ProcessTyped(s, a, st) ==
    /\ s \in {"starting", "serving", "failed", "interrupted", "ended"}
    /\ a \in [Requests -> Awaits \cup {"none", "answered", "unanswered", "dropped"}]
    /\ st \in [Requests -> {0, 200, 400, 404, 500}]
    /\ \A r \in Requests : st[r] # 0 <=> a[r] = "answered"

LEMMA AnswersTyped ==
    ASSUME TypeOK, NEW r \in Requests, NEW code \in {200, 400, 404, 500}, Answers(r, code)
    PROVE  ProcessTyped(server', at', status') /\ culprits' = culprits
<1>1. server' = server /\ culprits' = culprits  BY DEF Answers
<1>2. at' \in [Requests -> Awaits \cup {"none", "answered", "unanswered", "dropped"}]
      BY DEF Answers, TypeOK
<1>3. status' \in [Requests -> {0, 200, 400, 404, 500}]  BY DEF Answers, TypeOK
<1>4. \A q \in Requests : status'[q] # 0 <=> at'[q] = "answered"  BY DEF Answers, TypeOK
<1> QED  BY <1>1, <1>2, <1>3, <1>4 DEF ProcessTyped, TypeOK

LEMMA GoesTyped ==
    ASSUME TypeOK, NEW r \in Requests, at[r] # "answered",
           NEW await \in Awaits \cup {"unanswered"}, Goes(r, await)
    PROVE  ProcessTyped(server', at', status') /\ culprits' = culprits
<1>1. server' = server /\ status' = status /\ culprits' = culprits  BY DEF Goes
<1>2. at' \in [Requests -> Awaits \cup {"none", "answered", "unanswered", "dropped"}]
      BY DEF Goes, TypeOK
<1>3. \A q \in Requests : status'[q] # 0 <=> at'[q] = "answered"
      BY <1>1 DEF Goes, TypeOK, Awaits
<1> QED  BY <1>1, <1>2, <1>3 DEF ProcessTyped, TypeOK

LEMMA ExitsTyped ==
    ASSUME TypeOK, NEW how \in {"failed", "interrupted"}, NEW handled \in SUBSET Requests,
           \A r \in handled : at[r] # "answered", Exits(how, handled)
    PROVE  ProcessTyped(server', at', status')
<1>1. server' = how /\ status' = status  BY DEF Exits
<1>2. at' \in [Requests -> Awaits \cup {"none", "answered", "unanswered", "dropped"}]
      BY DEF Exits, TypeOK
<1>3. \A q \in Requests : status'[q] # 0 <=> at'[q] = "answered"
      BY <1>1 DEF Exits, Open, TypeOK, Awaits
<1> QED  BY <1>1, <1>2, <1>3 DEF ProcessTyped, TypeOK

LEMMA ThrowsTyped ==
    ASSUME TypeOK, NEW r \in Requests, at[r] # "answered", Throws(r)
    PROVE  ProcessTyped(server', at', status') /\ culprits' \subseteq Requests
<1>1. {r} \in SUBSET Requests /\ \A q \in {r} : at[q] # "answered"  OBVIOUS
<1> QED  BY <1>1, ExitsTyped DEF Throws, TypeOK

\* The conjuncts of the type that the state of the process does not settle.
RestTyped ==
    /\ attempts' \in 0 .. MaxAttempts /\ outages' \in 0 .. MaxOutages
    /\ database' \in BOOLEAN /\ host' \in {"right", "none", "wrong"}
    /\ envConfig' \in {"valid", "invalid", "missing"}
    /\ ask' \in [Requests -> Asks \cup {NoAsk}]
    /\ operations' \subseteq Requests /\ culprits' \subseteq Requests /\ garbled' \subseteq Requests

LEMMA Together == ProcessTyped(server', at', status') /\ RestTyped => TypeOK'
BY DEF ProcessTyped, RestTyped, TypeOK

LEMMA TypeInit == Init => TypeOK
<1> SUFFICES ASSUME Init PROVE TypeOK  OBVIOUS
<1>1. attempts \in 0 .. MaxAttempts /\ outages \in 0 .. MaxOutages  BY DEF Init
<1> QED  BY <1>1 DEF Init, TypeOK

LEMMA ArriveTyped ==
    ASSUME TypeOK, NEW r \in Requests, NEW a \in Asks, Arrive(r, a)
    PROVE  TypeOK'
<1>1. at[r] = "none"  BY DEF Arrive
<1>2. ProcessTyped(server', at', status') /\ culprits' \subseteq Requests
  <2>1. CASE server = "starting"  BY <2>1, AnswersTyped DEF Arrive, TypeOK
  <2>2. CASE server # "starting"
    <3>1. HandleProbe(r, a) \/ HandleRestart(r, a) \/ HandleLookup(r, a) \/ HandleBySlug(r, a)
          BY <2>2 DEF Arrive
    <3>2. CASE \E await \in Awaits \cup {"unanswered"} : Goes(r, await)
          BY <1>1, <3>2, GoesTyped DEF TypeOK
    <3>3. CASE \E code \in {200, 500} : Answers(r, code)  BY <3>3, AnswersTyped DEF TypeOK
    <3>4. CASE Throws(r)  BY <1>1, <3>4, ThrowsTyped
    <3> QED  BY <3>1, <3>2, <3>3, <3>4
             DEF HandleProbe, HandleRestart, HandleLookup, HandleBySlug, Awaits
  <2> QED  BY <2>1, <2>2
<1>3. RestTyped  BY <1>2 DEF Arrive, outside, deployment, TypeOK, RestTyped
<1> QED  BY <1>2, <1>3, Together

LEMMA TypeStep == TypeOK /\ [Next]_vars => TypeOK'
<1> SUFFICES ASSUME TypeOK, [Next]_vars PROVE TypeOK'  OBVIOUS
<1>1. ASSUME NEW r \in Requests, NEW a \in Asks, Arrive(r, a) PROVE TypeOK'
      BY <1>1, ArriveTyped
<1>2. ASSUME NEW r \in Requests, BySlugSettles(r) \/ HealthSettles(r) PROVE TypeOK'
  <2>1. ProcessTyped(server', at', status') /\ culprits' \subseteq Requests
    <3>1. CASE Throws(r)  BY <1>2, <3>1, ThrowsTyped DEF BySlugSettles, HealthSettles
    <3>2. CASE \E code \in {200, 404, 500} : Answers(r, code)
          BY <3>2, AnswersTyped DEF TypeOK
    <3> QED  BY <1>2, <3>1, <3>2 DEF BySlugSettles, HealthSettles
  <2>2. RestTyped
        BY <1>2, <2>1 DEF BySlugSettles, HealthSettles, outside, deployment, TypeOK, RestTyped
  <2> QED  BY <2>1, <2>2, Together
<1>3. ASSUME NEW r \in Requests, StatSettles(r) PROVE TypeOK'
  <2>1. ProcessTyped(server', at', status') /\ culprits' \subseteq Requests
    <3>1. CASE Throws(r)  BY <1>3, <3>1, ThrowsTyped DEF StatSettles
    <3>2. CASE Goes(r, "read")  BY <1>3, <3>2, GoesTyped DEF StatSettles, TypeOK, Awaits
    <3> QED  BY <1>3, <3>1, <3>2 DEF StatSettles
  <2>2. RestTyped  BY <1>3, <2>1 DEF StatSettles, outside, deployment, TypeOK, RestTyped
  <2> QED  BY <2>1, <2>2, Together
<1>4. ASSUME NEW r \in Requests, ReadSettles(r) PROVE TypeOK'
  <2>1. ProcessTyped(server', at', status') /\ culprits' \subseteq Requests
        BY <1>4, AnswersTyped DEF ReadSettles, TypeOK
  <2>2. RestTyped  BY <1>4, <2>1 DEF ReadSettles, outside, deployment, TypeOK, RestTyped
  <2> QED  BY <2>1, <2>2, Together
<1>5. ASSUME NEW r \in Requests, ConnectSettles(r) PROVE TypeOK'
  <2>1. ProcessTyped(server', at', status') /\ culprits' \subseteq Requests
        BY <1>5, AnswersTyped, ThrowsTyped DEF ConnectSettles, TypeOK
  <2>2. RestTyped  BY <1>5, <2>1 DEF ConnectSettles, outside, deployment, TypeOK, RestTyped
  <2> QED  BY <2>1, <2>2, Together
<1>6. ASSUME NEW r \in Requests, CreateSettles(r) PROVE TypeOK'
  <2>1. ProcessTyped(server', at', status') /\ culprits' \subseteq Requests
        BY <1>6, ThrowsTyped DEF CreateSettles
  <2>2. RestTyped  BY <1>6, <2>1 DEF CreateSettles, outside, deployment, TypeOK, RestTyped
  <2> QED  BY <2>1, <2>2, Together
<1>7. ASSUME NEW r \in Requests, LookupSettles(r) PROVE TypeOK'
  <2>1. ProcessTyped(server', at', status') /\ culprits' \subseteq Requests
        BY <1>7, GoesTyped DEF LookupSettles, TypeOK, Awaits
  <2>2. RestTyped  BY <1>7, <2>1 DEF LookupSettles, outside, deployment, TypeOK, RestTyped
  <2> QED  BY <2>1, <2>2, Together
<1>8. ASSUME NEW r \in Requests, BodySettles(r) PROVE TypeOK'
  <2>1. ProcessTyped(server', at', status') /\ culprits' \subseteq Requests
    <3>1. CASE Throws(r)  BY <1>8, <3>1, ThrowsTyped DEF BodySettles
    <3>2. CASE Goes(r, "unanswered")  BY <1>8, <3>2, GoesTyped DEF BodySettles, TypeOK, Awaits
    <3>3. CASE \E code \in {200, 400} : Answers(r, code)  BY <3>3, AnswersTyped DEF TypeOK
    <3> QED  BY <1>8, <3>1, <3>2, <3>3 DEF BodySettles
  <2>2. garbled' \subseteq Requests  BY <1>8 DEF BodySettles, TypeOK
  <2>3. RestTyped  BY <1>8, <2>1, <2>2 DEF BodySettles, outside, deployment, TypeOK, RestTyped
  <2> QED  BY <2>1, <2>3, Together
<1>9. CASE InitSettles
  <2>1. CASE Exits("failed", {})
    <3>1. {} \in SUBSET Requests /\ \A q \in {} : at[q] # "answered"  OBVIOUS
    <3>2. ProcessTyped(server', at', status')  BY <2>1, <3>1, ExitsTyped
    <3>3. RestTyped  BY <1>9 DEF InitSettles, outside, deployment, TypeOK, RestTyped
    <3> QED  BY <3>2, <3>3, Together
  <2>2. CASE server' = "serving" /\ UNCHANGED <<at, status>>
    <3>1. ProcessTyped(server', at', status')  BY <2>2 DEF ProcessTyped, TypeOK
    <3>2. RestTyped  BY <1>9 DEF InitSettles, outside, deployment, TypeOK, RestTyped
    <3> QED  BY <3>1, <3>2, Together
  <2> QED  BY <1>9, <2>1, <2>2 DEF InitSettles
<1>10. CASE Interrupt
  <2>0. {} \in SUBSET Requests /\ \A q \in {} : at[q] # "answered"  OBVIOUS
  <2>1. ProcessTyped(server', at', status')  BY <1>10, <2>0, ExitsTyped DEF Interrupt
  <2>2. RestTyped  BY <1>10 DEF Interrupt, outside, deployment, TypeOK, RestTyped
  <2> QED  BY <2>1, <2>2, Together
<1>11. CASE Restart
  <2>1. attempts' \in 0 .. MaxAttempts  BY <1>11 DEF Restart, TypeOK
  <2> QED  BY <1>11, <2>1 DEF Restart, deployment, TypeOK
<1>12. CASE DatabaseGoes
  <2>1. outages' \in 0 .. MaxOutages  BY <1>12 DEF DatabaseGoes, TypeOK
  <2> QED  BY <1>12, <2>1 DEF DatabaseGoes, deployment, TypeOK
<1>13. CASE DatabaseReturns  BY <1>13 DEF DatabaseReturns, deployment, TypeOK
<1>14. CASE UNCHANGED vars  BY <1>14 DEF vars, deployment, TypeOK
<1> QED  BY <1>1, <1>2, <1>3, <1>4, <1>5, <1>6, <1>7, <1>8, <1>9, <1>10, <1>11, <1>12,
            <1>13, <1>14 DEF Next, HandlerStep, LookupStep, ProcessStep

\* The state of the server, of its requests and of its database keeps its type.
THEOREM TypeCorrect == Spec => []TypeOK
BY TypeInit, TypeStep, PTL DEF Spec

-----------------------------------------------------------------------------
(* What ends the process *)

\* The steps that handlers take, by what they do to the process.
Continues(r) ==
    /\ at[r] \in Awaits
    /\ UNCHANGED <<ask, database, outages, host, envConfig, operations>>
    /\ garbled' = garbled
    /\ \/ \E code \in {200, 400, 404, 500} : Answers(r, code)
       \/ Goes(r, "unanswered")
       \/ at[r] = "stat" /\ Goes(r, "read")
       \/ at[r] = "get" /\ Goes(r, "body")

\* A fault that ends the process, with what is known of its handler.
Faults(r) ==
    /\ at[r] \in Awaits
    /\ UNCHANGED <<ask, outages, host, envConfig>>
    /\ garbled \subseteq garbled'
    /\ Throws(r)
    /\ \/ /\ at[r] = "find" /\ ask[r].path = "bySlug" /\ (ask[r].sort = "noSlugs" \/ ~database)
          /\ operations' = operations
       \/ at[r] = "stat" /\ envConfig = "missing" /\ operations' = operations
       \/ at[r] = "connect" /\ (host # "right" \/ ~database) /\ operations' = operations
       \/ at[r] = "create" /\ operations' = IF database THEN operations \cup {r} ELSE operations
       \/ at[r] = "body" /\ r \in garbled' /\ operations' = operations

LEMMA HandlerSteps ==
    ASSUME IInv, NEW r \in Requests, HandlerStep(r) \/ LookupStep(r)
    PROVE  Continues(r) \/ Faults(r)
<1>0. ask[r].path = "bySlug" => ask[r].sort \in {"slugs", "noSlugs"}
  <2>1. ask[r] \in Asks \cup {NoAsk}  BY DEF IInv, TypeOK
  <2>2. CASE ask[r] \in [path : {"bySlug"}, user : {"nobody"}, sort : {"slugs", "noSlugs"}]
        BY <2>2
  <2>3. CASE ask[r] = NoAsk  BY <2>3 DEF NoAsk
  <2>4. CASE ask[r] \in [path : Probes, user : {"nobody"}, sort : {"plain"}]
        BY <2>4 DEF Probes
  <2>5. CASE ask[r] \in [path : {"restart"}, user : Users, sort : {"plain"}]  BY <2>5
  <2>6. CASE ask[r] \in [path : {"oembed"}, user : {"nobody", "editor"}, sort : {"noUrl", "text", "object"}]
        BY <2>6
  <2> QED  BY <2>1, <2>2, <2>3, <2>4, <2>5, <2>6 DEF Asks
<1>1. CASE BySlugSettles(r) \/ HealthSettles(r)
      BY <1>0, <1>1 DEF BySlugSettles, HealthSettles, outside, deployment, Continues, Faults, Awaits
<1>2. CASE StatSettles(r)
      BY <1>2 DEF StatSettles, outside, deployment, Continues, Faults, Awaits
<1>3. CASE ReadSettles(r)
      BY <1>3 DEF ReadSettles, outside, deployment, Continues, Awaits
<1>4. CASE ConnectSettles(r)
      BY <1>4 DEF ConnectSettles, outside, deployment, Continues, Faults, Awaits
<1>5. CASE CreateSettles(r)
      BY <1>5 DEF CreateSettles, outside, deployment, Faults, Awaits
<1>6. CASE LookupSettles(r)
      BY <1>6 DEF LookupSettles, outside, deployment, Continues, Awaits
<1>7. CASE BodySettles(r)
      BY <1>7 DEF BodySettles, outside, deployment, Continues, Faults, Awaits
<1> QED  BY <1>1, <1>2, <1>3, <1>4, <1>5, <1>6, <1>7 DEF HandlerStep, LookupStep

LEMMA IInvInit == Init => IInv
<1> SUFFICES ASSUME Init PROVE IInv  OBVIOUS
<1>1. TypeOK  BY TypeInit
<1>2. AwaitsMatch /\ AwayIsAnOutage  BY DEF Init, AwaitsMatch, AwayIsAnOutage, Awaits
<1>3. CulpritsAreOver /\ OnlyFaultsKill /\ RestartsAreRecorded
      BY DEF Init, CulpritsAreOver, OnlyFaultsKill, RestartsAreRecorded
<1> QED  BY <1>1, <1>2, <1>3 DEF IInv

\* A process that exits leaves nothing that awaits anything.
LEMMA ExitsDrops ==
    ASSUME NEW how \in {"failed", "interrupted"}, NEW handled, Exits(how, handled)
    PROVE  /\ AwaitsMatch' /\ AwayIsAnOutage'
           /\ \A q \in Requests : at'[q] = IF Open(q) \/ q \in handled THEN "dropped" ELSE at[q]
<1>1. \A q \in Requests : at'[q] = IF Open(q) \/ q \in handled THEN "dropped" ELSE at[q]
      BY DEF Exits
<1>2. \A q \in Requests : at'[q] \notin Awaits  BY <1>1 DEF Open, Awaits
<1>3. AwaitsMatch'  BY <1>2 DEF AwaitsMatch, Awaits
<1>4. AwayIsAnOutage'  BY DEF Exits, AwayIsAnOutage
<1> QED  BY <1>1, <1>3, <1>4

\* What is named as a fault by OnlyFaultsKill.
IsFault(r) ==
    \/ Asked(r, "restart") /\ ask[r].user = "admin"
    \/ Asked(r, "oembed") /\ ask[r].user # "nobody" /\ (ask[r].sort = "object" \/ r \in garbled)
    \/ Asked(r, "backofficeHealth") /\ envConfig = "missing"
    \/ Asked(r, "ready") /\ host # "none" /\ (host = "wrong" \/ outages > 0)
    \/ Asked(r, "bySlug") /\ (ask[r].sort = "noSlugs" \/ outages > 0)

\* A handler that ends the process by a fault, recorded when it is a restart.
LEMMA ThrowsKeeps ==
    ASSUME IInv, NEW r \in Requests, Throws(r), TypeOK',
           UNCHANGED <<outages, host, envConfig>>, garbled \subseteq garbled',
           \A q \in Requests \ {r} : ask'[q] = ask[q],
           \A q \in culprits : ask'[q] = ask[q],
           IsFault(r)',
           operations \subseteq operations', operations' \subseteq operations \cup {r},
           Asked(r, "restart")' /\ outages = 0 => r \in operations'
    PROVE  IInv'
<1> USE DEF IInv
<1>1. Exits("failed", {r}) /\ culprits' = culprits \cup {r}  BY DEF Throws
<1>2. AwaitsMatch' /\ AwayIsAnOutage'  BY <1>1, ExitsDrops
<1>3. \A q \in Requests : at'[q] = IF Open(q) \/ q \in {r} THEN "dropped" ELSE at[q]
      BY <1>1, ExitsDrops
<1>4. CulpritsAreOver'  BY <1>1, <1>3 DEF CulpritsAreOver, Open, Awaits, TypeOK
<1>5. OnlyFaultsKill'
  <2>1. SUFFICES ASSUME NEW q \in culprits' PROVE IsFault(q)'
        BY DEF OnlyFaultsKill, IsFault
  <2>2. CASE q = r  BY <2>2
  <2>3. CASE q # r
    <3>1. q \in culprits /\ ask'[q] = ask[q]  BY <1>1, <2>3
    <3>2. IsFault(q)  BY <3>1 DEF OnlyFaultsKill, IsFault
    <3> QED  BY <3>1, <3>2 DEF IsFault, Asked
  <2> QED  BY <2>2, <2>3
<1>6. RestartsAreRecorded'
  <2>1. operations' \subseteq culprits'  BY <1>1 DEF RestartsAreRecorded
  <2>2. ASSUME NEW q \in culprits', Asked(q, "restart")', outages' = 0 PROVE q \in operations'
    <3>1. CASE q = r  BY <2>2, <3>1
    <3>2. CASE q # r
      <4>1. q \in culprits /\ Asked(q, "restart")  BY <1>1, <2>2, <3>2 DEF Asked
      <4> QED  BY <2>2, <4>1 DEF RestartsAreRecorded
    <3> QED  BY <3>1, <3>2
  <2> QED  BY <2>1, <2>2 DEF RestartsAreRecorded
<1> QED  BY <1>2, <1>4, <1>5, <1>6

LEMMA FaultsKeeps ==
    ASSUME IInv, NEW r \in Requests, Faults(r), TypeOK'
    PROVE  IInv'
<1> USE DEF IInv
<1>1. Throws(r) /\ UNCHANGED <<ask, outages, host, envConfig>> /\ garbled \subseteq garbled'
      BY DEF Faults
<1>2. ~database => outages > 0  BY DEF Faults, AwaitsMatch, AwayIsAnOutage
<1>3. IsFault(r)'
      BY <1>1, <1>2 DEF Faults, AwaitsMatch, IsFault, Asked, TypeOK
<1>4. operations \subseteq operations' /\ operations' \subseteq operations \cup {r}
      BY DEF Faults
<1>5. Asked(r, "restart")' /\ outages = 0 => r \in operations'
      BY <1>1, <1>2 DEF Faults, AwaitsMatch, Asked
<1> QED  BY <1>1, <1>3, <1>4, <1>5, ThrowsKeeps

\* A request that arrives and ends nothing.
HandledSafely(r, a) ==
    \/ server = "starting" /\ Answers(r, 404)
    \/ server = "serving" /\ (HandleProbe(r, a) \/ HandleRestart(r, a) \/ HandleBySlug(r, a))
    \/ server = "serving" /\ a.path = "oembed" /\ Goes(r, "unanswered")
    \/ server = "serving" /\ a.path = "oembed" /\ a.user # "nobody" /\ Goes(r, "get")

LEMMA SafelyKeeps ==
    ASSUME IInv, NEW r \in Requests, NEW a \in Asks, Arrive(r, a), HandledSafely(r, a)
    PROVE  IInv'
<1> USE DEF IInv
<1>1. at[r] = "none" /\ server \in {"starting", "serving"} /\ ask' = [ask EXCEPT ![r] = a]
      BY DEF Arrive
<1>2. UNCHANGED <<attempts, database, outages, host, envConfig, operations, garbled>>
      BY DEF Arrive, outside, deployment
<1>3. TypeOK'  BY ArriveTyped
<1>4. UNCHANGED <<server, culprits>>
      BY DEF HandledSafely, HandleProbe, HandleRestart, HandleBySlug, Answers, Goes
<1>5. \A q \in Requests \ {r} : at'[q] = at[q] /\ ask'[q] = ask[q]
      BY <1>1 DEF HandledSafely, HandleProbe, HandleRestart, HandleBySlug, Answers, Goes, TypeOK
<1>6. r \notin culprits  BY <1>1 DEF CulpritsAreOver
<1>7. ask'[r] = a  BY <1>1 DEF TypeOK
<1>8. AwaitsMatch'
  <2>1. CASE server = "starting"
    <3>1. at'[r] = "answered"  BY <2>1 DEF HandledSafely, Answers, TypeOK
    <3> QED  BY <3>1, <1>2, <1>4, <1>5 DEF AwaitsMatch, Awaits
  <2>2. CASE server = "serving"
    <3>1. /\ at'[r] \in {"find", "stat", "connect", "create", "get", "unanswered", "answered"}
          /\ at'[r] = "find" => a.path \in {"bySlug", "apiHealth"}
          /\ at'[r] = "stat" => a.path = "backofficeHealth"
          /\ at'[r] = "connect" => a.path = "ready" /\ host # "none"
          /\ at'[r] = "create" => a.path = "restart" /\ a.user = "admin"
          /\ at'[r] = "get" => a.path = "oembed" /\ a.user # "nobody"
          BY <2>2 DEF HandledSafely, HandleProbe, HandleRestart, HandleBySlug, Answers, Goes, TypeOK
    <3> QED  BY <2>2, <3>1, <1>2, <1>4, <1>5, <1>7 DEF AwaitsMatch, Awaits
  <2> QED  BY <1>1, <2>1, <2>2
<1>9. AwayIsAnOutage'  BY <1>2, <1>4 DEF AwayIsAnOutage
<1>10. CulpritsAreOver'  BY <1>4, <1>5, <1>6 DEF CulpritsAreOver, TypeOK
<1>11. OnlyFaultsKill'  BY <1>2, <1>4, <1>5, <1>6 DEF OnlyFaultsKill, Asked, TypeOK
<1>12. RestartsAreRecorded'
       BY <1>2, <1>4, <1>5, <1>6 DEF RestartsAreRecorded, Asked, TypeOK
<1> QED  BY <1>3, <1>8, <1>9, <1>10, <1>11, <1>12

LEMMA ArriveKeeps ==
    ASSUME IInv, NEW r \in Requests, NEW a \in Asks, Arrive(r, a)
    PROVE  IInv'
<1>1. at[r] = "none" /\ ask' = [ask EXCEPT ![r] = a]  BY DEF Arrive
<1>2. UNCHANGED <<outages, host, envConfig, operations, garbled>>
      BY DEF Arrive, outside, deployment
<1>3. CASE /\ server = "serving" /\ a.path = "oembed" /\ a.user # "nobody" /\ a.sort = "object"
           /\ Throws(r)
  <2>1. TypeOK'  BY ArriveTyped DEF IInv
  <2>2. r \notin culprits  BY <1>1 DEF IInv, CulpritsAreOver
  <2>3. ask'[r] = a /\ \A q \in Requests \ {r} : ask'[q] = ask[q]
        BY <1>1 DEF IInv, TypeOK
  <2>4. \A q \in culprits : ask'[q] = ask[q]  BY <2>2, <2>3 DEF IInv, TypeOK
  <2>5. IsFault(r)' /\ ~Asked(r, "restart")'  BY <1>3, <2>3 DEF IsFault, Asked
  <2> QED  BY <1>2, <1>3, <2>1, <2>3, <2>4, <2>5, ThrowsKeeps
<1>4. CASE HandledSafely(r, a)  BY <1>4, SafelyKeeps
<1> QED  BY <1>3, <1>4 DEF Arrive, HandleLookup, HandledSafely

LEMMA ContinuesKeeps ==
    ASSUME IInv, NEW r \in Requests, Continues(r), TypeOK'
    PROVE  IInv'
<1> USE DEF IInv
<1>1. UNCHANGED <<ask, database, outages, host, envConfig, operations, garbled, server, culprits>>
      BY DEF Continues, Answers, Goes
<1>2. \A q \in Requests \ {r} : at'[q] = at[q]  BY DEF Continues, Answers, Goes, TypeOK
<1>3. /\ at'[r] \in {"answered", "unanswered", "read", "body"}
      /\ at'[r] = "read" => at[r] = "stat"
      /\ at'[r] = "body" => at[r] = "get"
      BY DEF Continues, Answers, Goes, TypeOK
<1>4. server = "serving"  BY DEF Continues, AwaitsMatch
<1>5. AwaitsMatch'  BY <1>1, <1>2, <1>3, <1>4 DEF AwaitsMatch, Awaits
<1>6. AwayIsAnOutage'  BY <1>1 DEF AwayIsAnOutage
<1>7. r \notin culprits  BY DEF Continues, CulpritsAreOver, Awaits
<1>8. CulpritsAreOver'  BY <1>1, <1>2, <1>7 DEF CulpritsAreOver, TypeOK
<1>9. OnlyFaultsKill'  BY <1>1 DEF OnlyFaultsKill, Asked
<1>10. RestartsAreRecorded'  BY <1>1 DEF RestartsAreRecorded, Asked
<1> QED  BY <1>5, <1>6, <1>8, <1>9, <1>10

\* The process and its surroundings: no handler moves but for the ones that are dropped.
LEMMA SurroundingsKeep ==
    ASSUME IInv, ProcessStep \/ Interrupt \/ DatabaseGoes \/ DatabaseReturns, TypeOK'
    PROVE  IInv'
<1> USE DEF IInv
<1>1. UNCHANGED <<ask, host, envConfig, operations, culprits, garbled>>
      BY DEF ProcessStep, InitSettles, Restart, Interrupt, DatabaseGoes, DatabaseReturns,
             outside, deployment
<1>2. outages' = outages \/ outages' = outages + 1
      BY DEF ProcessStep, InitSettles, Restart, Interrupt, DatabaseGoes, DatabaseReturns,
             outside, deployment
<1>3. outages \in Nat /\ (outages > 0 => outages' > 0) /\ (outages' = 0 => outages = 0)
      BY <1>2 DEF TypeOK
<1>4. OnlyFaultsKill'  BY <1>1, <1>3 DEF OnlyFaultsKill, Asked
<1>5. RestartsAreRecorded'  BY <1>1, <1>3 DEF RestartsAreRecorded, Asked
<1>6. AwaitsMatch' /\ AwayIsAnOutage' /\ CulpritsAreOver'
  <2>1. CASE \E how \in {"failed", "interrupted"} : Exits(how, {})
        BY <2>1, <1>1, ExitsDrops DEF CulpritsAreOver, Open, Awaits, TypeOK
  <2>2. CASE InitSettles /\ database
        BY <2>2, <1>1 DEF InitSettles, outside, AwaitsMatch, AwayIsAnOutage, CulpritsAreOver
  <2>3. CASE Restart
    <3>1. \A q \in Requests : at[q] \notin Awaits  BY <2>3 DEF Restart, AwaitsMatch
    <3>2. at' = at /\ server' = "starting"  BY <2>3 DEF Restart
    <3> QED  BY <3>1, <3>2, <1>1 DEF AwaitsMatch, AwayIsAnOutage, CulpritsAreOver, Awaits
  <2>4. CASE DatabaseGoes
    <3>1. at' = at /\ server' = server /\ outages' > 0  BY <2>4 DEF DatabaseGoes, TypeOK
    <3> QED  BY <3>1, <1>1 DEF AwaitsMatch, AwayIsAnOutage, CulpritsAreOver
  <2>5. CASE DatabaseReturns
        BY <2>5, <1>1 DEF DatabaseReturns, AwaitsMatch, AwayIsAnOutage, CulpritsAreOver
  <2> QED  BY <2>1, <2>2, <2>3, <2>4, <2>5 DEF ProcessStep, InitSettles, Interrupt
<1> QED  BY <1>4, <1>5, <1>6

LEMMA IInvStep == IInv /\ [Next]_vars => IInv'
<1> SUFFICES ASSUME IInv, [Next]_vars PROVE IInv'  OBVIOUS
<1>1. TypeOK'  BY TypeStep DEF IInv
<1>2. ASSUME NEW r \in Requests, NEW a \in Asks, Arrive(r, a) PROVE IInv'
      BY <1>2, ArriveKeeps
<1>3. ASSUME NEW r \in Requests, HandlerStep(r) \/ LookupStep(r) PROVE IInv'
      BY <1>1, <1>3, HandlerSteps, ContinuesKeeps, FaultsKeeps
<1>4. CASE ProcessStep \/ Interrupt \/ DatabaseGoes \/ DatabaseReturns
      BY <1>1, <1>4, SurroundingsKeep
<1>5. CASE UNCHANGED vars
      BY <1>1, <1>5 DEF vars, deployment, IInv, AwaitsMatch, AwayIsAnOutage, CulpritsAreOver,
             OnlyFaultsKill, RestartsAreRecorded, Asked
<1> QED  BY <1>2, <1>3, <1>4, <1>5 DEF Next

\* No request ends the process but for the faults that OnlyFaultsKill names.
THEOREM OnlyFaultsEverKill == Spec => []OnlyFaultsKill
<1>1. IInv => OnlyFaultsKill  BY DEF IInv
<1> QED  BY <1>1, IInvInit, IInvStep, PTL DEF Spec

\* A restart that ended a process is recorded, and a recorded one has ended one.
THEOREM RestartsAlwaysRecorded == Spec => []RestartsAreRecorded
<1>1. IInv => RestartsAreRecorded  BY DEF IInv
<1> QED  BY <1>1, IInvInit, IInvStep, PTL DEF Spec

-----------------------------------------------------------------------------
(* The previews of what the oEmbed endpoint answers.  What matters of the  *)
(* fetches of a block is the latest; of the scripts in the page, that none *)
(* leaves it and that all but one have the id "null".                      *)

Fetches == [block : Blocks, url : Addresses, mounted : BOOLEAN, at : {"sent", "shown", "threw", "rejected"}]

\* The latest fetch of a preview is for the address of its block.
LatestIsWanted ==
    \A b \in Blocks, k \in DOMAIN fetches : Latest(b, k) => fetches[k].url = value[b]

\* Its answer is what the preview shows, or else one to an earlier fetch that came
\* later.
Overtakes(b, j, k) == j < k /\ Mine(b, j) /\ fetches[j].at = "shown" /\ shown[b] = fetches[j].url
Follows(b, k) ==
    fetches[k].at = "shown" =>
        \/ shown[b] = fetches[k].url
        \/ b \in overtaken /\ \E j \in DOMAIN fetches : Overtakes(b, j, k)
LatestIsShown == \A b \in Blocks, k \in DOMAIN fetches : Latest(b, k) => Follows(b, k)

Elements == [src : {ScriptOf[u] : u \in Addresses} \cup {Widgets}, id : {"twitter-wjs", "null"}]

\* The script that previews load for themselves is in the page as soon as there is
\* a fetch, and it alone has its id.
WidgetsAreThere ==
    /\ \A n \in DOMAIN scripts : scripts[n].id = "twitter-wjs" => scripts[n].src = Widgets
    /\ fetches # <<>> => \E n \in DOMAIN scripts : scripts[n].id = "twitter-wjs"

\* Each id is there once at most, and what the answers brought is another script.
IdsApart ==
    /\ \A m, n \in DOMAIN scripts : scripts[m].id = scripts[n].id => m = n
    /\ \A n \in DOMAIN scripts : scripts[n].id = "null" => scripts[n].src # Widgets

PreviewInv == PreviewTypeOK /\ LatestIsWanted /\ LatestIsShown /\ WidgetsAreThere /\ IdsApart

LEMMA PreviewInvInit == PreviewInit => PreviewInv
<1> SUFFICES ASSUME PreviewInit PROVE PreviewInv  OBVIOUS
<1>1. /\ fetches = <<>> /\ DOMAIN fetches = {} /\ scripts = <<>> /\ DOMAIN scripts = {}
      BY DEF PreviewInit
<1>2. PreviewTypeOK
  <2>1. fetches \in Seq(Fetches) /\ scripts \in Seq(Elements)  BY <1>1
  <2> QED  BY <1>1, <2>1 DEF PreviewInit, PreviewTypeOK, Fetches, Elements
<1>3. LatestIsWanted /\ LatestIsShown  BY <1>1 DEF LatestIsWanted, LatestIsShown
<1>4. WidgetsAreThere /\ IdsApart  BY <1>1 DEF WidgetsAreThere, IdsApart
<1> QED  BY <1>2, <1>3, <1>4 DEF PreviewInv

\* What is put into the page comes after what is there.
LEMMA Inserted ==
    ASSUME PreviewTypeOK, NEW script \in {ScriptOf[u] : u \in Addresses} \cup {Widgets},
           NEW id \in {"twitter-wjs", "null"}, Insert(script, id)
    PROVE  \E n \in Nat :
              /\ n \notin DOMAIN scripts /\ DOMAIN scripts' = DOMAIN scripts \cup {n}
              /\ \A m \in DOMAIN scripts : scripts'[m] = scripts[m]
              /\ scripts'[n].src = script /\ scripts'[n].id = id
              /\ scripts' \in Seq(Elements)
<1>1. scripts \in Seq(Elements)  BY DEF PreviewTypeOK, Elements
<1>2. PICK e : e = [src |-> script, id |-> id]  OBVIOUS
<1>3. e \in Elements /\ scripts' = Append(scripts, e)  BY <1>2 DEF Insert, Elements
<1>4. PICK n : n = Len(scripts) + 1  OBVIOUS
<1>5. /\ n \in Nat /\ n \notin DOMAIN scripts /\ DOMAIN scripts' = DOMAIN scripts \cup {n}
      /\ \A m \in DOMAIN scripts : scripts'[m] = scripts[m]
      /\ scripts'[n] = e /\ scripts' \in Seq(Elements)
      BY <1>1, <1>3, <1>4
<1> QED  BY <1>2, <1>5

LEMMA FetchesType ==
    ASSUME PreviewTypeOK
    PROVE  /\ fetches \in Seq(Fetches) /\ DOMAIN fetches = 1 .. Len(fetches) /\ Len(fetches) \in Nat
           /\ \A k \in DOMAIN fetches : fetches[k] \in Fetches
<1>1. fetches \in Seq(Fetches)  BY DEF PreviewTypeOK, Fetches
<1> QED  BY <1>1

LEMMA ChangeKeeps ==
    ASSUME PreviewInv, NEW b \in Blocks, NEW url \in Addresses, Change(b, url)
    PROVE  PreviewInv'
<1>n. PICK n : n = Len(fetches) + 1  OBVIOUS
<1>0. /\ fetches \in Seq(Fetches) /\ DOMAIN fetches = 1 .. Len(fetches) /\ Len(fetches) \in Nat
      /\ \A k \in DOMAIN fetches : fetches[k] \in Fetches
      BY FetchesType DEF PreviewInv
<1>1. /\ DOMAIN fetches' = DOMAIN fetches \cup {n} /\ n \notin DOMAIN fetches
      /\ \A k \in DOMAIN fetches : fetches'[k] = fetches[k] /\ k < n
      /\ fetches'[n] = [block |-> b, url |-> url, at |-> "sent", mounted |-> TRUE]
      /\ fetches' \in Seq(Fetches) /\ n \in Nat
  <2>1. PICK f : f = [block |-> b, url |-> url, at |-> "sent", mounted |-> TRUE]  OBVIOUS
  <2>2. fetches' = Append(fetches, f) /\ f \in Fetches  BY <2>1 DEF Change, Fetch, Fetches
  <2> QED  BY <1>0, <1>n, <2>1, <2>2
<1>2. /\ value' = [value EXCEPT ![b] = url] /\ overtaken' = overtaken \ {b}
      /\ UNCHANGED <<shown, broken>>
      BY DEF Change
<1>3. \/ scripts' = scripts /\ \E i \in DOMAIN scripts : scripts[i].id = "twitter-wjs"
      \/ Insert(Widgets, "twitter-wjs") /\ \A i \in DOMAIN scripts : scripts[i].id # "twitter-wjs"
      BY DEF Change, Found
<1>4. PreviewTypeOK' /\ WidgetsAreThere' /\ IdsApart'
  <2>1. scripts' \in Seq(Elements) /\ WidgetsAreThere' /\ IdsApart'
    <3>1. CASE scripts' = scripts /\ \E i \in DOMAIN scripts : scripts[i].id = "twitter-wjs"
          BY <3>1 DEF PreviewInv, PreviewTypeOK, Elements, WidgetsAreThere, IdsApart
    <3>2. CASE Insert(Widgets, "twitter-wjs") /\ \A i \in DOMAIN scripts : scripts[i].id # "twitter-wjs"
      <4>1. PICK e \in Nat :
              /\ e \notin DOMAIN scripts /\ DOMAIN scripts' = DOMAIN scripts \cup {e}
              /\ \A m \in DOMAIN scripts : scripts'[m] = scripts[m]
              /\ scripts'[e].src = Widgets /\ scripts'[e].id = "twitter-wjs"
              /\ scripts' \in Seq(Elements)
            BY <3>2, Inserted DEF PreviewInv
      <4> QED  BY <3>2, <4>1 DEF PreviewInv, WidgetsAreThere, IdsApart
    <3> QED  BY <1>3, <3>1, <3>2
  <2> QED  BY <1>1, <1>2, <2>1 DEF PreviewInv, PreviewTypeOK, Fetches, Elements
<1>5. ASSUME NEW c \in Blocks, NEW k \in DOMAIN fetches', Latest(c, k)'
      PROVE  \/ c = b /\ k = n
             \/ c # b /\ k \in DOMAIN fetches /\ Latest(c, k)
  <2>1. CASE c = b
    <3>1. Mine(b, n)'  BY <1>1 DEF Mine
    <3>2. n <= k  BY <1>1, <1>5, <2>1, <3>1 DEF Latest
    <3> QED  BY <1>0, <1>1, <2>1, <3>2
  <2>2. CASE c # b
    <3>1. k # n  BY <1>1, <1>5, <2>2 DEF Latest, Mine
    <3>2. k \in DOMAIN fetches /\ Mine(c, k)  BY <1>1, <1>5, <3>1 DEF Latest, Mine
    <3>3. \A j \in DOMAIN fetches : Mine(c, j) => j <= k  BY <1>1, <1>5 DEF Latest, Mine
    <3> QED  BY <2>2, <3>2, <3>3 DEF Latest
  <2> QED  BY <2>1, <2>2
<1>6. LatestIsWanted' /\ LatestIsShown'
  <2> SUFFICES ASSUME NEW c \in Blocks, NEW k \in DOMAIN fetches', Latest(c, k)'
               PROVE  /\ fetches'[k].url = value'[c]
                      /\ Follows(c, k)'
      BY DEF LatestIsWanted, LatestIsShown
  <2>1. CASE c = b /\ k = n  BY <1>1, <1>2, <2>1 DEF PreviewInv, PreviewTypeOK, Follows
  <2>2. CASE c # b /\ k \in DOMAIN fetches /\ Latest(c, k)
    <3>1. fetches'[k].url = value'[c]
          BY <1>1, <1>2, <2>2 DEF PreviewInv, PreviewTypeOK, LatestIsWanted
    <3>2. \A j \in DOMAIN fetches : Overtakes(c, j, k) => Overtakes(c, j, k)'
          BY <1>1, <1>2, <2>2 DEF Overtakes, Mine
    <3> QED  BY <1>1, <1>2, <2>2, <3>1, <3>2 DEF PreviewInv, LatestIsShown, Follows
  <2> QED  BY <1>5, <2>1, <2>2
<1> QED  BY <1>4, <1>6 DEF PreviewInv

LEMMA ClearKeeps ==
    ASSUME PreviewInv, NEW b \in Blocks, Clear(b)
    PROVE  PreviewInv'
<1>0. /\ fetches \in Seq(Fetches) /\ DOMAIN fetches = 1 .. Len(fetches) /\ Len(fetches) \in Nat
      /\ \A k \in DOMAIN fetches : fetches[k] \in Fetches
      BY FetchesType DEF PreviewInv
<1>1. /\ DOMAIN fetches' = DOMAIN fetches
      /\ \A k \in DOMAIN fetches :
            /\ fetches'[k].block = fetches[k].block /\ fetches'[k].url = fetches[k].url
            /\ fetches'[k].at = fetches[k].at
            /\ fetches'[k].mounted = (fetches[k].mounted /\ fetches[k].block # b)
            /\ fetches'[k] \in Fetches
      BY <1>0 DEF Clear, Fetches
<1>2. fetches' \in Seq(Fetches)
  <2>1. fetches' \in [1 .. Len(fetches) -> Fetches]  BY <1>0, <1>1 DEF Clear
  <2> QED  BY <1>0, <2>1
<1>3. /\ value' = [value EXCEPT ![b] = Nothing] /\ shown' = [shown EXCEPT ![b] = Nothing]
      /\ broken' \in BOOLEAN /\ overtaken' = overtaken \ {b} /\ scripts' = scripts
      BY DEF Clear
<1>4. PreviewTypeOK'  BY <1>2, <1>3 DEF PreviewInv, PreviewTypeOK, Fetches
<1>5. ASSUME NEW c \in Blocks, NEW k \in DOMAIN fetches', Latest(c, k)'
      PROVE  c # b /\ k \in DOMAIN fetches /\ Latest(c, k)
      BY <1>1, <1>5 DEF Latest, Mine
<1>6. LatestIsWanted' /\ LatestIsShown'
  <2> SUFFICES ASSUME NEW c \in Blocks, NEW k \in DOMAIN fetches', Latest(c, k)'
               PROVE  /\ fetches'[k].url = value'[c]
                      /\ Follows(c, k)'
      BY DEF LatestIsWanted, LatestIsShown
  <2>1. c # b /\ k \in DOMAIN fetches /\ Latest(c, k)  BY <1>5
  <2>2. fetches'[k].url = value'[c]
        BY <1>1, <1>3, <2>1 DEF PreviewInv, PreviewTypeOK, LatestIsWanted
  <2>3. shown'[c] = shown[c]  BY <1>3, <2>1 DEF PreviewInv, PreviewTypeOK
  <2>4. \A j \in DOMAIN fetches : Overtakes(c, j, k) => Overtakes(c, j, k)'
        BY <1>1, <2>1, <2>3 DEF Overtakes, Mine
  <2> QED  BY <1>1, <1>3, <2>1, <2>2, <2>3, <2>4 DEF PreviewInv, LatestIsShown, Follows
<1>7. WidgetsAreThere'
  <2>1. fetches' # <<>> => fetches # <<>>  BY <1>0, <1>1
  <2> QED  BY <1>3, <2>1 DEF PreviewInv, WidgetsAreThere
<1>8. IdsApart'  BY <1>3 DEF PreviewInv, IdsApart
<1> QED  BY <1>4, <1>6, <1>7, <1>8 DEF PreviewInv

\* A fetch that settles stays what it is.
LEMMA SettlesKeepsFetches ==
    ASSUME PreviewTypeOK, NEW k \in DOMAIN fetches, NEW outcome \in {"shown", "threw", "rejected"},
           Settles(k, outcome)
    PROVE  /\ DOMAIN fetches' = DOMAIN fetches /\ fetches' \in Seq(Fetches) /\ fetches' # <<>> /\ fetches # <<>>
           /\ \A j \in DOMAIN fetches : /\ fetches'[j].block = fetches[j].block
                                        /\ fetches'[j].url = fetches[j].url
                                        /\ fetches'[j].mounted = fetches[j].mounted
           /\ \A j \in DOMAIN fetches \ {k} : fetches'[j].at = fetches[j].at
           /\ fetches'[k].at = outcome
           /\ \A b \in Blocks, j \in DOMAIN fetches :
                 (Mine(b, j)' <=> Mine(b, j)) /\ (Latest(b, j)' <=> Latest(b, j))
<1>0. /\ fetches \in Seq(Fetches) /\ DOMAIN fetches = 1 .. Len(fetches) /\ Len(fetches) \in Nat
      /\ \A j \in DOMAIN fetches : fetches[j] \in Fetches
      BY FetchesType
<1>1. fetches' = [fetches EXCEPT ![k] = [fetches[k] EXCEPT !.at = outcome]]
      BY DEF Settles
<1>2. [fetches[k] EXCEPT !.at = outcome] \in Fetches  BY <1>0 DEF Fetches
<1>3. DOMAIN fetches' = DOMAIN fetches /\ fetches' \in Seq(Fetches)
      /\ fetches' # <<>> /\ fetches # <<>>
      BY <1>0, <1>1, <1>2
<1>4. \A j \in DOMAIN fetches : fetches'[j] = IF j = k THEN [fetches[k] EXCEPT !.at = outcome] ELSE fetches[j]
      BY <1>1
<1>5. /\ \A j \in DOMAIN fetches : /\ fetches'[j].block = fetches[j].block
                                   /\ fetches'[j].url = fetches[j].url
                                   /\ fetches'[j].mounted = fetches[j].mounted
      /\ \A j \in DOMAIN fetches \ {k} : fetches'[j].at = fetches[j].at
      /\ fetches'[k].at = outcome
      BY <1>0, <1>4 DEF Fetches
<1>6. \A b \in Blocks, j \in DOMAIN fetches :
          (Mine(b, j)' <=> Mine(b, j)) /\ (Latest(b, j)' <=> Latest(b, j))
      BY <1>3, <1>5 DEF Latest, Mine
<1> QED  BY <1>3, <1>5, <1>6

\* A fetch that shows nothing.
LEMMA SettlesKeeps ==
    ASSUME PreviewInv, NEW k \in DOMAIN fetches, NEW outcome \in {"threw", "rejected"},
           fetches[k].at = "sent",
           Settles(k, outcome), UNCHANGED <<value, shown, scripts, broken, overtaken>>
    PROVE  PreviewInv'
<1>1. /\ DOMAIN fetches' = DOMAIN fetches /\ fetches' \in Seq(Fetches) /\ fetches # <<>>
      /\ \A j \in DOMAIN fetches : fetches'[j].url = fetches[j].url
      /\ \A j \in DOMAIN fetches \ {k} : fetches'[j].at = fetches[j].at
      /\ fetches'[k].at = outcome
      /\ \A b \in Blocks, j \in DOMAIN fetches :
            (Mine(b, j)' <=> Mine(b, j)) /\ (Latest(b, j)' <=> Latest(b, j))
      BY SettlesKeepsFetches DEF PreviewInv
<1>2. PreviewTypeOK'  BY <1>1 DEF PreviewInv, PreviewTypeOK, Fetches
<1>3. LatestIsWanted'  BY <1>1 DEF PreviewInv, LatestIsWanted
<1>4. LatestIsShown'
  <2> SUFFICES ASSUME NEW c \in Blocks, NEW j \in DOMAIN fetches, Latest(c, j), fetches'[j].at = "shown"
               PROVE  Follows(c, j)'
      BY <1>1 DEF LatestIsShown, Follows
  <2>1. fetches[j].at = "shown"  BY <1>1
  <2>2. \A i \in DOMAIN fetches : Overtakes(c, i, j) => Overtakes(c, i, j)'
        BY <1>1 DEF Overtakes
  <2> QED  BY <1>1, <2>1, <2>2 DEF PreviewInv, LatestIsShown, Follows
<1>5. WidgetsAreThere' /\ IdsApart'  BY <1>1 DEF PreviewInv, WidgetsAreThere, IdsApart
<1> QED  BY <1>2, <1>3, <1>4, <1>5 DEF PreviewInv

\* An answer that is shown: where it is not the latest, it comes after it or before.
LEMMA ShowsLatest ==
    ASSUME PreviewInv, NEW k \in DOMAIN fetches, Show(k)
    PROVE  LatestIsShown'
<1> DEFINE b == fetches[k].block
<1>0. fetches[k] \in Fetches /\ k \in Nat /\ DOMAIN fetches \subseteq Nat /\ b \in Blocks
      BY FetchesType DEF PreviewInv, Fetches
<1>1. /\ DOMAIN fetches' = DOMAIN fetches
      /\ \A j \in DOMAIN fetches : fetches'[j].url = fetches[j].url
      /\ \A j \in DOMAIN fetches \ {k} : fetches'[j].at = fetches[j].at
      /\ fetches'[k].at = "shown"
      /\ \A c \in Blocks, j \in DOMAIN fetches :
            (Mine(c, j)' <=> Mine(c, j)) /\ (Latest(c, j)' <=> Latest(c, j))
      BY SettlesKeepsFetches DEF PreviewInv, Show
<1> SUFFICES ASSUME NEW c \in Blocks, NEW j \in DOMAIN fetches, Latest(c, j), fetches'[j].at = "shown"
             PROVE  Follows(c, j)'
    BY <1>1 DEF LatestIsShown, Follows
<1>2. CASE j = k
  <2>1. c = b /\ fetches[k].mounted  BY <1>2 DEF Latest, Mine
  <2>2. shown'[c] = fetches[k].url  BY <1>0, <2>1 DEF Show, PreviewInv, PreviewTypeOK
  <2> QED  BY <1>1, <1>2, <2>2 DEF Follows
<1>3. CASE j # k /\ Mine(c, k)
  <2>1. k < j /\ c = b /\ fetches[k].mounted  BY <1>0, <1>3 DEF Latest, Mine
  <2>2. fetches[j].at = "shown"  BY <1>1, <1>3
  <2>3. c \in overtaken'  BY <1>3, <2>1, <2>2 DEF Show
  <2>4. shown'[c] = fetches[k].url  BY <1>0, <2>1 DEF Show, PreviewInv, PreviewTypeOK
  <2>5. Overtakes(c, k, j)'  BY <1>1, <1>3, <2>1, <2>4 DEF Overtakes
  <2> QED  BY <1>0, <1>1, <2>1, <2>3, <2>5 DEF Follows
<1>4. CASE j # k /\ ~Mine(c, k)
  <2>1. fetches[j].at = "shown"  BY <1>1, <1>4
  <2>2. shown'[c] = shown[c]  BY <1>0, <1>4 DEF Show, Mine, PreviewInv, PreviewTypeOK
  <2>3. \A i \in DOMAIN fetches : Overtakes(c, i, j) => Overtakes(c, i, j)'
        BY <1>1, <1>4, <2>2 DEF Overtakes
  <2>4. overtaken \subseteq overtaken'  BY DEF Show
  <2> QED  BY <1>1, <2>1, <2>2, <2>3, <2>4 DEF PreviewInv, LatestIsShown, Follows
<1> QED  BY <1>2, <1>3, <1>4

\* An answer that is shown brings no script, or the first that is not there yet.
LEMMA ShowKeeps ==
    ASSUME PreviewInv, NEW k \in DOMAIN fetches, Show(k), UNCHANGED <<value, broken>>,
           LET script == ScriptOf[fetches[k].url]
           IN  \/ script = Nothing /\ UNCHANGED scripts
               \/ script # Nothing /\ ~Found(script, "null") /\ Insert(script, "null")
    PROVE  PreviewInv'
<1> DEFINE script == ScriptOf[fetches[k].url]
           b == fetches[k].block
<1>0. fetches[k] \in Fetches /\ b \in Blocks  BY FetchesType DEF PreviewInv, Fetches
<1>1. /\ DOMAIN fetches' = DOMAIN fetches /\ fetches' \in Seq(Fetches) /\ fetches # <<>>
      /\ \A j \in DOMAIN fetches : fetches'[j].url = fetches[j].url
      /\ \A c \in Blocks, j \in DOMAIN fetches : Latest(c, j)' <=> Latest(c, j)
      BY SettlesKeepsFetches DEF PreviewInv, Show
<1>2. LatestIsWanted' /\ LatestIsShown'  BY <1>1, ShowsLatest DEF PreviewInv, LatestIsWanted
<1>3. scripts' \in Seq(Elements) /\ WidgetsAreThere' /\ IdsApart'
  <2>1. CASE UNCHANGED scripts
        BY <1>1, <2>1 DEF PreviewInv, PreviewTypeOK, Elements, WidgetsAreThere, IdsApart
  <2>2. CASE ~Found(script, "null") /\ Insert(script, "null")
    <3>1. script \in {ScriptOf[u] : u \in Addresses} \cup {Widgets}  BY <1>0 DEF Fetches
    <3>2. PICK n \in Nat :
              /\ n \notin DOMAIN scripts /\ DOMAIN scripts' = DOMAIN scripts \cup {n}
              /\ \A m \in DOMAIN scripts : scripts'[m] = scripts[m]
              /\ scripts'[n].src = script /\ scripts'[n].id = "null"
              /\ scripts' \in Seq(Elements)
          BY <2>2, <3>1, Inserted DEF PreviewInv
    <3>3. \A m \in DOMAIN scripts : scripts[m].src # script /\ scripts[m].id # "null"
          BY <2>2 DEF Found
    <3>4. script # Widgets  BY <1>1, <3>3 DEF PreviewInv, WidgetsAreThere
    <3> QED  BY <1>1, <3>2, <3>3, <3>4 DEF PreviewInv, WidgetsAreThere, IdsApart
  <2> QED  BY <2>1, <2>2
<1>4. shown' \in [Blocks -> Addresses \cup {Nothing}] /\ overtaken' \subseteq Blocks
      BY <1>0 DEF PreviewInv, PreviewTypeOK, Show, Fetches
<1>5. PreviewTypeOK'  BY <1>1, <1>3, <1>4 DEF PreviewInv, PreviewTypeOK, Fetches, Elements
<1> QED  BY <1>2, <1>3, <1>5 DEF PreviewInv

LEMMA PreviewInvStep == PreviewInv /\ [PreviewNext]_previewVars => PreviewInv'
<1> SUFFICES ASSUME PreviewInv, [PreviewNext]_previewVars PROVE PreviewInv'  OBVIOUS
<1>1. ASSUME NEW b \in Blocks, NEW url \in Addresses, Change(b, url) PROVE PreviewInv'
      BY <1>1, ChangeKeeps
<1>2. ASSUME NEW b \in Blocks, Clear(b) PROVE PreviewInv'  BY <1>2, ClearKeeps
<1>3. ASSUME NEW k \in DOMAIN fetches, Answer(k) PROVE PreviewInv'
  <2>1. UNCHANGED <<value, broken>> /\ fetches[k].at = "sent"  BY <1>3 DEF Answer
  <2>2. CASE Settles(k, "threw") /\ UNCHANGED <<shown, scripts, overtaken>>
        BY <2>1, <2>2, SettlesKeeps
  <2>3. CASE ~(Settles(k, "threw") /\ UNCHANGED <<shown, scripts, overtaken>>)
        BY <1>3, <2>1, <2>3, ShowKeeps DEF Answer
  <2> QED  BY <2>2, <2>3
<1>4. ASSUME NEW k \in DOMAIN fetches, Reject(k) PROVE PreviewInv'
      BY <1>4, SettlesKeeps DEF Reject
<1>5. CASE UNCHANGED previewVars
      BY <1>5 DEF previewVars, PreviewInv, PreviewTypeOK, LatestIsWanted, LatestIsShown, WidgetsAreThere,
                  IdsApart, Follows, Overtakes, Latest, Mine
<1> QED  BY <1>1, <1>2, <1>3, <1>4, <1>5 DEF PreviewNext

LEMMA ElementsApart == PreviewInv => ScriptsLoadOnce
<1> SUFFICES ASSUME PreviewInv, NEW m \in DOMAIN scripts, NEW n \in DOMAIN scripts,
                    scripts[m].src = scripts[n].src
             PROVE  m = n
    BY DEF ScriptsLoadOnce
<1>1. scripts \in Seq(Elements)  BY DEF PreviewInv, PreviewTypeOK, Elements
<1>2. scripts[m] \in Elements /\ scripts[n] \in Elements  BY <1>1
<1>3. scripts[m].id \in {"twitter-wjs", "null"} /\ scripts[n].id \in {"twitter-wjs", "null"}
      BY <1>2 DEF Elements
<1> QED  BY <1>3 DEF PreviewInv, WidgetsAreThere, IdsApart

\* The state of the editor keeps its type (oEmbedURLField.tsx).
THEOREM PreviewTypeCorrect == PreviewSpec => []PreviewTypeOK
<1>1. PreviewInv => PreviewTypeOK  BY DEF PreviewInv
<1> QED  BY <1>1, PreviewInvInit, PreviewInvStep, PTL DEF PreviewSpec

\* Once the answer for the address of a block is there, the preview shows it, or
\* the answer to an earlier address that came after it: for any blocks, addresses
\* and order of answers (oEmbedURLField.tsx, the effect).
THEOREM PreviewsFollow == PreviewSpec => []PreviewFollowsAddress
<1>1. PreviewInv => PreviewFollowsAddress
      BY DEF PreviewInv, LatestIsWanted, LatestIsShown, Follows, Overtakes, PreviewFollowsAddress
<1> QED  BY <1>1, PreviewInvInit, PreviewInvStep, PTL DEF PreviewSpec

\* No two script elements of the page have the same source, whatever the previews
\* load and the answers bring (oEmbedURLField.tsx, loadScript).
THEOREM ScriptsAlwaysLoadOnce == PreviewSpec => []ScriptsLoadOnce
BY ElementsApart, PreviewInvInit, PreviewInvStep, PTL DEF PreviewSpec
=============================================================================
