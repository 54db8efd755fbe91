----------------------------- MODULE MCWebHooks -----------------------------
EXTENDS WebHooks

CONSTANTS s1, s2, d1, d2, d3, point, here, there

Http(url) == [point |-> point, type |-> "http", url |-> url]
Rabbit(url) == [point |-> point, type |-> "rabbitmq", url |-> url]
WithoutEvent == [point |-> NoPoint, type |-> "http", url |-> there]

\* The deployment notifies one endpoint; its variable has an empty part.
HereOnly == (point :> <<here, Empty>>)

\* A document that adds an endpoint and the bus, one whose bus rows kept the url
\* of the deployment's endpoint or a cleared one and whose last url is not set,
\* and one that was saved without an event.
AllContents ==
    {<<Http(there), Rabbit(NoUrl)>>, <<Rabbit(here), Rabbit(Empty), Http(NoUrl)>>,
     <<Http(there), WithoutEvent>>}
=============================================================================
