-------------------------- MODULE MCCommunications --------------------------
EXTENDS Communications

CONSTANTS p1, p2, p3, p4

\* Copies that may be recipients too, more than one find returns, and a list
\* that was emptied.
MCCopyLists == {<<>>, <<p1, p2, p3>>}
=============================================================================
