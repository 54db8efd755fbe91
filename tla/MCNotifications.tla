--------------------------- MODULE MCNotifications ---------------------------
EXTENDS Notifications

CONSTANTS o1, endpoint

OneOp == {o1}
BusThenHttp == <<Bus, endpoint>>
SixEvents == OneOp \X (1 .. 6)
=============================================================================
