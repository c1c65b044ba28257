---------------------------- MODULE MCSessions -----------------------------
\* Sessions on a small instance: two calls of a tab, one of which may be the
\* fetch of a login page.
EXTENDS Sessions

CONSTANTS t1, b1, c1

MCTabOf == [c \in Calls |-> t1]
MCKindsOf == [c \in Calls |-> IF c = c1 THEN {"request", "change", "logout"}
                              ELSE {"request", "refresh", "login"}]
MCBrowserOf == [t \in Tabs |-> b1]
=============================================================================
