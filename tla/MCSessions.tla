----------------------------- MODULE MCSessions -----------------------------
(* Sessions on a small instance: two tabs of one app in a browser, and a     *)
(* second browser that logs in.                                              *)
EXTENDS Sessions

CONSTANTS d1, d2, t1, t2

TabDevices == [t \in {t1, t2} |-> d1]
TabApps    == [t \in {t1, t2} |-> "web"]

=============================================================================
