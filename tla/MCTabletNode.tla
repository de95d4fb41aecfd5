---------------------------- MODULE MCTabletNode ----------------------------
EXTENDS TabletNode

\* Two loads of the range (a master retry, or a reload after an unload) and
\* an unload from a master that sends no session id.
MCCtrl ==
    {[id |-> 1, type |-> "load", session |-> "cur", lgs |-> 1],
     [id |-> 2, type |-> "load", session |-> "cur", lgs |-> 1],
     [id |-> 3, type |-> "unload", session |-> "none", lgs |-> 0]}
====
