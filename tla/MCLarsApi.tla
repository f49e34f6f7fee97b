----------------------------- MODULE MCLarsApi -----------------------------
(* One host, whose address sets the sign bit of the number that the        *)
(* database holds for it, and a list that has it twice.                    *)
EXTENDS LarsApi

MCHost == {[ip |-> ntohl(inet_aton(<<192, 168, 1, 177>>)), port |-> 7777]}
MCRoute == {<<>>} \cup {<<h>> : h \in MCHost} \cup {<<h, h>> : h \in MCHost}
=============================================================================
