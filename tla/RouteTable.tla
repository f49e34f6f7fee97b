----------------------------- MODULE RouteTable -----------------------------
(***************************************************************************)
(* What lars_dns promises about the table Route::get_hosts answers from:   *)
(* at any moment it is, as a whole, one state the RouteData table of the   *)
(* database has been in, it never goes back to an older one, and a reader  *)
(* finds the same state of it from the beginning of its copy to the end.   *)
(*                                                                         *)
(* The contents of RouteData are named by the number of edits that made    *)
(* them: edit n turns contents n-1 into contents n.                        *)
(***************************************************************************)
EXTENDS Integers

CONSTANT Reader

VARIABLES edits,    \* number of edits of RouteData so far
          table,    \* the contents get_hosts answers from
          hosts     \* the contents a reader copies from

NoHosts == -1

Init == edits = 0 /\ table = 0 /\ hosts = [r \in Reader |-> NoHosts]

Edit == edits' = edits + 1 /\ UNCHANGED <<table, hosts>>

Reload == /\ table' \in table .. edits
          /\ UNCHANGED <<edits, hosts>>

\* A reader begins its copy, and is done with it.
Read(r) == /\ hosts' = [hosts EXCEPT ![r] = table]
           /\ UNCHANGED <<edits, table>>

Return(r) == /\ hosts' = [hosts EXCEPT ![r] = NoHosts]
             /\ UNCHANGED <<edits, table>>

\* The readers are gone after a restart, which reloads.
Restart == /\ table' \in table .. edits
           /\ hosts' = [r \in Reader |-> NoHosts]
           /\ UNCHANGED edits

Next == Edit \/ Reload \/ Restart \/ \E r \in Reader : Read(r) \/ Return(r)

Spec == Init /\ [][Next]_<<edits, table, hosts>>
=============================================================================
