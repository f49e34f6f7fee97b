----------------------------- MODULE MCReporter -----------------------------
(* Reporter with two hosts on one machine.  The first agent reports both,  *)
(* and then both again on the other lists; the second agent reports one of *)
(* them, and then no host.                                                 *)
EXTENDS Reporter

HostAt(h, rsucc, rerr) == [ip |-> -1062731343, port |-> 8000 + h, rsucc |-> rsucc, rerr |-> rerr]
LbWith(ts, idle, overload) ==
    [modid |-> 1, cmdid |-> 300, ts |-> 1700000000 + ts, idle_list |-> idle,
     overload_list |-> overload]

MCLb ==
    [r \in {1, 2} \X {1, 2} |->
        CASE r = <<1, 1>> -> LbWith(1, <<HostAt(1, 0, 1)>>, <<HostAt(2, 0, 200)>>)
          [] r = <<1, 2>> -> LbWith(2, <<HostAt(2, 200, 0)>>, <<HostAt(1, 1, 300)>>)
          [] r = <<2, 1>> -> LbWith(1, <<HostAt(1, 5, 0)>>, <<>>)
          [] r = <<2, 2>> -> LbWith(2, <<>>, <<>>)]
=============================================================================
