---------------------------- MODULE MCTunSystem -----------------------------
(***************************************************************************)
(* The packets of TunSystem's run.                                         *)
(***************************************************************************)
EXTENDS TunSystem

\* The largest packet of the client and the smallest for it.
Full == [len |-> 1400, version |-> 4, ihl |-> 15, total |-> 1400,
         source |-> "client", destination |-> "other"]
Small == [len |-> 20, version |-> 4, ihl |-> 5, total |-> 20,
          source |-> "other", destination |-> "client"]
Foreign == [Full EXCEPT !.source = "other"]
V6 == [Full EXCEPT !.version = 6]

\* A client's machine routes all its packets into the tunnel; the server's machine only
\* those to the client, but each machine also sends IPv6 packets of its own.
FromClient == {Full, Foreign, V6}
FromServer == {Small, V6}

=============================================================================
