-------------------------- MODULE MCProxyRequest ----------------------------
(***************************************************************************)
(* Hosts and ports of ProxyRequest's run, at the limits of a length byte   *)
(* and of a port.                                                          *)
(***************************************************************************)
EXTENDS ProxyRequest

Letters(n) == [i \in 1..n |-> 97]
NotUtf8(n) == [i \in 1..n |-> 255]

\* With a modulus of 8: names that just fit and that do not, and bytes that are no UTF-8,
\* of which each becomes three.  The two with colons are an IPv6 address in and without
\* brackets.
MCHosts ==
    {<<>>, <<127, 0, 0, 1>>, <<91, 58, 58, 49, 93>>, <<58, 58, 49>>, <<239, 191>>, Replacement}
    \cup {Letters(n) : n \in {1, 7, 8, 9, 16}}
    \cup {NotUtf8(n) : n \in {1, 2, 3, 7}}

MCPorts ==
    {[text |-> <<48>>, port |-> 0], [text |-> <<56, 48>>, port |-> 80],
     [text |-> <<52, 52, 51>>, port |-> 443],
     [text |-> <<54, 53, 53, 51, 53>>, port |-> 65535],
     [text |-> <<54, 53, 53, 51, 54>>, port |-> 65536]}

MCFirstData == <<71, 69, 84>>

=============================================================================
