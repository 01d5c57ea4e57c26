----------------------------- MODULE MCStartup ------------------------------
(***************************************************************************)
(* Hosts and endpoints for Startup.                                        *)
(***************************************************************************)
EXTENDS Startup, SequencesExt

Iface(name, family, addr) == [name |-> name, family |-> family, addr |-> addr]

\* The kernel lists the links first, then their addresses. A tunnel is a link
\* without an address.
Plain == <<Iface("lo", "packet", "-"), Iface("eth0", "packet", "-"), Iface("eth1", "packet", "-"),
           Iface("lo", "inet", "127.0.0.1"), Iface("eth0", "inet", "192.168.89.134"),
           Iface("eth1", "inet", "10.0.0.1")>>
Tunnel == <<Iface("lo", "packet", "-"), Iface("tun0", "none", "-"),
            Iface("lo", "inet", "127.0.0.1"), Iface("tun0", "inet", "192.168.89.134")>>
Tunnel6 == <<Iface("lo", "packet", "-"), Iface("tun0", "none", "-"),
             Iface("lo", "inet", "192.168.89.134"), Iface("tun0", "inet6", "fe80::1")>>
Elsewhere == <<Iface("lo", "packet", "-"), Iface("eth0", "packet", "-"),
               Iface("lo", "inet", "127.0.0.1"), Iface("eth0", "inet", "10.0.0.1")>>

AllHosts == {Plain, Tunnel, Tunnel6, Elsewhere, <<>>}

Endpoint(colon, name, slash, numeric, port, proto) ==
  [colon |-> colon, name |-> name, slash |-> slash, numeric |-> numeric, port |-> port, proto |-> proto]

\* lo:10/tcp, lo:10/udp, lo:74/tcp (10 in 6 bits), lo:64/tcp (0), eth1:10/tcp,
\* lo:50/tcp (the port in the code), lo:10, lo:x/tcp, 11/tcp, x/tcp.
Endpoints ==
  {Endpoint(TRUE, "lo", TRUE, TRUE, 10, "tcp"), Endpoint(TRUE, "lo", TRUE, TRUE, 10, "udp"),
   Endpoint(TRUE, "lo", TRUE, TRUE, 74, "tcp"), Endpoint(TRUE, "lo", TRUE, TRUE, 64, "tcp"),
   Endpoint(TRUE, "eth1", TRUE, TRUE, 10, "tcp"), Endpoint(TRUE, "lo", TRUE, TRUE, 50, "tcp"),
   Endpoint(TRUE, "lo", FALSE, TRUE, 10, "-"), Endpoint(TRUE, "lo", TRUE, FALSE, 0, "tcp"),
   Endpoint(FALSE, "11", TRUE, TRUE, 11, "tcp"), Endpoint(FALSE, "x", TRUE, FALSE, 0, "tcp")}

TwoEndpoints == BoundedSeq(Endpoints, 2)
NoEndpoints == {<<>>}
OneHost == {Plain}
SomeInts == {-1, 3, 7, 5000}

\* A file with endpoints or one with numbers, and a host for each: nothing in
\* init reads both.
SmallInit ==
  /\ \/ file \in [endpoints : EndpointLists, numbers : {<<>>}, throws : 1 .. NothingThrows] /\ host \in Hosts
     \/ file \in [endpoints : {<<>>}, numbers : Numbers, throws : 1 .. NothingThrows] /\ host = Plain
  /\ Init

SmallSpec == SmallInit /\ [][Next]_vars /\ Fairness
=============================================================================
