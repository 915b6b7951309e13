----------------------------- MODULE MCStatsdAddr -----------------------------
(***************************************************************************)
(* The listening addresses of spec.md section 6 (listen.udp, listen.tcp:  *)
(* host:port) parsed by util.UDPAddrFromString and TCPAddrFromString.     *)
(* Each initial state is one address put together from a host part, a    *)
(* separator and a port part; each part says whether it is well formed   *)
(* and what it denotes, which is the reference the parse is checked       *)
(* against.  A well-formed host is empty (every interface), a name the    *)
(* resolver knows, or an IPv6 literal in brackets; a well-formed port is  *)
(* a decimal number from 0 to 65535.                                      *)
(***************************************************************************)
EXTENDS StatsdAddr

CONSTANTS Hosts, Seps, Ports   \* the parts addresses are made of

VARIABLES
    addr,   \* the address given on the command line
    part,   \* the parts it was made of
    udp,    \* what UDPAddrFromString returned, or Unset
    tcp     \* what TCPAddrFromString returned, or Unset

mcVars == <<addr, part, udp, tcp>>

Unset == [unset |-> TRUE]

MCInit ==
    /\ part \in [host : Hosts, sep : Seps, port : Ports]
    /\ addr = part.host.text \o part.sep \o part.port.text
    /\ udp = Unset /\ tcp = Unset

ParseUDP ==
    /\ udp = Unset
    /\ udp' = UDPAddrFromString(addr)
    /\ UNCHANGED <<addr, part, tcp>>

ParseTCP ==
    /\ tcp = Unset
    /\ tcp' = TCPAddrFromString(addr)
    /\ UNCHANGED <<addr, part, udp>>

MCNext == ParseUDP \/ ParseTCP

MCSpec == MCInit /\ [][MCNext]_mcVars

\* What the address denotes by the parts it was made of.
SpecAddr ==
    IF part.host.valid /\ part.sep = <<":">> /\ part.port.valid
    THEN [ok |-> TRUE, ip |-> part.host.ip, port |-> part.port.val]
    ELSE Bad

-----------------------------------------------------------------------------
(* The parts.  "a" and the IPv6 literal "a:b" resolve, "b" does not.      *)

H(text, valid, ip) == [text |-> text, valid |-> valid, ip |-> ip]
P(text, valid, val) == [text |-> text, valid |-> valid, val |-> val]

MCResolvable == {<<"a">>, <<"a", ":", "b">>, ZeroHost}

MCHosts ==
    { H(<<>>, TRUE, ZeroHost), H(<<"a">>, TRUE, <<"a">>), H(<<"b">>, FALSE, <<>>),
      H(<<"[", "a", ":", "b", "]">>, TRUE, <<"a", ":", "b">>),
      H(<<"[", "a", "]">>, TRUE, <<"a">>),
      H(<<"a", ":", "b">>, FALSE, <<>>), H(<<"[", "a">>, FALSE, <<>>),
      H(<<"a", "]">>, FALSE, <<>>), H(<<"[", "a", "]", "b">>, FALSE, <<>>) }

MCSeps == {<<":">>, <<>>, <<":", ":">>}

\* Unsigned ports: empty, zero, leading zero, the bounds, not a number.
MCPorts ==
    { P(<<>>, FALSE, 0), P(<<"0">>, TRUE, 0), P(<<"8", "0">>, TRUE, 80),
      P(<<"0", "8", "0">>, TRUE, 80), P(<<"6", "5", "5", "3", "5">>, TRUE, 65535),
      P(<<"6", "5", "5", "3", "6">>, FALSE, 0), P(<<"9", "9", "9", "9", "9", "9">>, FALSE, 0),
      P(<<"8", "a">>, FALSE, 0) }

-----------------------------------------------------------------------------
\* Both wrappers accept exactly the well-formed host:port addresses, with
\* the host they name (every interface for an empty one) and the port's
\* number, and reject every other address: IPPortFromString's split, host
\* default, resolution and port checks together decide as the address
\* format of spec.md section 6 says.
AddrAsSpecified ==
    \A r \in {udp, tcp} \ {Unset} : r = SpecAddr

=============================================================================
