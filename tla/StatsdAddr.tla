------------------------------ MODULE StatsdAddr ------------------------------
(***************************************************************************)
(* Listening-address parsing of package util (src/pkg/util/util.go):      *)
(* IPPortFromString and the UDP/TCP wrappers around it.  An address is a  *)
(* sequence of one-character strings.  net.SplitHostPort and strconv.Atoi *)
(* are modelled by what they do on such sequences; net.ResolveIPAddr is   *)
(* I/O and is membership in Resolvable, the hosts the resolver (or the IP *)
(* literal parser) accepts.  Error messages are formatting and left out:  *)
(* a failure is a record with ok = FALSE.                                  *)
(***************************************************************************)
EXTENDS Integers, Sequences, SequencesExt

CONSTANT Resolvable   \* the hosts ResolveIPAddr("ip", host) resolves

Digits   == {"0", "1", "2", "3", "4", "5", "6", "7", "8", "9"}
DigitVal(c) == CHOOSE v \in 0 .. 9 : <<"0", "1", "2", "3", "4", "5", "6", "7", "8", "9">>[v + 1] = c

\* The host that an empty host part is replaced by.
ZeroHost == <<"0", ".", "0", ".", "0", ".", "0">>

Bad == [ok |-> FALSE, ip |-> <<>>, port |-> 0]

\* net.SplitHostPort: the port follows the last colon; a host in brackets
\* must end just before it; no colon in an unbracketed host; no stray
\* bracket anywhere else.
SplitHostPort(hp) ==
    LET i         == SelectLastInSeq(hp, LAMBDA c : c = ":")
        bracketed == hp # <<>> /\ hp[1] = "["
        end       == SelectInSeq(hp, LAMBDA c : c = "]")
        host      == IF bracketed THEN SubSeq(hp, 2, end - 1) ELSE SubSeq(hp, 1, i - 1)
        j         == IF bracketed THEN 2 ELSE 1
        k         == IF bracketed THEN end + 1 ELSE 1
        fail      == [ok |-> FALSE, host |-> <<>>, port |-> <<>>]
    IN  CASE i = 0                                     -> fail
          [] bracketed /\ (end = 0 \/ end + 1 # i)     -> fail
          [] ~bracketed /\ Contains(host, ":")         -> fail
          [] Contains(SubSeq(hp, j, Len(hp)), "[")     -> fail
          [] Contains(SubSeq(hp, k, Len(hp)), "]")     -> fail
          [] OTHER -> [ok |-> TRUE, host |-> host, port |-> SubSeq(hp, i + 1, Len(hp))]

\* strconv.Atoi on strings shorter than 19 bytes: an optional sign, then
\* one or more decimal digits.
Atoi(s) ==
    LET signed == s # <<>> /\ s[1] \in {"+", "-"}
        body   == IF signed THEN Tail(s) ELSE s
        n      == FoldLeft(LAMBDA acc, c : 10 * acc + DigitVal(c), 0, body)
    IN  IF body = <<>> \/ \E x \in DOMAIN body : body[x] \notin Digits
        THEN [ok |-> FALSE, val |-> 0]
        ELSE [ok |-> TRUE, val |-> IF s[1] = "-" THEN -n ELSE n]

\* A variant with a plausible fault, for mutation analysis: the port's
\* upper bound is off by one.
IPPortFromStringMaxOff(addr) ==
    LET sp   == SplitHostPort(addr)
        host == IF sp.host = <<>> THEN ZeroHost ELSE sp.host
        p    == Atoi(sp.port)
    IN  CASE ~sp.ok                                      -> Bad
          [] host \notin Resolvable                      -> Bad
          [] ~p.ok \/ p.val < 0 \/ p.val >= 65535        -> Bad
          [] OTHER -> [ok |-> TRUE, ip |-> host, port |-> p.val]

\* IPPortFromString: split, default the host, resolve it, parse the port
\* and check its range, failing at the first error.
IPPortFromString(addr) ==
    LET sp   == SplitHostPort(addr)
        host == IF sp.host = <<>> THEN ZeroHost ELSE sp.host
        p    == Atoi(sp.port)
    IN  CASE ~sp.ok                                      -> Bad
          [] host \notin Resolvable                      -> Bad
          [] ~p.ok \/ p.val < 0 \/ p.val > 65535         -> Bad
          [] OTHER -> [ok |-> TRUE, ip |-> host, port |-> p.val]

\* The wrappers copy the IP and port into a *net.UDPAddr / *net.TCPAddr
\* (the zone stays part of the host here).
UDPAddrFromString(addr) == IPPortFromString(addr)
TCPAddrFromString(addr) == IPPortFromString(addr)

=============================================================================
