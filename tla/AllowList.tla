------------------------------ MODULE AllowList ------------------------------
(***************************************************************************)
(* -allowed-ips (ParseAllowList and ipAllowed in internal/proxy/config.go).*)
(* An IP address is a sequence of bits, V4Bits or V6Bits long.  An entry   *)
(* of the list is an address as written, with the length of its prefix if  *)
(* it is a CIDR block and -1 if not.                                       *)
(***************************************************************************)
EXTENDS Integers, Sequences

CONSTANTS V4Bits,   \* the length of an IPv4 address
          Mapped    \* what an IPv4-mapped IPv6 address starts with

Bit == {0, 1}

\* ::ffff:0:0/96 ends in ones.
ASSUME AddressAssumption ==
    /\ V4Bits \in Nat \ {0}
    /\ Mapped \in Seq(Bit) /\ Mapped # <<>>
    /\ Mapped[Len(Mapped)] = 1

V6Bits == Len(Mapped) + V4Bits

IPs == [1..V4Bits -> Bit] \cup [1..V6Bits -> Bit]

\* net.ParseCIDR takes no prefix longer than the address.
Entries == {entry \in [text : IPs, ones : Int] : entry.ones \in -1..Len(entry.text)}

-----------------------------------------------------------------------------
(* The net package, as ParseAllowList and ipAllowed use it.  An IPNet is   *)
(* an address with a mask of ones leading bits out of size.                *)

Prefix(s, n) == SubSeq(s, 1, n)

Is4(ip) == Len(ip) = V4Bits \/ Prefix(ip, Len(Mapped)) = Mapped

\* IP.To4, or the address itself where that is nil
To4(ip) == IF Len(ip) = V6Bits /\ Is4(ip) THEN SubSeq(ip, Len(Mapped) + 1, V6Bits) ELSE ip

\* net.ParseIP returns the long form.
ParseIP(text) == IF Len(text) = V4Bits THEN Mapped \o text ELSE text

\* net.ParseCIDR clears the bits behind the mask.
ParseCIDR(text, ones) ==
    [ip |-> [i \in 1..Len(text) |-> IF i <= ones THEN text[i] ELSE 0], ones |-> ones, size |-> Len(text)]

\* IPNet.Contains: a short mask does not fit a long address, and of a long mask on
\* an IPv4 address only the end counts.
IPNetContains(n, ip) ==
    LET net == To4(n.ip)
        ones == IF n.size = V6Bits /\ Len(net) = V4Bits
                THEN IF n.ones > Len(Mapped) THEN n.ones - Len(Mapped) ELSE 0
                ELSE n.ones
    IN  /\ ~(n.size = V4Bits /\ Len(net) = V6Bits)
        /\ Len(To4(ip)) = Len(net)
        /\ Prefix(To4(ip), ones) = Prefix(net, ones)

-----------------------------------------------------------------------------
ParseEntryShort(entry) ==
    IF entry.ones >= 0
    THEN ParseCIDR(entry.text, entry.ones)
    ELSE [ip |-> ParseIP(entry.text), ones |-> V4Bits, size |-> V4Bits]

ParseEntry(entry) ==
    IF entry.ones >= 0
    THEN ParseCIDR(entry.text, entry.ones)
    ELSE LET bits == IF Is4(ParseIP(entry.text)) THEN V4Bits ELSE V6Bits
         IN  [ip |-> ParseIP(entry.text), ones |-> bits, size |-> bits]

ParseAllowList(list) == {ParseEntry(entry) : entry \in list}

IpAllowed(ip, allowList) == allowList = {} \/ \E n \in allowList : IPNetContains(n, To4(ip))

-----------------------------------------------------------------------------
(* What an entry names, independently of how it is parsed: one host, or    *)
(* the addresses of its family under a prefix.  The host an address stands *)
(* for is the same in its IPv4 and its mapped form.  A block within the    *)
(* mapped range is a block of IPv4 hosts; a wider IPv6 block names IPv6    *)
(* hosts only.                                                             *)

SameAddress(a, b) == To4(a) = To4(b)

NamedBy(entry) ==
    {ip \in IPs :
        IF entry.ones < 0 THEN SameAddress(ip, entry.text)
        ELSE \E a \in IPs :
                /\ SameAddress(a, ip)
                /\ Len(a) = Len(entry.text)
                /\ Prefix(a, entry.ones) = Prefix(entry.text, entry.ones)
                /\ Is4(ip) /\ Len(a) = V6Bits => entry.ones >= Len(Mapped)}
=============================================================================
