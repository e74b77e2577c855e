---------------------------- MODULE RequestProofs ----------------------------
(***************************************************************************)
(* Proofs about AllowList and HostRouting, for addresses and prefixes of   *)
(* any length, any list of entries and patterns, and any names and ports;  *)
(* and about Headers, for any other proxies, Connection options and paths. *)
(***************************************************************************)
EXTENDS HostRouting, Headers, SequenceTheorems, TLAPS

-----------------------------------------------------------------------------
(* Addresses.                                                              *)

M == Len(Mapped)
V4 == [1..V4Bits -> Bit]
V6 == [1..V6Bits -> Bit]

\* The address x is in the mapped range.
InMapped(x) == \A i \in 1..M : x[i] = Mapped[i]

\* The first n bits of x and y agree.
Agree(x, y, n) == \A i \in 1..n : x[i] = y[i]

LEMMA Sizes ==
  /\ M \in Nat /\ M > 0 /\ V4Bits \in Nat /\ V6Bits \in Nat
  /\ V6Bits = M + V4Bits /\ V4Bits > 0 /\ V6Bits # V4Bits
  /\ Mapped \in [1..M -> Bit] /\ Mapped[M] = 1
<1>1. M \in Nat /\ Mapped \in [1..M -> Bit]
  BY AddressAssumption, LenProperties DEF M
<1>2. M # 0
  BY AddressAssumption, EmptySeq DEF M
<1> QED
  BY <1>1, <1>2, AddressAssumption DEF M, V6Bits

\* A function on 1..n is a sequence of length n.
LEMMA BitString ==
  ASSUME NEW n \in Nat, NEW x \in [1..n -> Bit]
  PROVE  x \in Seq(Bit) /\ Len(x) = n
<1>1. x \in Seq(Bit)
  BY SeqDef
<1>2. Len(x) \in Nat /\ DOMAIN x = 1..Len(x)
  BY <1>1, LenProperties
<1>3. 1..Len(x) = 1..n
  BY <1>2
<1> QED
  BY <1>1, <1>2, <1>3

LEMMA SameBits ==
  ASSUME NEW n \in Nat, NEW x \in [1..n -> Bit], NEW y \in [1..n -> Bit],
         \A i \in 1..n : x[i] = y[i]
  PROVE  x = y
  BY BitString, SeqEqual

\* Equal prefixes are agreeing bits.
LEMMA PrefixAgree ==
  ASSUME NEW k \in Nat, NEW l \in Nat, NEW x \in [1..k -> Bit], NEW y \in [1..l -> Bit],
         NEW n \in Nat, n <= k, n <= l
  PROVE  (Prefix(x, n) = Prefix(y, n)) <=> Agree(x, y, n)
<1>1. /\ Prefix(x, n) \in Seq(Bit) /\ Len(Prefix(x, n)) = n
      /\ \A i \in 1..n : Prefix(x, n)[i] = x[i]
  <2>1. \A i \in 1..n : x[i] \in Bit
    OBVIOUS
  <2> QED
    BY <2>1, SubSeqProperties DEF Prefix
<1>2. /\ Prefix(y, n) \in Seq(Bit) /\ Len(Prefix(y, n)) = n
      /\ \A i \in 1..n : Prefix(y, n)[i] = y[i]
  <2>1. \A i \in 1..n : y[i] \in Bit
    OBVIOUS
  <2> QED
    BY <2>1, SubSeqProperties DEF Prefix
<1>3. ASSUME Agree(x, y, n) PROVE Prefix(x, n) = Prefix(y, n)
  <2>1. \A i \in 1..Len(Prefix(x, n)) : Prefix(x, n)[i] = Prefix(y, n)[i]
    BY <1>1, <1>2, <1>3 DEF Agree
  <2> QED
    BY <1>1, <1>2, <2>1, SeqEqual
<1>4. ASSUME Prefix(x, n) = Prefix(y, n) PROVE Agree(x, y, n)
  BY <1>1, <1>2, <1>4 DEF Agree
<1> QED
  BY <1>3, <1>4

\* What IP.To4 makes of an address, and when it is taken for an IPv4 one.
LEMMA To4OfV4 == ASSUME NEW x \in V4 PROVE Len(x) = V4Bits /\ To4(x) = x /\ Is4(x)
  BY Sizes, BitString DEF V4, To4, Is4

LEMMA To4OfV6 ==
  ASSUME NEW x \in V6
  PROVE  /\ Len(x) = V6Bits
         /\ Is4(x) <=> InMapped(x)
         /\ InMapped(x) => To4(x) \in V4 /\ \A i \in 1..V4Bits : To4(x)[i] = x[M + i]
         /\ ~InMapped(x) => To4(x) = x
<1>1. Len(x) = V6Bits /\ Len(x) # V4Bits
  BY Sizes, BitString DEF V6
<1>2. Is4(x) <=> InMapped(x)
  <2>1. (Prefix(x, M) = Prefix(Mapped, M)) <=> Agree(x, Mapped, M)
    BY Sizes, PrefixAgree DEF V6
  <2>2. Prefix(Mapped, M) = Mapped
    BY AddressAssumption, SubSeqFull DEF Prefix, M
  <2> QED
    BY <1>1, <2>1, <2>2 DEF Is4, Agree, InMapped, M
<1>3. ASSUME InMapped(x)
      PROVE  To4(x) \in V4 /\ \A i \in 1..V4Bits : To4(x)[i] = x[M + i]
  <2>1. To4(x) = SubSeq(x, M + 1, V6Bits)
    BY <1>1, <1>2, <1>3 DEF To4, M
  <2>2. \A i \in (M + 1)..V6Bits : x[i] \in Bit
    BY Sizes DEF V6
  <2>3. M + 1 \in Int /\ V6Bits \in Int /\ M + 1 <= V6Bits /\ V6Bits - (M + 1) + 1 = V4Bits
    BY Sizes
  <2>4. /\ To4(x) \in Seq(Bit) /\ Len(To4(x)) = V4Bits
        /\ \A i \in 1..V4Bits : To4(x)[i] = x[M + 1 + i - 1]
    BY <2>1, <2>2, <2>3, SubSeqProperties
  <2>5. \A i \in 1..V4Bits : M + 1 + i - 1 = M + i
    BY Sizes
  <2>6. To4(x) \in V4
    BY <2>4, LenProperties DEF V4
  <2> QED
    BY <2>4, <2>5, <2>6
<1> QED
  BY <1>1, <1>2, <1>3, Zenon DEF To4

\* The long form of an IPv4 address is in the mapped range and stands for it.
LEMMA LongForm ==
  ASSUME NEW x \in V4
  PROVE  /\ ParseIP(x) \in V6 /\ InMapped(ParseIP(x))
         /\ \A i \in 1..V4Bits : ParseIP(x)[M + i] = x[i]
         /\ To4(ParseIP(x)) = x
<1>1. x \in Seq(Bit) /\ Len(x) = V4Bits
  BY Sizes, BitString DEF V4
<1>2. ParseIP(x) = Mapped \o x
  BY <1>1 DEF ParseIP
<1>3. /\ ParseIP(x) \in Seq(Bit) /\ Len(ParseIP(x)) = V6Bits
      /\ \A i \in 1..V6Bits : ParseIP(x)[i] = IF i <= M THEN Mapped[i] ELSE x[i - M]
  <2>1. Mapped \in Seq(Bit)
    BY AddressAssumption
  <2>2. /\ Mapped \o x \in Seq(Bit)
        /\ Len(Mapped \o x) = Len(Mapped) + Len(x)
        /\ \A i \in 1..Len(Mapped) + Len(x) :
              (Mapped \o x)[i] = IF i <= Len(Mapped) THEN Mapped[i] ELSE x[i - Len(Mapped)]
    BY <1>1, <2>1, ConcatProperties, Zenon
  <2>3. Len(Mapped) + Len(x) = V6Bits
    BY <1>1 DEF V6Bits
  <2> QED
    BY <1>2, <2>2, <2>3, Zenon DEF M
<1>4. ParseIP(x) \in V6
  BY <1>3, LenProperties DEF V6
<1>5. InMapped(ParseIP(x))
  <2>1. \A i \in 1..M : i \in 1..V6Bits /\ i <= M
    BY Sizes
  <2> QED
    BY <1>3, <2>1 DEF InMapped
<1>6. \A i \in 1..V4Bits : M + i \in 1..V6Bits /\ ~(M + i <= M) /\ (M + i) - M = i
  BY Sizes
<1>7. \A i \in 1..V4Bits : ParseIP(x)[M + i] = x[i]
  BY <1>3, <1>6
<1>8. To4(ParseIP(x)) \in V4 /\ \A i \in 1..V4Bits : To4(ParseIP(x))[i] = x[i]
  BY <1>4, <1>5, <1>7, To4OfV6
<1>9. To4(ParseIP(x)) = x
  BY <1>8, Sizes, SameBits DEF V4
<1> QED
  BY <1>4, <1>5, <1>7, <1>9

\* The host an address stands for: an IPv4 address, or an IPv6 address outside the
\* mapped range.  ParseIP and a second To4 do not change it.
LEMMA Stands ==
  ASSUME NEW x \in IPs
  PROVE  /\ \/ To4(x) \in V4 /\ Is4(x)
            \/ To4(x) \in V6 /\ ~InMapped(To4(x)) /\ ~Is4(x) /\ To4(x) = x
         /\ To4(To4(x)) = To4(x)
         /\ To4(ParseIP(x)) = To4(x)
         /\ ParseIP(x) \in IPs
         /\ Is4(ParseIP(x)) <=> Is4(x)
<1>1. CASE x \in V4
  BY <1>1, To4OfV4, LongForm, To4OfV6 DEF IPs, V6
<1>2. CASE x \in V6
  <2>1. ParseIP(x) = x
    BY <1>2, To4OfV6, Sizes DEF ParseIP
  <2> QED
    BY <1>2, <2>1, To4OfV6, To4OfV4
<1> QED
  BY <1>1, <1>2 DEF IPs, V4, V6

-----------------------------------------------------------------------------
(* Entries.  In what follows To4(ip) is the host that ipAllowed looks for. *)

\* An address by itself admits the one host it stands for.
LEMMA SingleEntry ==
  ASSUME NEW e \in Entries, e.ones < 0, NEW ip \in IPs
  PROVE  IPNetContains(ParseEntry(e), To4(ip)) <=> SameAddress(ip, e.text)
<1> DEFINE c == To4(ip)
           d == To4(e.text)
           bits == IF Is4(ParseIP(e.text)) THEN V4Bits ELSE V6Bits
<1>1. e.text \in IPs
  BY DEF Entries
<1>2. To4(ParseIP(e.text)) = d /\ To4(c) = c
  BY <1>1, Stands
<1>3. (d \in V4 /\ bits = V4Bits) \/ (d \in V6 /\ bits = V6Bits)
  BY <1>1, Stands
<1>4. c \in V4 \/ c \in V6
  BY Stands
<1>5. Len(d) = bits /\ d \in [1..bits -> Bit]
  BY <1>3, To4OfV4, To4OfV6 DEF V4, V6
<1>6. bits \in {V4Bits, V6Bits}
  OBVIOUS
<1>7. ParseEntry(e) = [ip |-> ParseIP(e.text), ones |-> bits, size |-> bits]
  <2>1. ~(e.ones >= 0)
    BY DEF Entries
  <2> QED
    BY <2>1 DEF ParseEntry
<1> HIDE DEF c, d, bits
<1>8. IPNetContains(ParseEntry(e), c) <=> Len(c) = Len(d) /\ Prefix(c, bits) = Prefix(d, bits)
  BY <1>2, <1>5, <1>6, <1>7, Sizes DEF IPNetContains
<1>9. ASSUME Len(c) = Len(d) PROVE (Prefix(c, bits) = Prefix(d, bits)) <=> c = d
  <2>1. c \in [1..bits -> Bit] /\ bits \in Nat
    BY <1>4, <1>5, <1>6, <1>9, To4OfV4, To4OfV6, Sizes, Zenon DEF V4, V6
  <2>2. (Prefix(c, bits) = Prefix(d, bits)) <=> Agree(c, d, bits)
    BY <1>5, <2>1, PrefixAgree
  <2>3. Agree(c, d, bits) <=> c = d
    BY <1>5, <2>1, SameBits DEF Agree
  <2> QED
    BY <2>2, <2>3
<1> QED
  BY <1>8, <1>9 DEF SameAddress, c, d

\* net.ParseCIDR keeps the bits under the mask and clears the others.
LEMMA Masked ==
  ASSUME NEW k \in Nat, NEW x \in [1..k -> Bit], NEW n \in 0..k
  PROVE  /\ ParseCIDR(x, n).ones = n /\ ParseCIDR(x, n).size = k
         /\ ParseCIDR(x, n).ip \in [1..k -> Bit]
         /\ \A i \in 1..k : ParseCIDR(x, n).ip[i] = IF i <= n THEN x[i] ELSE 0
<1>1. Len(x) = k
  BY BitString
<1> DEFINE m == [i \in 1..k |-> IF i <= n THEN x[i] ELSE 0]
<1>2. ParseCIDR(x, n) = [ip |-> m, ones |-> n, size |-> k]
  BY <1>1 DEF ParseCIDR
<1>3. m \in [1..k -> Bit] /\ \A i \in 1..k : m[i] = IF i <= n THEN x[i] ELSE 0
  BY DEF Bit
<1> HIDE DEF m
<1>4. ParseCIDR(x, n).ip = m /\ ParseCIDR(x, n).ones = n /\ ParseCIDR(x, n).size = k
  BY <1>2
<1> QED
  BY <1>3, <1>4

\* An IPv4 block admits the IPv4 hosts under its prefix.
LEMMA Block4 ==
  ASSUME NEW x \in V4, NEW n \in 0..V4Bits, NEW ip \in IPs
  PROVE  IPNetContains(ParseCIDR(x, n), To4(ip)) <=> To4(ip) \in V4 /\ Agree(To4(ip), x, n)
<1> DEFINE c == To4(ip)
           m == ParseCIDR(x, n).ip
<1>1. /\ ParseCIDR(x, n).ones = n /\ ParseCIDR(x, n).size = V4Bits /\ m \in V4
      /\ \A i \in 1..V4Bits : m[i] = IF i <= n THEN x[i] ELSE 0
  <2>1. V4Bits \in Nat /\ x \in [1..V4Bits -> Bit]
    BY Sizes DEF V4
  <2>2. /\ ParseCIDR(x, n).ones = n /\ ParseCIDR(x, n).size = V4Bits
        /\ m \in [1..V4Bits -> Bit]
        /\ \A i \in 1..V4Bits : m[i] = IF i <= n THEN x[i] ELSE 0
    BY <2>1, Masked
  <2> QED
    BY <2>2 DEF V4
<1>2. To4(m) = m /\ Len(m) = V4Bits
  BY <1>1, To4OfV4
<1>3. To4(c) = c /\ (c \in V4 \/ c \in V6)
  BY Stands
<1>4. (c \in V4) <=> Len(c) = V4Bits
  BY <1>3, To4OfV4, To4OfV6, Sizes
<1> HIDE DEF c, m
<1>5. IPNetContains(ParseCIDR(x, n), c) <=> Len(c) = V4Bits /\ Prefix(c, n) = Prefix(m, n)
  BY <1>1, <1>2, <1>3, Sizes DEF IPNetContains, m
<1>6. ASSUME c \in V4 PROVE (Prefix(c, n) = Prefix(m, n)) <=> Agree(c, x, n)
  <2>1. (Prefix(c, n) = Prefix(m, n)) <=> Agree(c, m, n)
    BY <1>1, <1>6, Sizes, PrefixAgree DEF V4
  <2>2. \A i \in 1..n : m[i] = x[i]
    BY <1>1, Sizes
  <2> QED
    BY <2>1, <2>2 DEF Agree
<1> QED
  BY <1>4, <1>5, <1>6 DEF c

\* An IPv6 block admits the IPv6 hosts under its prefix; one that lies within the
\* mapped range admits the IPv4 hosts under the rest of its prefix instead.  No
\* wider block turns into one of those, as the mapped range ends in a one, which
\* the mask would have cleared.
LEMMA Block6 ==
  ASSUME NEW x \in V6, NEW n \in 0..V6Bits, NEW ip \in IPs
  PROVE  IPNetContains(ParseCIDR(x, n), To4(ip)) <=>
           IF InMapped(x) /\ n >= M
           THEN To4(ip) \in V4 /\ \A i \in 1..(n - M) : To4(ip)[i] = x[M + i]
           ELSE To4(ip) \in V6 /\ Agree(To4(ip), x, n)
<1> DEFINE c == To4(ip)
           m == ParseCIDR(x, n).ip
<1>1. /\ ParseCIDR(x, n).ones = n /\ ParseCIDR(x, n).size = V6Bits /\ m \in V6
      /\ \A i \in 1..V6Bits : m[i] = IF i <= n THEN x[i] ELSE 0
  <2>1. V6Bits \in Nat /\ x \in [1..V6Bits -> Bit]
    BY Sizes DEF V6
  <2>2. /\ ParseCIDR(x, n).ones = n /\ ParseCIDR(x, n).size = V6Bits
        /\ m \in [1..V6Bits -> Bit]
        /\ \A i \in 1..V6Bits : m[i] = IF i <= n THEN x[i] ELSE 0
    BY <2>1, Masked
  <2> QED
    BY <2>2 DEF V6
<1>2. To4(c) = c /\ (c \in V4 \/ c \in V6)
  BY Stands
<1>3. ((c \in V4) <=> Len(c) = V4Bits) /\ ((c \in V6) <=> Len(c) = V6Bits)
  BY <1>2, To4OfV4, To4OfV6, Sizes
<1>4. n \in Nat /\ n <= V6Bits
  BY Sizes
<1> HIDE DEF c, m
<1>5. InMapped(m) <=> InMapped(x) /\ n >= M
  <2>1. \A i \in 1..M : i \in 1..V6Bits
    BY Sizes
  <2>2. ASSUME InMapped(m) PROVE n >= M
    <3>1. m[M] = 1 /\ M \in 1..V6Bits
      BY <2>2, Sizes DEF InMapped
    <3> QED
      BY <1>1, <1>4, <3>1, Sizes
  <2>3. ASSUME n >= M PROVE InMapped(m) <=> InMapped(x)
    <3>1. \A i \in 1..M : i <= n
      BY <1>4, <2>3, Sizes
    <3>2. \A i \in 1..M : m[i] = x[i]
      BY <1>1, <2>1, <3>1
    <3> QED
      BY <3>2 DEF InMapped
  <2> QED
    BY <2>2, <2>3
<1>6. CASE InMapped(m)
  <2>1. n >= M /\ n - M \in Nat /\ n - M <= V4Bits
    BY <1>4, <1>5, <1>6, Sizes
  <2>2. /\ To4(m) \in V4 /\ Len(To4(m)) = V4Bits
        /\ \A i \in 1..V4Bits : To4(m)[i] = m[M + i]
    BY <1>1, <1>6, To4OfV6, To4OfV4
  <2>3. (IF n > M THEN n - M ELSE 0) = n - M
    BY <2>1, Sizes
  <2>4. IPNetContains(ParseCIDR(x, n), c) <=>
          Len(c) = V4Bits /\ Prefix(c, n - M) = Prefix(To4(m), n - M)
    BY <1>1, <1>2, <2>2, <2>3, Sizes DEF IPNetContains, m, M
  <2>5. ASSUME c \in V4
        PROVE  (Prefix(c, n - M) = Prefix(To4(m), n - M)) <=> \A i \in 1..(n - M) : c[i] = x[M + i]
    <3>1. (Prefix(c, n - M) = Prefix(To4(m), n - M)) <=> Agree(c, To4(m), n - M)
      <4>1. /\ V4Bits \in Nat /\ c \in [1..V4Bits -> Bit] /\ To4(m) \in [1..V4Bits -> Bit]
            /\ n - M \in Nat /\ n - M <= V4Bits
        BY <2>1, <2>2, <2>5, Sizes DEF V4
      <4> QED
        BY <4>1, PrefixAgree, Zenon
    <3>2. \A i \in 1..(n - M) : i \in 1..V4Bits /\ M + i \in 1..V6Bits /\ M + i <= n
      BY <1>4, <2>1, Sizes
    <3>3. \A i \in 1..(n - M) : To4(m)[i] = x[M + i]
      BY <1>1, <2>2, <3>2
    <3> QED
      BY <3>1, <3>3 DEF Agree
  <2> QED
    BY <1>3, <1>5, <1>6, <2>4, <2>5 DEF c
<1>7. CASE ~InMapped(m)
  <2>1. To4(m) = m /\ Len(m) = V6Bits
    BY <1>1, <1>7, To4OfV6
  <2>2. IPNetContains(ParseCIDR(x, n), c) <=> Len(c) = V6Bits /\ Prefix(c, n) = Prefix(m, n)
    BY <1>1, <1>2, <2>1, Sizes DEF IPNetContains, m
  <2>3. ASSUME c \in V6 PROVE (Prefix(c, n) = Prefix(m, n)) <=> Agree(c, x, n)
    <3>1. (Prefix(c, n) = Prefix(m, n)) <=> Agree(c, m, n)
      <4>1. /\ V6Bits \in Nat /\ c \in [1..V6Bits -> Bit] /\ m \in [1..V6Bits -> Bit]
            /\ n \in Nat /\ n <= V6Bits
        BY <1>1, <1>4, <2>3, Sizes DEF V6
      <4> QED
        BY <4>1, PrefixAgree, Zenon
    <3>2. \A i \in 1..n : m[i] = x[i]
      BY <1>1, <1>4, Sizes
    <3> QED
      BY <3>1, <3>2 DEF Agree
  <2> QED
    BY <1>3, <1>5, <1>7, <2>2, <2>3 DEF c
<1> QED
  BY <1>6, <1>7

\* The witness a of NamedBy, by the family of the entry.
Witness(a, x, n, ip) ==
    /\ SameAddress(a, ip)
    /\ Len(a) = Len(x)
    /\ Prefix(a, n) = Prefix(x, n)
    /\ Is4(ip) /\ Len(a) = V6Bits => n >= Len(Mapped)

LEMMA Named4 ==
  ASSUME NEW x \in V4, NEW n \in 0..V4Bits, NEW ip \in IPs
  PROVE  (\E a \in IPs : Witness(a, x, n, ip)) <=> To4(ip) \in V4 /\ Agree(To4(ip), x, n)
<1>1. Len(x) = V4Bits /\ V4Bits # V6Bits /\ n \in Nat /\ n <= V4Bits
  BY To4OfV4, Sizes
<1>2. ASSUME NEW a \in V4 PROVE (Prefix(a, n) = Prefix(x, n)) <=> Agree(a, x, n)
  <2>1. V4Bits \in Nat /\ a \in [1..V4Bits -> Bit] /\ x \in [1..V4Bits -> Bit]
    BY <1>2, Sizes DEF V4
  <2> QED
    BY <1>1, <2>1, PrefixAgree, Zenon
<1>3. ASSUME NEW a \in IPs, Witness(a, x, n, ip) PROVE To4(ip) \in V4 /\ Agree(To4(ip), x, n)
  <2>1. a \in V4
    BY <1>1, <1>3, To4OfV6, Zenon DEF Witness, IPs, V4, V6
  <2>2. To4(ip) = a
    BY <1>3, <2>1, To4OfV4 DEF Witness, SameAddress
  <2> QED
    BY <1>2, <1>3, <2>1, <2>2 DEF Witness
<1>4. ASSUME To4(ip) \in V4, Agree(To4(ip), x, n) PROVE \E a \in IPs : Witness(a, x, n, ip)
  <2>1. To4(ip) \in IPs /\ Len(To4(ip)) = V4Bits
    BY <1>4, To4OfV4 DEF IPs, V4
  <2>2. SameAddress(To4(ip), ip)
    BY Stands DEF SameAddress
  <2>3. Witness(To4(ip), x, n, ip)
    BY <1>1, <1>2, <1>4, <2>1, <2>2 DEF Witness
  <2> QED
    BY <2>1, <2>3
<1> QED
  BY <1>3, <1>4

LEMMA Named6 ==
  ASSUME NEW x \in V6, NEW n \in 0..V6Bits, NEW ip \in IPs
  PROVE  (\E a \in IPs : Witness(a, x, n, ip)) <=>
           IF InMapped(x) /\ n >= M
           THEN To4(ip) \in V4 /\ \A i \in 1..(n - M) : To4(ip)[i] = x[M + i]
           ELSE To4(ip) \in V6 /\ Agree(To4(ip), x, n)
<1> DEFINE c == To4(ip)
<1>1. Len(x) = V6Bits /\ V4Bits # V6Bits /\ n \in Nat /\ n <= V6Bits
  BY To4OfV6, Sizes
<1>2. ASSUME NEW a \in V6 PROVE (Prefix(a, n) = Prefix(x, n)) <=> Agree(a, x, n)
  BY <1>1, <1>2, Sizes, PrefixAgree DEF V6
<1>3. (c \in V4 /\ Is4(ip)) \/ (c \in V6 /\ ~InMapped(c) /\ ~Is4(ip))
  BY Stands
<1>4. ~(c \in V4 /\ c \in V6)
  BY <1>1, To4OfV4, To4OfV6
<1>5. To4(c) = c
  BY Stands
<1>6. ASSUME NEW a \in IPs, Witness(a, x, n, ip)
      PROVE  a \in V6 /\ To4(a) = c /\ Agree(a, x, n) /\ (Is4(ip) => n >= M)
  <2>1. Len(a) = V6Bits /\ To4(a) = c
    BY <1>1, <1>6 DEF Witness, SameAddress
  <2>2. a \in V6
    BY <1>1, <2>1, To4OfV4 DEF IPs, V4, V6
  <2> QED
    BY <1>2, <1>6, <2>1, <2>2 DEF Witness, M
<1>7. ASSUME NEW a \in V6, To4(a) = c, Agree(a, x, n), Is4(ip) => n >= M
      PROVE  \E b \in IPs : Witness(b, x, n, ip)
  <2>1. a \in IPs /\ Len(a) = V6Bits
    BY <1>7, To4OfV6 DEF IPs, V6
  <2>2. Witness(a, x, n, ip)
    BY <1>1, <1>2, <1>7, <2>1 DEF Witness, SameAddress, M
  <2> QED
    BY <2>1, <2>2
<1> HIDE DEF c
<1>8. ASSUME NEW a \in V6, Agree(a, x, n), n >= M
      PROVE  (InMapped(a) <=> InMapped(x)) /\ \A i \in 1..(n - M) : a[M + i] = x[M + i]
  <2>1. \A i \in 1..M : i \in 1..n
    BY <1>1, <1>8, Sizes
  <2>2. \A i \in 1..(n - M) : M + i \in 1..n
    BY <1>1, <1>8, Sizes
  <2> QED
    BY <1>8, <2>1, <2>2 DEF InMapped, Agree
<1>9. CASE InMapped(x) /\ n >= M
  <2>1. n - M <= V4Bits /\ \A i \in 1..(n - M) : i \in 1..V4Bits
    BY <1>1, <1>9, Sizes
  <2>2. ASSUME NEW a \in IPs, Witness(a, x, n, ip)
        PROVE  c \in V4 /\ \A i \in 1..(n - M) : c[i] = x[M + i]
    <3>1. a \in V6 /\ InMapped(a) /\ To4(a) = c /\ \A i \in 1..(n - M) : a[M + i] = x[M + i]
      BY <1>6, <1>8, <1>9, <2>2
    <3> QED
      BY <2>1, <3>1, To4OfV6
  <2>3. ASSUME c \in V4, \A i \in 1..(n - M) : c[i] = x[M + i]
        PROVE  \E b \in IPs : Witness(b, x, n, ip)
    <3> DEFINE a == ParseIP(c)
    <3>1. /\ a \in V6 /\ InMapped(a) /\ To4(a) = c
          /\ \A i \in 1..V4Bits : a[M + i] = c[i]
      BY <2>3, LongForm
    <3> HIDE DEF a
    <3>2. ASSUME NEW i \in 1..n PROVE a[i] = x[i]
      <4>1. CASE i <= M
        <5>1. i \in 1..M
          BY <4>1, <1>1, Sizes
        <5> QED
          BY <1>9, <3>1, <5>1 DEF InMapped
      <4>2. CASE i > M
        <5>1. i - M \in 1..(n - M) /\ M + (i - M) = i
          BY <1>1, <4>2, Sizes
        <5>2. a[M + (i - M)] = c[i - M] /\ c[i - M] = x[M + (i - M)]
          BY <2>1, <2>3, <3>1, <5>1
        <5> QED
          BY <5>1, <5>2
      <4> QED
        BY <4>1, <4>2, <1>1, Sizes
    <3>3. Agree(a, x, n)
      BY <3>2 DEF Agree
    <3> QED
      BY <1>7, <1>9, <3>1, <3>3
  <2> QED
    BY <1>9, <2>2, <2>3 DEF c
<1>10. CASE ~(InMapped(x) /\ n >= M)
  <2>1. ASSUME NEW a \in IPs, Witness(a, x, n, ip) PROVE c \in V6 /\ Agree(c, x, n)
    <3>1. a \in V6 /\ To4(a) = c /\ Agree(a, x, n) /\ (Is4(ip) => n >= M)
      BY <1>6, <2>1
    <3>2. ~InMapped(a)
      BY <1>3, <1>4, <1>8, <1>10, <3>1, To4OfV6
    <3>3. c = a
      BY <3>1, <3>2, To4OfV6
    <3> QED
      BY <3>1, <3>3
  <2>2. ASSUME c \in V6, Agree(c, x, n) PROVE \E b \in IPs : Witness(b, x, n, ip)
    BY <1>3, <1>4, <1>5, <1>7, <2>2
  <2> QED
    BY <1>10, <2>1, <2>2 DEF c
<1> QED
  BY <1>9, <1>10

\* ParseAllowList and ipAllowed admit exactly the hosts an entry names.
LEMMA EntryAdmits ==
  ASSUME NEW e \in Entries, NEW ip \in IPs
  PROVE  IPNetContains(ParseEntry(e), To4(ip)) <=> ip \in NamedBy(e)
<1>1. e.text \in IPs /\ e.ones \in Int /\ e.ones >= -1 /\ e.ones <= Len(e.text)
  BY Sizes, BitString DEF Entries, IPs
<1>2. CASE e.ones < 0
  BY <1>2, SingleEntry DEF NamedBy
<1>3. CASE ~(e.ones < 0)
  <2>1. ParseEntry(e) = ParseCIDR(e.text, e.ones)
    BY <1>1, <1>3 DEF ParseEntry
  <2>2. ip \in NamedBy(e) <=> \E a \in IPs : Witness(a, e.text, e.ones, ip)
    BY <1>3 DEF NamedBy, Witness
  <2>3. CASE e.text \in V4
    <3>1. e.ones \in 0..V4Bits
      BY <1>1, <1>3, <2>3, To4OfV4
    <3> QED
      BY <2>1, <2>2, <2>3, <3>1, Block4, Named4
  <2>4. CASE e.text \in V6
    <3>1. e.ones \in 0..V6Bits
      BY <1>1, <1>3, <2>4, To4OfV6
    <3> QED
      BY <2>1, <2>2, <2>4, <3>1, Block6, Named6
  <2> QED
    BY <1>1, <2>3, <2>4 DEF IPs, V4, V6
<1> QED
  BY <1>2, <1>3

\* The whole list.
LEMMA ListAdmits ==
  ASSUME NEW list \in AllowLists, NEW ip \in IPs
  PROVE  IpAllowed(ParseIP(ip), ParseAllowList(list)) <=>
           list = {} \/ \E e \in list : ip \in NamedBy(e)
<1>1. To4(ParseIP(ip)) = To4(ip)
  BY Stands
<1>2. \A e \in list : e \in Entries
  BY RoutingAssumption
<1>3. (ParseAllowList(list) = {}) <=> list = {}
  BY DEF ParseAllowList
<1>4. (\E n \in ParseAllowList(list) : IPNetContains(n, To4(ip))) <=>
        \E e \in list : IPNetContains(ParseEntry(e), To4(ip))
  BY DEF ParseAllowList
<1> QED
  BY <1>1, <1>2, <1>3, <1>4, EntryAdmits DEF IpAllowed

-----------------------------------------------------------------------------
(* Host texts.                                                             *)

PortOf(t, default) == IF t.port = NoPort THEN default ELSE t.port

Covered(name) == \E p \in noProxy : RuleMatches(p, Bare(name))

\* The text with that name, case, brackets and port.
Spelled(n, u, b, p) == [name : {n}, upper : {u}, brackets : {b}, port : {p}]

\* What the pieces of canon and Match do to a text.
LEMMA LowerText ==
  ASSUME NEW n, NEW u, NEW b, NEW p, NEW t \in Spelled(n, u, b, p)
  PROVE  Lower(t) \in Spelled(n, FALSE, b, p)
  BY Zenon DEF Spelled, Lower

LEMMA SplitText ==
  ASSUME NEW n, NEW u, NEW b, NEW p, NEW t \in Spelled(n, u, b, p)
  PROVE  SplitHost(t) \in Spelled(n, u, 0, NoPort)
  BY Zenon DEF Spelled, SplitHost

LEMMA StripText ==
  ASSUME NEW n, NEW u, NEW b \in {0, 1}, NEW p, NEW t \in Spelled(n, u, b, p)
  PROVE  StripIPv6Brackets(t) \in Spelled(n, u, 0, p)
<1>1. t.brackets = b /\ (IF b > 0 THEN b - 1 ELSE b) = 0
  BY DEF Spelled
<1> QED
  BY <1>1 DEF Spelled, StripIPv6Brackets

LEMMA JoinText ==
  ASSUME NEW n, NEW u, NEW b, NEW p, NEW t \in Spelled(n, u, b, p), NEW q
  PROVE  JoinHostPort(t, q).name = n /\ JoinHostPort(t, q).port = q
  BY DEF Spelled, JoinHostPort

LEMMA TextFields ==
  ASSUME NEW t \in Texts
  PROVE  /\ t \in Spelled(t.name, t.upper, t.brackets, t.port)
         /\ t.brackets \in {0, 1}
         /\ t.name \in IPv6 /\ t.port # NoPort => t.brackets = 1
         /\ Splits(t) <=> t.port # NoPort
<1>1. /\ t \in [name : Names, upper : BOOLEAN, brackets : 0..1, port : Ports \cup {NoPort}]
      /\ t.name \in IPv6 /\ t.port # NoPort => t.brackets = 1
  BY DEF Texts
<1>2. t \in Spelled(t.name, t.upper, t.brackets, t.port)
  BY <1>1 DEF Spelled
<1>3. t.brackets \in {0, 1} /\ t.brackets <= 1
  BY <1>1
<1> QED
  BY <1>1, <1>2, <1>3 DEF Splits

\* The matcher looks at the name alone, however the host is spelled.
LEMMA MatchesAsNamed ==
  ASSUME NEW t \in Texts
  PROVE  Match(t) <=> Covered(t.name)
<1> DEFINE h == Lower(IF Splits(t) THEN SplitHost(t) ELSE StripIPv6Brackets(t))
<1>1. (IF Splits(t) THEN SplitHost(t) ELSE StripIPv6Brackets(t))
        \in Spelled(t.name, t.upper, 0, NoPort)
  BY TextFields, SplitText, StripText
<1>2. h \in Spelled(t.name, FALSE, 0, NoPort)
  BY <1>1, LowerText, Zenon
<1> HIDE DEF h
<1>3. h = Bare(t.name)
  BY <1>2, Zenon DEF Bare, Spelled
<1> QED
  BY <1>3 DEF Match, Covered, h

\* canon yields the name and the port, and so sameHost compares just those.
LEMMA CanonFields ==
  ASSUME NEW t \in Texts, NEW default
  PROVE  Canon(t, default).name = t.name /\ Canon(t, default).port = PortOf(t, default)
<1> DEFINE h == Lower(t)
<1>1. h \in Spelled(t.name, FALSE, t.brackets, t.port)
  BY TextFields, LowerText, Zenon
<1>2. h.name = t.name /\ h.port = t.port /\ h.brackets = t.brackets
  BY <1>1 DEF Spelled
<1>3. Splits(h) <=> t.port # NoPort
  BY <1>2, TextFields DEF Splits
<1>4. /\ SplitHost(h) \in Spelled(t.name, FALSE, 0, NoPort)
      /\ StripIPv6Brackets(h) \in Spelled(t.name, FALSE, 0, t.port)
  BY <1>1, TextFields, SplitText, StripText, Zenon
<1>5. Canon(t, default) =
        IF Splits(h) THEN JoinHostPort(SplitHost(h), h.port)
                     ELSE JoinHostPort(StripIPv6Brackets(h), default)
  BY DEF Canon
<1> HIDE DEF h
<1>a. ASSUME NEW p, NEW y \in Spelled(t.name, FALSE, 0, p), NEW q
      PROVE  JoinHostPort(y, q).name = t.name /\ JoinHostPort(y, q).port = q
  BY DEF Spelled, JoinHostPort
<1>6. CASE Splits(h)
  <2>1. /\ JoinHostPort(SplitHost(h), h.port).name = t.name
        /\ JoinHostPort(SplitHost(h), h.port).port = h.port
    BY <1>4, <1>a, Zenon
  <2> QED
    BY <1>2, <1>3, <1>5, <1>6, <2>1 DEF PortOf
<1>7. CASE ~Splits(h)
  <2>1. /\ JoinHostPort(StripIPv6Brackets(h), default).name = t.name
        /\ JoinHostPort(StripIPv6Brackets(h), default).port = default
    BY <1>4, <1>a, Zenon
  <2> QED
    BY <1>3, <1>5, <1>7, <2>1 DEF PortOf
<1> QED
  BY <1>6, <1>7

LEMMA SameHostAsNamed ==
  ASSUME NEW s \in Texts, NEW t \in Texts, SameHost(s, t, "80")
  PROVE  s.name = t.name /\ PortOf(s, "80") = PortOf(t, "80")
  BY CanonFields DEF SameHost

\* What is dialled is the name and the port, if it is an address at all.
LEMMA DialledAsNamed ==
  ASSUME NEW t \in Texts, NEW default
  PROVE  Resolve(DialTarget(t, default)) = [name |-> t.name, port |-> PortOf(t, default)]
<1>1. CASE Splits(t)
  BY <1>1, TextFields DEF DialTarget, Resolve, PortOf
<1>2. CASE ~Splits(t)
  <2>1. t.port = NoPort
    BY <1>2, TextFields
  <2>2. JoinHostPort(t, default).name = t.name /\ JoinHostPort(t, default).port = default
    BY TextFields, JoinText
  <2> QED
    BY <1>2, <2>1, <2>2 DEF DialTarget, Resolve, PortOf
<1> QED
  BY <1>1, <1>2

-----------------------------------------------------------------------------
(* The session.                                                            *)

\* An open direct connection is to a host -noproxy covers, at the address of the
\* text it is bound to, and a request waiting while it is open is for that host.
RouteInv ==
    /\ pending \in Requests \cup {NoText}
    /\ life = "new" => pending = NoText
    /\ pending # NoText => client = NoText
    /\ bound # NoText =>
         /\ bound \in Texts
         /\ Covered(bound.name)
         /\ addr = [name |-> bound.name, port |-> PortOf(bound, "80")]
         /\ pending # NoText => SameHost(pending.host, bound, "80")

IInv == RouteInv /\ AdmitsAsNamed /\ RoutedAsNamed /\ TunnelPortAllowed

LEMMA InitIInv == Init => IInv
  BY DEF Init, IInv, RouteInv, AdmitsAsNamed, RoutedAsNamed, TunnelPortAllowed, Nothing

\* A step that sends nothing keeps what was sent, under the same patterns.
LEMMA NothingSent ==
  ASSUME IInv, noProxy' = noProxy, sent' \in {sent, Nothing}
  PROVE  RoutedAsNamed' /\ TunnelPortAllowed'
<1>1. CASE sent' = sent
  BY <1>1 DEF IInv, RoutedAsNamed, TunnelPortAllowed
<1>2. CASE sent' = Nothing
  BY <1>2 DEF RoutedAsNamed, TunnelPortAllowed, Nothing
<1> QED
  BY <1>1, <1>2

\* After a hang-up there is nothing left to route.
LEMMA HungUp ==
  ASSUME RouteInv, Hangup, pending # NoText, client' = client
  PROVE  RouteInv' /\ AdmitsAsNamed'
  BY DEF RouteInv, Hangup, AdmitsAsNamed

\* A request that goes upstream is for a host that is not covered.
LEMMA UpstreamSent ==
  ASSUME pending \in Requests, ~Match(pending.host), noProxy' = noProxy,
         sent' = [req |-> pending, via |-> "upstream", addr |-> NoText]
  PROVE  RoutedAsNamed' /\ TunnelPortAllowed'
<1>1. pending.host \in Texts
  BY DEF Requests
<1>2. ~Covered(pending.host.name)
  BY <1>1, MatchesAsNamed
<1>3. sent'.req = pending /\ sent'.via = "upstream"
  OBVIOUS
<1> QED
  BY <1>2, <1>3 DEF RoutedAsNamed, TunnelPortAllowed, Covered

\* One that goes out directly is for a covered host, at the address it names.
LEMMA DirectSent ==
  ASSUME pending \in Requests, Covered(pending.host.name), noProxy' = noProxy, ~Refused,
         sent' = [req |-> pending, via |-> "direct",
                  addr |-> [name |-> pending.host.name, port |-> PortOf(pending.host, DefaultPort)]]
  PROVE  RoutedAsNamed' /\ TunnelPortAllowed'
<1> DEFINE a == [name |-> pending.host.name, port |-> PortOf(pending.host, DefaultPort)]
<1>1. sent'.req = pending /\ sent'.via = "direct" /\ sent'.addr = a
  OBVIOUS
<1>2. RoutedAsNamed'
  BY <1>1 DEF RoutedAsNamed, Covered, DefaultPort, PortOf
<1>3. TunnelPortAllowed'
  <2>1. SUFFICES ASSUME pending.method = "CONNECT"
                 PROVE  ConnectPorts = {} \/ {a.port, "*"} \cap ConnectPorts # {}
    BY <1>1 DEF TunnelPortAllowed
  <2>2. pending.host \in Texts
    BY DEF Requests
  <2>3. a.port = IF Splits(pending.host) THEN pending.host.port ELSE "443"
    BY <2>1, <2>2, TextFields DEF PortOf, DefaultPort
  <2> QED
    BY <2>1, <2>3 DEF Refused, ConnectPortAllowed
<1> QED
  BY <1>2, <1>3

LEMMA NextIInv == IInv /\ [Next]_vars => IInv'
<1> SUFFICES ASSUME IInv, [Next]_vars PROVE IInv'
  OBVIOUS
<1>1. ASSUME NEW list \in AllowLists, NEW ip \in IPs, Connect(list, ip) PROVE IInv'
  <2>1. RouteInv'
    BY <1>1 DEF IInv, Connect, RouteInv, Covered
  <2>2. AdmitsAsNamed'
    <3>1. client'.list = list /\ client'.from = ip
      BY <1>1 DEF Connect
    <3>2. life' = "open" <=> IpAllowed(ParseIP(ip), ParseAllowList(list))
      BY <1>1 DEF Connect
    <3> QED
      BY <3>1, <3>2, ListAdmits DEF AdmitsAsNamed
  <2> QED
    BY <1>1, <2>1, <2>2, NothingSent DEF IInv, Connect
<1>2. ASSUME NEW r \in Requests, Receive(r) PROVE IInv'
  <2>1. r # NoText /\ pending' = r /\ client' = NoText /\ life = "open" /\ life' = life
    BY <1>2, RoutingAssumption DEF Receive
  <2>2. noProxy' = noProxy /\ sent' = Nothing
    BY <1>2 DEF Receive
  <2>3. CASE bound' = NoText
    BY <2>1, <2>2, <2>3, NothingSent DEF IInv, RouteInv, AdmitsAsNamed
  <2>4. CASE bound' # NoText
    <3>1. bound # NoText /\ SameHost(r.host, bound, "80") /\ bound' = bound /\ addr' = addr
      BY <1>2, <2>4 DEF Receive
    <3>2. RouteInv'
      BY <2>1, <2>2, <3>1 DEF IInv, RouteInv, Covered
    <3> QED
      BY <2>1, <2>2, <3>2, NothingSent DEF IInv, AdmitsAsNamed
  <2> QED
    BY <2>3, <2>4
<1>3. CASE Refuse \/ DialFails
  <2>1. Hangup /\ pending # NoText /\ UNCHANGED <<noProxy, client, sent>>
    BY <1>3 DEF Refuse, DialFails, Bypasses
  <2> QED
    BY <2>1, HungUp, NothingSent DEF IInv
<1>4. CASE SendBound
  <2>1. /\ pending \in Requests /\ pending.host \in Texts /\ pending.method = "GET"
        /\ bound # NoText /\ noProxy' = noProxy
    BY <1>4 DEF SendBound, IInv, RouteInv, Requests
  <2>2. pending # NoText
    BY <1>4 DEF SendBound
  <2>3. /\ pending.host.name = bound.name
        /\ PortOf(pending.host, "80") = PortOf(bound, "80")
    BY <2>1, <2>2, SameHostAsNamed DEF IInv, RouteInv
  <2>4. /\ Covered(pending.host.name) /\ ~Refused /\ DefaultPort = "80"
        /\ addr = [name |-> pending.host.name, port |-> PortOf(pending.host, DefaultPort)]
    BY <2>1, <2>3 DEF IInv, RouteInv, Refused, DefaultPort
  <2>5. RoutedAsNamed' /\ TunnelPortAllowed'
    BY <1>4, <2>1, <2>4, DirectSent DEF SendBound
  <2>6. RouteInv'
    BY <1>4, <2>2 DEF SendBound, IInv, RouteInv, Covered
  <2>7. AdmitsAsNamed'
    BY <1>4, <2>2 DEF SendBound, IInv, RouteInv, AdmitsAsNamed
  <2> QED
    BY <2>5, <2>6, <2>7 DEF IInv
<1>5. ASSUME Bypasses, Splits(Target), noProxy' = noProxy,
             sent' = [req |-> pending, via |-> "direct", addr |-> Resolve(Target)]
      PROVE  /\ RoutedAsNamed' /\ TunnelPortAllowed'
             /\ pending.host \in Texts /\ Covered(pending.host.name)
             /\ Resolve(Target) = [name |-> pending.host.name, port |-> PortOf(pending.host, DefaultPort)]
  <2>1. pending \in Requests /\ pending.host \in Texts /\ ~Refused
    BY <1>5 DEF Bypasses, IInv, RouteInv, Requests
  <2>2. Covered(pending.host.name)
    BY <1>5, <2>1, MatchesAsNamed DEF Bypasses
  <2>3. Resolve(Target) = [name |-> pending.host.name, port |-> PortOf(pending.host, DefaultPort)]
    BY <2>1, DialledAsNamed DEF Target
  <2> QED
    BY <1>5, <2>1, <2>2, <2>3, DirectSent
<1>6. CASE SendDirect
  <2>1. /\ RoutedAsNamed' /\ TunnelPortAllowed'
        /\ pending.host \in Texts /\ Covered(pending.host.name)
        /\ Resolve(Target) = [name |-> pending.host.name, port |-> PortOf(pending.host, DefaultPort)]
    BY <1>5, <1>6 DEF SendDirect
  <2>2. /\ DefaultPort = "80" /\ pending # NoText /\ pending' = NoText /\ noProxy' = noProxy
        /\ bound' = pending.host /\ addr' = Resolve(Target) /\ UNCHANGED <<client, life>>
    BY <1>6 DEF SendDirect, DefaultPort, Bypasses
  <2>3. RouteInv'
    BY <2>1, <2>2 DEF IInv, RouteInv, Covered, PortOf
  <2>4. AdmitsAsNamed'
    BY <2>2 DEF IInv, RouteInv, AdmitsAsNamed
  <2> QED
    BY <2>1, <2>3, <2>4 DEF IInv
<1>7. CASE TunnelDirect
  <2>1. RoutedAsNamed' /\ TunnelPortAllowed'
    BY <1>5, <1>7 DEF TunnelDirect
  <2>2. Hangup /\ pending # NoText /\ client' = client
    BY <1>7 DEF TunnelDirect, Bypasses
  <2> QED
    BY <2>1, <2>2, HungUp DEF IInv
<1>8. CASE SendUpstream
  <2>1. pending # NoText /\ pending \in Requests /\ ~Match(pending.host)
    BY <1>8 DEF SendUpstream, IInv, RouteInv
  <2>2. RoutedAsNamed' /\ TunnelPortAllowed'
    BY <1>8, <2>1, UpstreamSent DEF SendUpstream
  <2>3. CASE pending.method = "CONNECT"
    BY <1>8, <2>1, <2>2, <2>3, HungUp DEF SendUpstream, IInv
  <2>4. CASE pending.method # "CONNECT"
    <3>1. RouteInv' /\ AdmitsAsNamed'
      BY <1>8, <2>1, <2>4 DEF SendUpstream, IInv, RouteInv, AdmitsAsNamed
    <3> QED
      BY <2>2, <3>1 DEF IInv
  <2> QED
    BY <2>3, <2>4
<1>9. CASE UNCHANGED vars
  BY <1>9, NothingSent DEF vars, IInv, RouteInv, AdmitsAsNamed, Covered
<1> QED
  BY <1>1, <1>2, <1>3, <1>4, <1>6, <1>7, <1>8, <1>9 DEF Next

LEMMA Invariance == Spec => []IInv
  BY InitIInv, NextIInv, PTL DEF Spec

\* handleClientCtx admits exactly the clients that -allowed-ips names, for addresses
\* of any length, any number of entries and a prefix of any length, in the IPv4 or
\* the mapped form.
THEOREM ClientsAreAdmittedAsNamed == Spec => []AdmitsAsNamed
<1>1. IInv => AdmitsAsNamed
  BY DEF IInv
<1> QED
  BY <1>1, Invariance, PTL

\* Match, sameHost and dialDirect agree on what a host text names, for any names,
\* patterns and ports: a session's requests all go where the policy sends their
\* host, also on the direct connection that is never matched again.
THEOREM RequestsGoAsNamed == Spec => []RoutedAsNamed
<1>1. IInv => RoutedAsNamed
  BY DEF IInv
<1> QED
  BY <1>1, Invariance, PTL

\* validateRequest checks the very port tunnelDirect dials.
THEOREM TunnelPortsAreChecked == Spec => []TunnelPortAllowed
<1>1. IInv => TunnelPortAllowed
  BY DEF IInv
<1> QED
  BY <1>1, Invariance, PTL

-----------------------------------------------------------------------------
(* The request's header on its way through several proxies.                *)

Proxies == Others \cup {Self}
Lines == Seq(Seq(Proxies))

\* A line holds what is appended to it, and what it held.
LEMMA AppendedLine ==
  ASSUME NEW S, NEW line \in Seq(S), NEW v \in S
  PROVE  /\ Append(line, v) \in Seq(S)
         /\ v \in ToSet(Append(line, v))
         /\ \A w \in ToSet(line) : w \in ToSet(Append(line, v))
         /\ Last(Append(line, v)) = v
<1> DEFINE l == Append(line, v)
<1>1. /\ l \in Seq(S) /\ Len(l) = Len(line) + 1 /\ Len(line) \in Nat
      /\ \A i \in 1..Len(line) : l[i] = line[i]
      /\ l[Len(line) + 1] = v
  BY AppendProperties, LenProperties
<1>2. DOMAIN l = 1..Len(l) /\ DOMAIN line = 1..Len(line)
  BY <1>1, LenProperties
<1> HIDE DEF l
<1>3. Len(l) \in DOMAIN l /\ l[Len(l)] = v
  BY <1>1, <1>2
<1>4. \A i \in DOMAIN line : i \in DOMAIN l /\ l[i] = line[i]
  BY <1>1, <1>2
<1> QED
  BY <1>1, <1>3, <1>4 DEF l, ToSet, Last

\* The first line of a field.
LEMMA FirstLine ==
  ASSUME NEW S, NEW h, NEW f, h[f] \in Seq(Seq(S))
  PROVE  HGet(h, f) \in Seq(S)
<1>1. CASE h[f] = <<>>
  BY <1>1 DEF HGet
<1>2. CASE h[f] # <<>>
  <2>1. 1 \in 1..Len(h[f])
    BY <1>2, EmptySeq, LenProperties
  <2>2. h[f][1] \in Seq(S)
    BY <2>1, ElementOfSeq
  <2> QED
    BY <1>2, <2>2 DEF HGet
<1> QED
  BY <1>1, <1>2

Shaped(h) == h = [f \in FieldNames |-> h[f]]

\* http.Header.Set replaces one field.
LEMMA SetField ==
  ASSUME NEW h, Shaped(h), NEW f \in FieldNames, NEW line
  PROVE  /\ Shaped(HSet(h, f, line))
         /\ HSet(h, f, line)[f] = <<line>>
         /\ \A g \in FieldNames \ {f} : HSet(h, f, line)[g] = h[g]
  BY DEF Shaped, HSet

\* appendHeaderValue leaves one line, the first with the value at its end.
LEMMA AppendField ==
  ASSUME NEW h, Shaped(h), NEW f \in FieldNames, NEW v
  PROVE  /\ Shaped(AppendHeaderValue(h, f, v))
         /\ AppendHeaderValue(h, f, v)[f] = <<Append(HGet(h, f), v)>>
         /\ \A g \in FieldNames \ {f} : AppendHeaderValue(h, f, v)[g] = h[g]
<1> DEFINE line == Append(HGet(h, f), v)
<1>1. AppendHeaderValue(h, f, v) = HSet(h, f, line)
  BY DEF AppendHeaderValue
<1> HIDE DEF line
<1>2. /\ Shaped(HSet(h, f, line)) /\ HSet(h, f, line)[f] = <<line>>
      /\ \A g \in FieldNames \ {f} : HSet(h, f, line)[g] = h[g]
  BY SetField
<1> QED
  BY <1>1, <1>2 DEF line

LEMMA FieldsNamed ==
  /\ HopByHop \subseteq FieldNames
  /\ {"Via", "Forwarded", "X-Forwarded-For", "X-Forwarded-Host", "Content-Length", "Cookie"}
       \subseteq FieldNames
  /\ HopByHop = {"Connection", "Keep-Alive", "Proxy-Authorization"}
  BY DEF FieldNames, HopByHop

\* sanitizeHopByHop takes fields away whole or leaves them.
LEMMA Sanitized ==
  ASSUME NEW h
  PROVE  LET s == SanitizeHopByHop(h) IN
         /\ Shaped(s)
         /\ \A f \in HopByHop : s[f] = <<>>
         /\ s["Cookie"] = IF "Cookie" \in Listed(h) THEN <<>> ELSE h["Cookie"]
         /\ chunked => s["Content-Length"] = <<>>
         /\ \A f \in FieldNames : s[f] \in {<<>>, h[f]}
<1> DEFINE gone == Listed(h) \cup HopByHop \cup (IF chunked THEN {"Content-Length"} ELSE {})
<1>1. SanitizeHopByHop(h) = [f \in FieldNames |-> IF f \in gone THEN <<>> ELSE h[f]]
  BY DEF SanitizeHopByHop, HDel
<1>2. "Cookie" \in gone <=> "Cookie" \in Listed(h)
  BY FieldsNamed
<1>3. HopByHop \subseteq gone /\ (chunked => "Content-Length" \in gone)
  OBVIOUS
<1> HIDE DEF gone
<1> QED
  BY <1>1, <1>2, <1>3, FieldsNamed DEF Shaped

\* injectForwardingHeaders adds to the fields it is enabled for, and to no others.
LEMMA ForwardingInjected ==
  ASSUME NEW h, Shaped(h)
  PROVE  LET g == InjectForwardingHeaders(h) IN
         /\ Shaped(g)
         /\ g["Forwarded"] = IF ForwardedEnabled THEN <<Append(HGet(h, "Forwarded"), Self)>>
                             ELSE h["Forwarded"]
         /\ g["X-Forwarded-For"] = IF XForwardedForEnabled
                                   THEN <<Append(HGet(h, "X-Forwarded-For"), Self)>>
                                   ELSE h["X-Forwarded-For"]
         /\ XForwardedForEnabled => g["X-Forwarded-Host"] # <<>>
         /\ \A f \in FieldNames \ {"Forwarded", "X-Forwarded-For", "X-Forwarded-Host"} : g[f] = h[f]
<1> DEFINE F == IF ForwardedEnabled THEN AppendHeaderValue(h, "Forwarded", Self) ELSE h
           X == AppendHeaderValue(F, "X-Forwarded-For", Self)
           g == InjectForwardingHeaders(h)
<1>1. g = IF ~XForwardedForEnabled THEN F
          ELSE IF HGet(X, "X-Forwarded-Host") = <<>>
               THEN HSet(X, "X-Forwarded-Host", <<Self>>) ELSE X
  BY DEF InjectForwardingHeaders
<1>2. /\ Shaped(F)
      /\ F["Forwarded"] = IF ForwardedEnabled THEN <<Append(HGet(h, "Forwarded"), Self)>>
                          ELSE h["Forwarded"]
      /\ \A f \in FieldNames \ {"Forwarded"} : F[f] = h[f]
  <2>1. CASE ForwardedEnabled
    <3>1. F = AppendHeaderValue(h, "Forwarded", Self)
      BY <2>1
    <3>2. "Forwarded" \in FieldNames
      BY FieldsNamed
    <3> HIDE DEF F
    <3>3. /\ Shaped(F) /\ F["Forwarded"] = <<Append(HGet(h, "Forwarded"), Self)>>
          /\ \A f \in FieldNames \ {"Forwarded"} : F[f] = h[f]
      BY <3>1, <3>2, AppendField
    <3> QED
      BY <2>1, <3>3
  <2>2. CASE ~ForwardedEnabled
    BY <2>2
  <2> QED
    BY <2>1, <2>2
<1> HIDE DEF F
<1>3. HGet(F, "X-Forwarded-For") = HGet(h, "X-Forwarded-For")
  BY <1>2, FieldsNamed DEF HGet
<1>4. /\ Shaped(X)
      /\ X["X-Forwarded-For"] = <<Append(HGet(h, "X-Forwarded-For"), Self)>>
      /\ \A f \in FieldNames \ {"X-Forwarded-For"} : X[f] = F[f]
  <2>1. "X-Forwarded-For" \in FieldNames
    BY FieldsNamed
  <2> QED
    BY <1>2, <1>3, <2>1, AppendField
<1> HIDE DEF X
<1>5. CASE ~XForwardedForEnabled
  BY <1>1, <1>2, <1>5, FieldsNamed
<1>6. CASE XForwardedForEnabled /\ HGet(X, "X-Forwarded-Host") = <<>>
  <2>1. /\ Shaped(g) /\ g["X-Forwarded-Host"] = <<<<Self>>>>
        /\ \A f \in FieldNames \ {"X-Forwarded-Host"} : g[f] = X[f]
    BY <1>1, <1>4, <1>6, SetField, FieldsNamed
  <2>2. <<<<Self>>>> # <<>>
    OBVIOUS
  <2> HIDE DEF g
  <2> QED
    BY <1>2, <1>4, <1>6, <2>1, <2>2, FieldsNamed DEF g
<1>7. CASE XForwardedForEnabled /\ HGet(X, "X-Forwarded-Host") # <<>>
  <2>1. X["X-Forwarded-Host"] # <<>>
    BY <1>7 DEF HGet
  <2>2. g = X
    BY <1>1, <1>7
  <2> HIDE DEF g
  <2> QED
    BY <1>2, <1>4, <1>7, <2>1, <2>2, FieldsNamed DEF g
<1> QED
  BY <1>5, <1>6, <1>7

\* What leaves this proxy: sanitised, and then with its own fields added.
LEMMA Rewritten ==
  ASSUME NEW way, NEW h
  PROVE  LET s == SanitizeHopByHop(h)
             r == Rewrite(way, h) IN
         /\ Shaped(r)
         /\ r["Via"] = <<Append(HGet(s, "Via"), Self)>>
         /\ r["Connection"] = <<>> /\ r["Keep-Alive"] = <<>>
         /\ r["Proxy-Authorization"] = IF way = "fresh" THEN <<<<"negotiate">>>> ELSE <<>>
         /\ r["Forwarded"] = IF way # "direct" /\ ForwardedEnabled
                             THEN <<Append(HGet(s, "Forwarded"), Self)>> ELSE s["Forwarded"]
         /\ r["X-Forwarded-For"] = IF way # "direct" /\ XForwardedForEnabled
                                   THEN <<Append(HGet(s, "X-Forwarded-For"), Self)>>
                                   ELSE s["X-Forwarded-For"]
         /\ way # "direct" /\ XForwardedForEnabled => r["X-Forwarded-Host"] # <<>>
         /\ r["Cookie"] = s["Cookie"] /\ r["Content-Length"] = s["Content-Length"]
<1> DEFINE s == SanitizeHopByHop(h)
           F == InjectForwardingHeaders(s)
           A == IF way = "fresh" THEN HSet(F, "Proxy-Authorization", <<"negotiate">>) ELSE F
           B == IF way = "direct" THEN s ELSE A
           r == Rewrite(way, h)
<1> USE FieldsNamed
<1>1. r = AppendHeaderValue(B, "Via", Self)
  BY DEF Rewrite, InjectVia
<1>2. Shaped(s) /\ s["Connection"] = <<>> /\ s["Keep-Alive"] = <<>> /\ s["Proxy-Authorization"] = <<>>
  BY Sanitized
<1> HIDE DEF s
<1>3. /\ Shaped(F)
      /\ F["Forwarded"] = IF ForwardedEnabled THEN <<Append(HGet(s, "Forwarded"), Self)>>
                          ELSE s["Forwarded"]
      /\ F["X-Forwarded-For"] = IF XForwardedForEnabled
                                THEN <<Append(HGet(s, "X-Forwarded-For"), Self)>>
                                ELSE s["X-Forwarded-For"]
      /\ XForwardedForEnabled => F["X-Forwarded-Host"] # <<>>
      /\ \A f \in FieldNames \ {"Forwarded", "X-Forwarded-For", "X-Forwarded-Host"} : F[f] = s[f]
  BY <1>2, ForwardingInjected, Zenon
<1> HIDE DEF F
<1>4. /\ Shaped(A)
      /\ A["Proxy-Authorization"] = IF way = "fresh" THEN <<<<"negotiate">>>> ELSE F["Proxy-Authorization"]
      /\ \A f \in FieldNames \ {"Proxy-Authorization"} : A[f] = F[f]
  <2>1. CASE way = "fresh"
    <3> DEFINE line == <<"negotiate">>
    <3>1. A = HSet(F, "Proxy-Authorization", line)
      BY <2>1
    <3> HIDE DEF line, A
    <3>2. "Proxy-Authorization" \in FieldNames /\ Shaped(F)
      BY <1>3
    <3>3. /\ Shaped(A) /\ A["Proxy-Authorization"] = <<line>>
          /\ \A f \in FieldNames \ {"Proxy-Authorization"} : A[f] = F[f]
      BY <3>1, <3>2, SetField
    <3> QED
      BY <2>1, <3>3 DEF line
  <2>2. CASE way # "fresh"
    BY <1>3, <2>2
  <2> QED
    BY <2>1, <2>2
<1> HIDE DEF A
<1>5. CASE way = "direct"
  <2>0. "Via" \in FieldNames
    OBVIOUS
  <2>1. r = AppendHeaderValue(s, "Via", Self)
    BY <1>1, <1>5
  <2> HIDE DEF r
  <2>2. /\ Shaped(r) /\ r["Via"] = <<Append(HGet(s, "Via"), Self)>>
        /\ \A f \in FieldNames \ {"Via"} : r[f] = s[f]
    BY <1>2, <2>0, <2>1, AppendField
  <2>3. r["Proxy-Authorization"] = <<>> /\ r["Connection"] = <<>> /\ r["Keep-Alive"] = <<>>
    BY <1>2, <2>2
  <2> QED
    BY <1>5, <2>2, <2>3 DEF r, s
<1>6. CASE way # "direct"
  <2>0. "Via" \in FieldNames
    OBVIOUS
  <2>1. r = AppendHeaderValue(A, "Via", Self)
    BY <1>1, <1>6
  <2> HIDE DEF r
  <2>2. HGet(A, "Via") = HGet(s, "Via")
    BY <1>3, <1>4 DEF HGet
  <2>3. /\ Shaped(r) /\ r["Via"] = <<Append(HGet(s, "Via"), Self)>>
        /\ \A f \in FieldNames \ {"Via"} : r[f] = A[f]
    BY <1>4, <2>0, <2>1, <2>2, AppendField
  <2>4. r["Proxy-Authorization"] = IF way = "fresh" THEN <<<<"negotiate">>>> ELSE <<>>
    BY <1>2, <1>3, <1>4, <2>3
  <2>5. /\ r["Connection"] = <<>> /\ r["Keep-Alive"] = <<>>
        /\ r["Cookie"] = s["Cookie"] /\ r["Content-Length"] = s["Content-Length"]
    BY <1>2, <1>3, <1>4, <2>3
  <2>6. /\ r["Forwarded"] = F["Forwarded"] /\ r["X-Forwarded-For"] = F["X-Forwarded-For"]
        /\ r["X-Forwarded-Host"] = F["X-Forwarded-Host"]
    BY <1>4, <2>3
  <2> QED
    BY <1>3, <1>6, <2>3, <2>4, <2>5, <2>6 DEF r, s
<1> QED
  BY <1>5, <1>6

\* A request that has been here carries this proxy's pseudonym where
\* validateRequest looks for it, and one that has not still has the client's cookie.
Passed == \E i \in DOMAIN path : path[i] = Self

HInv ==
    /\ path \in Seq(Proxies)
    /\ Shaped(header)
    /\ header["Via"] \in Lines
    /\ header["Forwarded"] \in Lines
    /\ header["X-Forwarded-For"] \in Lines
    /\ Passed => Self \in ToSet(HGet(header, "Via"))
    /\ ~Passed => header["Cookie"] = <<<<"client">>>>
    /\ LoopIsBroken
    /\ OwnFieldsArrive

LEMMA InitHInv == HeaderInit => HInv
<1> SUFFICES ASSUME HeaderInit PROVE HInv
  OBVIOUS
<1>1. PICK options \in SUBSET Options :
        header = [NoHeader EXCEPT !["Connection"] = Connection(options),
                                    !["Keep-Alive"] = <<<<"client">>>>,
                                    !["Proxy-Authorization"] = <<<<"client">>>>,
                                    !["Content-Length"] = <<<<"client">>>>,
                                    !["Cookie"] = <<<<"client">>>>]
  BY Zenon DEF HeaderInit
<1>2. /\ Shaped(header) /\ header["Cookie"] = <<<<"client">>>>
      /\ header["Via"] = <<>> /\ header["Forwarded"] = <<>> /\ header["X-Forwarded-For"] = <<>>
  BY <1>1, Zenon DEF Shaped, NoHeader, FieldNames, HopByHop
<1>3. path = <<>>
  BY DEF HeaderInit
<1> QED
  BY <1>2, <1>3 DEF HInv, Lines, Passed, LoopIsBroken, OwnFieldsArrive

\* A path grows by one proxy.
LEMMA PathGrows ==
  ASSUME HInv, NEW p \in Proxies, path' = Append(path, p)
  PROVE  /\ path' \in Seq(Proxies) /\ path' # <<>> /\ Last(path') = p
         /\ DOMAIN path = 1..Len(path) /\ Len(path) \in Nat /\ Len(path') = Len(path) + 1
         /\ DOMAIN path' = 1..Len(path')
         /\ \A i \in DOMAIN path : path'[i] = path[i]
         /\ path'[Len(path')] = p
<1>1. path \in Seq(Proxies)
  BY DEF HInv
<1>2. DOMAIN path = 1..Len(path) /\ Len(path) \in Nat
  BY <1>1, LenProperties
<1>3. /\ path' \in Seq(Proxies) /\ path' # <<>> /\ Len(path') = Len(path) + 1
      /\ \A i \in 1..Len(path) : path'[i] = path[i]
      /\ path'[Len(path) + 1] = p
  BY <1>1, AppendProperties
<1>4. DOMAIN path' = 1..Len(path')
  BY <1>3, LenProperties
<1> QED
  BY <1>2, <1>3, <1>4 DEF Last

\* A field of a single line that holds this proxy's entry.
LEMMA OneLine ==
  ASSUME NEW h, NEW f, NEW line, h[f] = <<line>>
  PROVE  /\ Len(h[f]) = 1 /\ h[f][1] = line
         /\ HGet(h, f) = line
         /\ Self \in ToSet(line) => Self \in FieldEntries(h, f)
<1>1. Len(<<line>>) = 1 /\ <<line>>[1] = line /\ <<line>> # <<>> /\ DOMAIN <<line>> = {1}
  OBVIOUS
<1>2. line \in ToSet(<<line>>)
  BY <1>1 DEF ToSet
<1> QED
  BY <1>1, <1>2 DEF HGet, FieldEntries

LEMMA ForwardHInv ==
  ASSUME HInv, NEW way \in {"direct", "fresh", "reused"}, NEW next, Forward(way, next)
  PROVE  HInv'
<1> DEFINE s == SanitizeHopByHop(header)
           line(f) == Append(HGet(s, f), Self)
<1>1. /\ ~Passed /\ header' = Rewrite(way, header) /\ path' = Append(path, Self)
      /\ route' = way /\ listed' = Listed(header) /\ chunked' = chunked
  BY DEF Forward, LoopDetected, HInv
<1>2. \A f \in {"Via", "Forwarded", "X-Forwarded-For"} : s[f] \in Lines
  <2>1. <<>> \in Lines
    BY DEF Lines
  <2> QED
    BY <2>1, Sanitized, FieldsNamed DEF HInv
<1>3. \A f \in {"Via", "Forwarded", "X-Forwarded-For"} :
        /\ line(f) \in Seq(Proxies) /\ Self \in ToSet(line(f)) /\ Last(line(f)) = Self
        /\ <<line(f)>> \in Lines
  <2> SUFFICES ASSUME NEW f \in {"Via", "Forwarded", "X-Forwarded-For"}
               PROVE  /\ line(f) \in Seq(Proxies) /\ Self \in ToSet(line(f))
                      /\ Last(line(f)) = Self /\ <<line(f)>> \in Lines
    BY Zenon
  <2>1. HGet(s, f) \in Seq(Proxies)
    BY <1>2, FirstLine DEF Lines
  <2>2. Self \in Proxies
    BY DEF Proxies
  <2>3. line(f) \in Seq(Proxies) /\ Self \in ToSet(line(f)) /\ Last(line(f)) = Self
    BY <2>1, <2>2, AppendedLine
  <2> HIDE DEF line
  <2>4. <<line(f)>> \in Lines
    BY <2>3 DEF Lines
  <2> QED
    BY <2>3, <2>4
<1>4. /\ Shaped(header') /\ header'["Via"] = <<line("Via")>>
      /\ header'["Connection"] = <<>> /\ header'["Keep-Alive"] = <<>>
      /\ header'["Proxy-Authorization"] = IF way = "fresh" THEN <<<<"negotiate">>>> ELSE <<>>
      /\ header'["Forwarded"] = IF way # "direct" /\ ForwardedEnabled
                                THEN <<line("Forwarded")>> ELSE s["Forwarded"]
      /\ header'["X-Forwarded-For"] = IF way # "direct" /\ XForwardedForEnabled
                                      THEN <<line("X-Forwarded-For")>> ELSE s["X-Forwarded-For"]
      /\ way # "direct" /\ XForwardedForEnabled => header'["X-Forwarded-Host"] # <<>>
      /\ header'["Cookie"] = s["Cookie"] /\ header'["Content-Length"] = s["Content-Length"]
  <2> DEFINE out == Rewrite(way, header)
  <2>1. /\ Shaped(out) /\ out["Via"] = <<line("Via")>>
        /\ out["Connection"] = <<>> /\ out["Keep-Alive"] = <<>>
        /\ out["Proxy-Authorization"] = IF way = "fresh" THEN <<<<"negotiate">>>> ELSE <<>>
        /\ out["Forwarded"] = IF way # "direct" /\ ForwardedEnabled
                              THEN <<line("Forwarded")>> ELSE s["Forwarded"]
        /\ out["X-Forwarded-For"] = IF way # "direct" /\ XForwardedForEnabled
                                    THEN <<line("X-Forwarded-For")>> ELSE s["X-Forwarded-For"]
        /\ way # "direct" /\ XForwardedForEnabled => out["X-Forwarded-Host"] # <<>>
        /\ out["Cookie"] = s["Cookie"] /\ out["Content-Length"] = s["Content-Length"]
    BY Rewritten
  <2>2. header' = out
    BY <1>1
  <2> HIDE DEF out
  <2> QED
    BY <2>1, <2>2, Zenon
<1>5. /\ s["Cookie"] = IF "Cookie" \in listed' THEN <<>> ELSE <<<<"client">>>>
      /\ chunked => s["Content-Length"] = <<>>
  BY <1>1, Sanitized, Zenon DEF HInv
<1> HIDE DEF line, s
<1>6. /\ path' \in Seq(Proxies) /\ path' # <<>> /\ Last(path') = Self
      /\ DOMAIN path = 1..Len(path) /\ Len(path) \in Nat /\ Len(path') = Len(path) + 1
      /\ DOMAIN path' = 1..Len(path')
      /\ \A i \in DOMAIN path : path'[i] = path[i]
      /\ path'[Len(path')] = Self
  <2>1. Self \in Proxies
    BY DEF Proxies
  <2> QED
    BY <1>1, <2>1, PathGrows, Zenon
<1>7. Passed' /\ LoopIsBroken'
  BY <1>1, <1>6 DEF Passed, LoopIsBroken
<1>8. header'["Forwarded"] \in Lines /\ header'["X-Forwarded-For"] \in Lines /\ header'["Via"] \in Lines
  BY <1>2, <1>3, <1>4
<1>9. Self \in ToSet(HGet(header', "Via")) /\ Len(header'["Via"]) = 1 /\ Last(header'["Via"][1]) = Self
  BY <1>3, <1>4, OneLine
<1>10. /\ way # "direct" /\ ForwardedEnabled => Self \in FieldEntries(header', "Forwarded")
       /\ way # "direct" /\ XForwardedForEnabled => Self \in FieldEntries(header', "X-Forwarded-For")
  BY <1>3, <1>4, OneLine, Zenon
<1>11. (header'["Cookie"] = <<>>) = ("Cookie" \in listed')
  BY <1>4, <1>5
<1>12. OwnFieldsArrive'
  <2>1. \A f \in HopByHop \ {"Proxy-Authorization"} : header'[f] = <<>>
    BY <1>4, FieldsNamed
  <2>2. chunked' => header'["Content-Length"] = <<>>
    BY <1>1, <1>4, <1>5
  <2> QED
    BY <1>1, <1>4, <1>9, <1>10, <1>11, <2>1, <2>2 DEF OwnFieldsArrive
<1> QED
  BY <1>4, <1>6, <1>7, <1>8, <1>9, <1>12 DEF HInv

LEMMA AppendedLast == \A S : \A s \in Seq(S), e \in S : Append(s, e) # <<>>
  BY AppendProperties

\* Another proxy's entry goes to the end of Via: a line it adds comes after the
\* first, and one it lengthens keeps its entries.
LEMMA ViaExtended ==
  ASSUME NEW via \in Lines, NEW p \in Proxies, NEW ownLine \in BOOLEAN,
         NEW via2, via2 = IF via = <<>> \/ ownLine THEN Append(via, <<p>>)
                          ELSE Front(via) \o <<Append(Last(via), p)>>
  PROVE  /\ via2 \in Lines
         /\ via2 # <<>>
         /\ via # <<>> => \A w \in ToSet(via[1]) : w \in ToSet(via2[1])
<1>1. via \in Seq(Seq(Proxies)) /\ Len(via) \in Nat
  BY LenProperties DEF Lines
<1>2. CASE via = <<>> \/ ownLine
  <2>1. <<p>> \in Seq(Proxies)
    OBVIOUS
  <2>2. /\ via2 \in Seq(Seq(Proxies)) /\ Len(via2) = Len(via) + 1
        /\ \A i \in 1..Len(via) : via2[i] = via[i]
    BY <1>1, <1>2, <2>1, AppendProperties
  <2>3. via # <<>> => 1 \in 1..Len(via)
    BY <1>1, EmptySeq
  <2>4. via2 # <<>>
    BY <1>1, <2>2, EmptySeq
  <2> QED
    BY <2>2, <2>3, <2>4 DEF Lines
<1>3. CASE ~(via = <<>> \/ ownLine)
  <2> DEFINE front == Front(via)
             line == Append(Last(via), p)
  <2>n. PICK n \in Nat : n = Len(via)
    BY <1>1
  <2>0. n >= 1
    BY <1>1, <1>3, <2>n, EmptySeq
  <2>1. \A i \in 1..n : via[i] \in Seq(Proxies)
    BY <1>1, <2>n, ElementOfSeq
  <2>2. /\ front \in Seq(Seq(Proxies)) /\ Len(front) = n - 1
        /\ \A i \in 1..(n - 1) : front[i] = via[i]
    <3>1. front = SubSeq(via, 1, n - 1)
      BY <2>n DEF Front
    <3> HIDE DEF front
    <3>2. n - 1 \in Int /\ 1 \in Int /\ 1 <= (n - 1) + 1 /\ (n - 1) - 1 + 1 = n - 1
      BY <2>0
    <3>3. \A i \in 1..(n - 1) : via[i] \in Seq(Proxies) /\ 1 + i - 1 = i
      BY <2>1
    <3> QED
      BY <3>1, <3>2, <3>3, SubSeqProperties
  <2>3. Last(via) = via[n] /\ via[n] \in Seq(Proxies)
    BY <2>n, <2>0, <2>1 DEF Last
  <2>4. line \in Seq(Proxies) /\ \A w \in ToSet(via[n]) : w \in ToSet(line)
    BY <2>3, AppendedLine
  <2>5. via2 = front \o <<line>>
    BY <1>3
  <2> HIDE DEF front, line
  <2>7. /\ via2 \in Seq(Seq(Proxies)) /\ Len(via2) = n
        /\ \A i \in 1..(n - 1) : via2[i] = via[i]
        /\ via2[n] = line /\ via2 # <<>>
    <3>1. via2 = Append(front, line)
      BY <2>2, <2>4, <2>5, AppendIsConcat, Zenon
    <3>2. front \in Seq(Seq(Proxies)) /\ line \in Seq(Proxies)
      BY <2>2, <2>4
    <3>3. /\ Append(front, line) \in Seq(Seq(Proxies)) /\ Append(front, line) # <<>>
          /\ Len(Append(front, line)) = Len(front) + 1
          /\ \A i \in 1..Len(front) : Append(front, line)[i] = front[i]
          /\ Append(front, line)[Len(front) + 1] = line
      <4>0. Append(front, line) \in Seq(Seq(Proxies))
        BY <3>2, AppendProperties
      <4>1. Append(front, line) # <<>>
        BY <3>2, AppendedLast, Zenon
      <4>2. Len(Append(front, line)) = Len(front) + 1
        BY <3>2, AppendProperties
      <4>3. \A i \in 1..Len(front) : Append(front, line)[i] = front[i]
        BY <3>2, AppendProperties
      <4>4. Append(front, line)[Len(front) + 1] = line
        BY <3>2, AppendProperties
      <4> QED
        BY <4>0, <4>1, <4>2, <4>3, <4>4
    <3>4. Len(front) + 1 = n
      BY <2>2
    <3>5. /\ via2 \in Seq(Seq(Proxies)) /\ via2 # <<>> /\ Len(via2) = n
          /\ \A i \in 1..Len(front) : via2[i] = front[i]
          /\ via2[n] = line
      BY <3>1, <3>3, <3>4, Zenon
    <3> QED
      BY <2>2, <3>5, Zenon
  <2>9. CASE n = 1
    BY <2>4, <2>7, <2>9 DEF Lines
  <2>10. CASE n # 1
    <3>1. 1 \in 1..(n - 1)
      BY <2>0, <2>10
    <3>2. via2[1] = via[1]
      BY <2>7, <3>1
    <3> QED
      BY <2>7, <3>2, Zenon DEF Lines
  <2> QED
    BY <2>9, <2>10, Zenon
<1> QED
  BY <1>2, <1>3, Zenon

LEMMA PassHInv ==
  ASSUME HInv, NEW p \in Others, NEW next, NEW options, NEW ownLine \in BOOLEAN, Pass(p, next, options, ownLine)
  PROVE  HInv'
<1>1. CASE AnsweredHere
  <2>1. header' = header /\ path' = path /\ route' = route /\ listed' = listed /\ chunked' = chunked
    BY <1>1 DEF Pass
  <2> QED
    BY <2>1, Zenon DEF HInv, Passed, Shaped, LoopIsBroken, OwnFieldsArrive
<1>2. CASE ~AnsweredHere
  <2>1. /\ path' = Append(path, p)
        /\ header' = [header EXCEPT !["Connection"] = Connection(options),
                                    !["Proxy-Authorization"] = <<>>,
                                    !["Via"] = IF @ = <<>> \/ ownLine THEN Append(@, <<p>>)
                                               ELSE Front(@) \o <<Append(Last(@), p)>>]
    BY <1>2, Zenon DEF Pass
  <2>2. /\ header'["Via"] = IF header["Via"] = <<>> \/ ownLine THEN Append(header["Via"], <<p>>)
                            ELSE Front(header["Via"]) \o <<Append(Last(header["Via"]), p)>>
        /\ header'["Forwarded"] = header["Forwarded"]
        /\ header'["X-Forwarded-For"] = header["X-Forwarded-For"]
        /\ header'["Cookie"] = header["Cookie"]
        /\ Shaped(header')
    <3>1. header = [f \in FieldNames |-> header[f]] /\ DOMAIN header = FieldNames
      BY DEF HInv, Shaped
    <3>2. \A f \in FieldNames \ {"Connection", "Proxy-Authorization", "Via"} : header'[f] = header[f]
      BY <2>1, <3>1
    <3>3. header'["Via"] = IF header["Via"] = <<>> \/ ownLine THEN Append(header["Via"], <<p>>)
                           ELSE Front(header["Via"]) \o <<Append(Last(header["Via"]), p)>>
      BY <2>1, <3>1, FieldsNamed
    <3>4. Shaped(header')
      BY <2>1, <3>1, Zenon DEF Shaped
    <3>5. /\ "Forwarded" \in FieldNames \ {"Connection", "Proxy-Authorization", "Via"}
          /\ "X-Forwarded-For" \in FieldNames \ {"Connection", "Proxy-Authorization", "Via"}
          /\ "Cookie" \in FieldNames \ {"Connection", "Proxy-Authorization", "Via"}
      BY FieldsNamed
    <3> QED
      BY <3>2, <3>3, <3>4, <3>5, Zenon
  <2>3. p \in Proxies /\ p # Self
    BY PseudonymAssumption DEF Proxies
  <2>4. /\ header'["Via"] \in Lines /\ header'["Via"] # <<>>
        /\ header["Via"] # <<>> =>
             \A w \in ToSet(header["Via"][1]) : w \in ToSet(header'["Via"][1])
    <3>1. header["Via"] \in Lines
      BY DEF HInv
    <3> QED
      BY <2>2, <2>3, <3>1, ViaExtended, Zenon
  <2>5. /\ path' \in Seq(Proxies) /\ path' # <<>> /\ Last(path') = p
        /\ DOMAIN path = 1..Len(path) /\ Len(path) \in Nat /\ Len(path') = Len(path) + 1
        /\ DOMAIN path' = 1..Len(path')
        /\ \A i \in DOMAIN path : path'[i] = path[i]
        /\ path'[Len(path')] = p
    BY <2>1, <2>3, PathGrows, Zenon
  <2>6. /\ \A i \in DOMAIN path' : path'[i] = Self => i \in DOMAIN path /\ path[i] = Self
        /\ \A i \in DOMAIN path : i \in DOMAIN path' /\ path'[i] = path[i]
    BY <2>3, <2>5
  <2>7. /\ Passed' <=> Passed
        /\ LoopIsBroken'
    BY <2>6 DEF Passed, HInv, LoopIsBroken
  <2>8. Passed => Self \in ToSet(HGet(header', "Via"))
    <3> SUFFICES ASSUME Passed PROVE Self \in ToSet(HGet(header', "Via"))
      OBVIOUS
    <3>1. Self \in ToSet(HGet(header, "Via"))
      BY DEF HInv
    <3>2. header["Via"] # <<>>
      BY <3>1 DEF HGet, ToSet
    <3> QED
      BY <2>4, <3>1, <3>2 DEF HGet
  <2>9. OwnFieldsArrive'
    BY <2>3, <2>5 DEF OwnFieldsArrive
  <2> QED
    BY <2>2, <2>4, <2>5, <2>7, <2>8, <2>9 DEF HInv
<1> QED
  BY <1>1, <1>2

LEMMA NextHInv == HInv /\ [HeaderNext]_headerVars => HInv'
<1> SUFFICES ASSUME HInv, [HeaderNext]_headerVars PROVE HInv'
  OBVIOUS
<1>1. CASE UNCHANGED <<header, path, route, listed, chunked>>
  BY <1>1, Zenon DEF HInv, Passed, Shaped, LoopIsBroken, OwnFieldsArrive
<1>2. CASE Answer
  BY <1>1, <1>2 DEF Answer
<1>3. CASE UNCHANGED headerVars
  BY <1>1, <1>3 DEF headerVars
<1> QED
  BY <1>2, <1>3, ForwardHInv, PassHInv DEF HeaderNext

\* validateRequest stops a request that has been here before: whatever way the other
\* proxies send it, for any number of them and any length of path, it is forwarded once.
THEOREM LoopsAreBroken == HeaderSpec => []LoopIsBroken
<1>1. HInv => LoopIsBroken
  BY DEF HInv
<1> QED
  BY <1>1, InitHInv, NextHInv, PTL DEF HeaderSpec

\* What sanitizeHopByHop, injectForwardingHeaders, injectVia and the token leave in
\* a forwarded request, whatever fields Connection listed and whatever came in Via.
THEOREM OwnFieldsAlwaysArrive == HeaderSpec => []OwnFieldsArrive
<1>1. HInv => OwnFieldsArrive
  BY DEF HInv
<1> QED
  BY <1>1, InitHInv, NextHInv, PTL DEF HeaderSpec
=============================================================================
