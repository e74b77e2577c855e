--------------------------- MODULE MCHostRouting ---------------------------
(***************************************************************************)
(* Three names, one inside the domain of another, and an address of each   *)
(* family; a pattern of every form, the prefix one with a base address     *)
(* that is no host of its own.  Clients have addresses of two and four     *)
(* bits; -allowed-ips is empty, any single entry that can be written with  *)
(* those, or one list of two.                                              *)
(***************************************************************************)
EXTENDS HostRouting

MCNames == {<<"corp">>, <<"wiki", "corp">>, <<"web">>, <<"10", "0", "0", "7">>, <<"::1">>}
MCAddresses == {<<"10", "0", "0", "7">>, <<"10", "9", "9", "9">>, <<"::1">>}
MCIPv6 == {<<"::1">>}

Pattern(head, name, bits) == [head |-> head, name |-> name, bits |-> bits]

MCNoProxyLists ==
    {{}, {Pattern("*", <<>>, NoBits)},
     {Pattern("", <<"corp">>, NoBits), Pattern("", <<"::1">>, NoBits)},
     {Pattern("*.", <<"corp">>, NoBits), Pattern("", <<"10", "9", "9", "9">>, 1)}}

MCMapped == <<0, 1>>

Entry(text, ones) == [text |-> text, ones |-> ones]

MCAllowLists ==
    {{}, {Entry(<<0, 0>>, -1), Entry(<<1, 1, 0, 1>>, 3)}}
    \cup {{entry} : entry \in {e \in [text : IPs, ones : -1..V6Bits] : e \in Entries}}
=============================================================================
