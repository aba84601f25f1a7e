-------------------------- MODULE MCClientIdentity --------------------------
(* An instance of ClientIdentity: IPv4 of 2 bits, IPv6 of 4 bits.          *)
EXTENDS ClientIdentity

Bits(n, width) == [i \in 1..width |-> (n \div 2^(width - i)) % 2]
V4(n) == Bits(n, 2)
V6(n) == Bits(n, 4)
Mapped == <<0, 1>>
Net(a, bits) == [addr |-> a, bits |-> bits]

(* Proxies 0 and 1 (or 12), and machines outside.                          *)
SomeMachines == {V4(0), V4(1), V4(2), V6(12)}

(* Nothing, networks of every length in both spellings, hosts, networks    *)
(* that span the mapped block, two networks, and a typing error.           *)
SomeConfigurations ==
  {{}, {Net(V4(0), 1)}, {Net(V6(5), 3)}, {Net(V4(1), NoBits), Net(V6(13), 3)},
   {Net(V6(4), NoBits)}, {Net(V6(6), 2)}, {Net(V6(0), 0)}, {Net(V6(7), 1)},
   {Net(V6(3), 4), Net(V6(10), 1)}, {Net(V4(0), 1), BadSyntax}}

Element(text) == <<[key |-> "for", value |-> text]>>
SomeXff == {<< >>, <<V6(7)>>, <<V4(0)>>, <<Unknown>>}
SomeForwarded ==
  {<< >>, <<Element(V4(3))>>, <<Element(V6(4))>>,
   <<Element(V4(2)) \o <<[key |-> "by", value |-> V4(0)]>> >>,
   <<Element(V4(2)) \o Element(V4(3))>>,
   << <<[key |-> "proto", value |-> Unknown]>> >>,
   << <<[key |-> "proto", value |-> BadSyntax]>> \o Element(V4(2))>>}
=============================================================================
