--------------------------- MODULE MCApiProcess -----------------------------
(***************************************************************************)
(* An instance of ApiProcess for TLC: a label of every kind, names on both *)
(* sides of every limit, and environments that set one or two variables to *)
(* a value of every kind.                                                  *)
(***************************************************************************)
EXTENDS ApiProcess

(* Label, length, kind, lower case: "K" starts with a Kelvin sign.         *)
LabelTable ==
  {<<"", 0, "ldh", "">>, <<"www", 3, "ldh", "www">>, <<"WWW", 3, "ldh", "www">>,
   <<"local", 5, "ldh", "local">>, <<"LOCAL", 5, "ldh", "local">>,
   <<"home", 4, "ldh", "home">>, <<"in-addr", 7, "ldh", "in-addr">>,
   <<"arpa", 4, "ldh", "arpa">>, <<"1", 1, "number", "1">>, <<"::1", 3, "ip6", "::1">>,
   <<"-a", 2, "hyphen", "-a">>, <<"a b", 3, "other", "a b">>,
   <<"K", 5, "foreign", "k">>, <<"k", 3, "ldh", "k">>, <<"e'", 2, "foreign", "e'">>,
   <<"l61", 61, "ldh", "l61">>, <<"l62", 62, "ldh", "l62">>,
   <<"l63", 63, "ldh", "l63">>, <<"l64", 64, "ldh", "l64">>}

Row(l) == CHOOSE row \in LabelTable : row[1] = l
AllLabels == {row[1] : row \in LabelTable}
LabelOctets == [l \in AllLabels |-> Row(l)[2]]
LabelKind == [l \in AllLabels |-> Row(l)[3]]
LabelLower == [l \in AllLabels |-> Row(l)[4]]

QTypeTable == {<<"A", "A">>, <<" aaaa", "AAAA">>, <<"AAAA", "AAAA">>, <<"NS", "NS">>, <<"MX", "MX">>}
UpperOf == [q \in {row[1] : row \in QTypeTable} |-> (CHOOSE row \in QTypeTable : row[1] = q)[2]]

Repeat(l, n) == [i \in 1..n |-> l]

SomeNames ==
  {<<"">>, <<"www">>, <<"WWW", "www">>, <<"LOCAL">>, <<"www", "local">>, <<"local", "www">>,
   <<"home", "arpa">>, <<"www", "home", "arpa">>, <<"www", "arpa">>,
   <<"in-addr", "arpa">>, <<"1", "in-addr", "arpa">>, <<"home", "in-addr">>,
   <<"1", "1", "1", "1">>, <<"1", "1", "1">>, <<"::1">>, <<"-a", "www">>, <<"www", "a b">>,
   <<"K">>, <<"e'", "www">>, <<"www", "", "www">>, <<"", "www">>, <<"l64">>,
   Repeat("www", 20), Repeat("www", 21), <<"l63", "l63", "l63", "l61">>, <<"l63", "l63", "l63", "l62">>}

SomeQuestions ==
  [text : [padded : {FALSE}, labels : UNION {{d, Append(d, ""), d \o <<"", "">>} : d \in SomeNames}],
   qtype : {"A"}]
  \cup [text : {[padded |-> TRUE, labels |-> <<"WWW", "">>]}, qtype : DOMAIN UpperOf]

Default == [v \in Settable |-> Unset]

SomeEnvironments ==
  {[Default EXCEPT ![v] = value] : v \in Settable, value \in {Unset, Garbage, 0, 1, -1}}
  \cup {[Default EXCEPT !["RATE_LIMIT_PER_MINUTE"] = 1, !["RATE_LIMIT_BURST"] = 14],
        [Default EXCEPT !["RATE_LIMIT_PER_MINUTE"] = 1, !["RATE_LIMIT_BURST"] = 15],
        [Default EXCEPT !["RATE_LIMIT_PER_MINUTE"] = Minute, !["RATE_LIMIT_BURST"] = 0],
        [Default EXCEPT !["BODY_LIMIT_BYTES"] = 100]}
=============================================================================
