---------------------------- MODULE DomainPolicy ----------------------------
(***************************************************************************)
(* Which questions are traced: NormalizeDomain and NormalizeQType of       *)
(* backend/internal/policy/domain.go.                                      *)
(*                                                                         *)
(* A text is split at its dots, so "a.b." is <<"a", "b", "">>, "." is      *)
(* <<"", "">> and the empty text <<"">>.  What the code asks of the        *)
(* characters of a label is given by constants: its length, its kind and   *)
(* what strings.ToLower makes of it.  A label that only looks like ASCII   *)
(* after ToLower (it maps the Kelvin sign to k) is a label like any other. *)
(***************************************************************************)
EXTENDS Integers, Sequences, SequencesExt

CONSTANTS
  Labels,             \* the parts between dots
  Octets,             \* their lengths
  Kind,               \* what their characters are
  Lower,              \* what strings.ToLower makes of them
  Upper               \* what TrimSpace and ToUpper make of a query type

(* "number" is a decimal number that may be part of an IPv4 address, "ip6" *)
(* parses as an IPv6 address (the spellings of one with a dot are left     *)
(* out), "ldh" is any other run of letters, digits and hyphens with no     *)
(* hyphen at an end, "hyphen" one with; "other" has a character of ASCII   *)
(* that is none of these, "foreign" one outside ASCII.                     *)
Kinds == {"number", "ip6", "ldh", "hyphen", "other", "foreign"}

SupportedQTypes == {"A", "AAAA", "NS"}

(* Only the empty label has no octets.  ToLower makes no character shorter *)
(* than a third: UTF-8 has three octets for the Kelvin sign, one for "k".  *)
ASSUME DomainAssumption ==
  /\ Octets \in [Labels -> Nat] /\ Kind \in [Labels -> Kinds]
  /\ Lower \in [Labels -> Labels]
  /\ \A l \in Labels : Lower[Lower[l]] = Lower[l]
  /\ \A l \in Labels : Octets[l] = 0 => l = ""
  /\ \A l \in Labels : Octets[l] <= 3 * Octets[Lower[l]]
  /\ "" \in Labels /\ Octets[""] = 0 /\ Lower[""] = "" /\ Kind[""] = "ldh"
  /\ \A t \in SupportedQTypes : t \in DOMAIN Upper /\ Upper[t] = t

(* What a visitor types; a padded text has white space at its ends.        *)
Text == [padded : BOOLEAN, labels : Seq(Labels) \ {<< >>}]

BlockedDomains ==
  {<<"localhost">>, <<"local">>, <<"home", "arpa">>, <<"invalid">>, <<"test">>}

ReverseZones == {<<"in-addr", "arpa">>, <<"ip6", "arpa">>}

Errors == {"invalid_domain", "ip_literal", "too_many_labels", "special_use",
           "unsupported_qtype"}

-----------------------------------------------------------------------------
ToLower(labels) == [i \in DOMAIN labels |-> Lower[labels[i]]]

(* strings.TrimSuffix(domain, ".")                                         *)
TrimDot(labels) ==
  IF Len(labels) > 1 /\ Last(labels) = "" THEN Front(labels) ELSE labels

(* len(domain), the dots between the labels included.                      *)
Length(labels) ==
  LET upTo[n \in 0..Len(labels)] ==
        IF n = 0 THEN Len(labels) - 1 ELSE upTo[n - 1] + Octets[labels[n]]
  IN  upTo[Len(labels)]

IsIPLiteral(d) ==
  \/ Len(d) = 4 /\ \A i \in 1..4 : Kind[d[i]] = "number"
  \/ Len(d) = 1 /\ Kind[d[1]] = "ip6"

ValidLabel(l) == Octets[l] \in 1..63 /\ Kind[l] \in {"ldh", "number"}

IsBelow(d, zone) == Len(d) > Len(zone) /\ IsSuffix(zone, d)

SpecialUse(d) ==
  \/ d \in BlockedDomains
  \/ \E zone \in BlockedDomains \cup ReverseZones : IsBelow(d, zone)

OK(d) == [err |-> "none", domain |-> d]
Refused(err) == [err |-> err, domain |-> << >>]

(* The checks of a trimmed text, in the order of the code.                 *)
Checked(d) ==
  IF d = <<"">> \/ (\E i \in DOMAIN d : Kind[d[i]] = "foreign") THEN Refused("invalid_domain")
  ELSE IF IsIPLiteral(d) THEN Refused("ip_literal")
  ELSE IF Len(d) > 20 THEN Refused("too_many_labels")
  ELSE IF Length(d) > 253 \/ (\E i \in DOMAIN d : ~ValidLabel(d[i])) THEN Refused("invalid_domain")
  ELSE IF SpecialUse(d) THEN Refused("special_use")
  ELSE OK(d)

(* Mutant: the text is lowercased when everything has been checked (by a   *)
(* check of the characters that takes capitals too).                       *)
NormalizeDomainLowerLast(text) ==
  LET checked == Checked(TrimDot(text.labels))
  IN  [checked EXCEPT !.domain = ToLower(@)]

(* Mutant: the final dot is taken off when everything has been checked.    *)
NormalizeDomainDotLast(text) ==
  LET d == ToLower(text.labels)
  IN  IF Length(d) > 253 THEN Refused("invalid_domain") ELSE Checked(TrimDot(d))

(* strings.TrimSpace takes the padding off whatever else is wrong.         *)
NormalizeDomain(text) == Checked(TrimDot(ToLower(text.labels)))

NormalizeQType(qtype) ==
  IF Upper[qtype] \in SupportedQTypes
  THEN [err |-> "none", qtype |-> Upper[qtype]]
  ELSE [err |-> "unsupported_qtype", qtype |-> ""]

=============================================================================
