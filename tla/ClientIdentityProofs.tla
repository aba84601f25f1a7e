------------------------ MODULE ClientIdentityProofs ------------------------
(***************************************************************************)
(* Theorems about ClientIdentity, for every set of machines, networks and  *)
(* headers, and every number of proxies.                                   *)
(***************************************************************************)
EXTENDS ClientIdentity, WellFoundedInduction, TLAPS

-----------------------------------------------------------------------------
(* The invariant the theorems rest on.                                     *)

(* The chain from the client to the peer is in one of the headers, or the  *)
(* header it began in cannot be read.                                      *)
EndsAt(hops, who) ==
  \/ Malformed(hops)
  \/ \E i \in DOMAIN hops :
       /\ hops[i] = who
       /\ \A j \in DOMAIN hops : j > i => AddrIsTrusted(hops[j])

NoOutsiders(hops) ==
  \A i \in DOMAIN hops : hops[i] = NoAddr \/ AddrIsTrusted(hops[i])

Arrived == pc \in {"path", "resolved"}

(* The inductive invariant of the proofs: a request that passed a proxy    *)
(* comes from a trusted one, and one of the headers ends with its client   *)
(* and trusted proxies only; a request from inside names no outsider.      *)
IInv ==
  /\ pc \in {"boot", "failed", "serving", "path", "resolved"}
  /\ relays \in Nat
  /\ xff \in Seq(Text) /\ forwarded \in Seq(Seq(Parameter))
  /\ ~Arrived => relays = 0 /\ client = NoAddr /\ sender = NoAddr
  /\ Arrived => client \in Machines /\ sender \in Machines
  /\ relays = 0 => sender = client
  /\ relays > 0 => AddrIsTrusted(sender)
  /\ relays > 0 /\ ~AddrIsTrusted(client) =>
       EndsAt(XffHops, client) \/ EndsAt(ForwardedHops, client)
  /\ AddrIsTrusted(client) => NoOutsiders(XffHops) /\ NoOutsiders(ForwardedHops)
  /\ KeyIsClientOrPeer
  /\ HeadersSelectOutsiders
  /\ ProxiedClientIsFound

-----------------------------------------------------------------------------
(* Chains of hops.                                                         *)

(* A non-empty set of positions of a sequence has a last one.              *)
LEMMA LastPosition ==
  ASSUME NEW n \in Nat, NEW P \in SUBSET (1..n), P # {}
  PROVE  \E k \in P : \A j \in P : j <= k
<1> DEFINE R == {ss \in Nat \X Nat : ss[1] < ss[2]}
           FromEnd == {n - k : k \in P}
<1>1. IsWellFoundedOn(R, Nat)
  BY NatLessThanWellFounded, Zenon DEF OpToRel
<1>2. \A a, b \in Nat : ~(<<b, a>> \in R) => a <= b
  OBVIOUS
<1>3. FromEnd \subseteq Nat /\ FromEnd # {}
  <2>1. \A k \in P : n - k \in Nat
    OBVIOUS
  <2>2. PICK k \in P : TRUE
    OBVIOUS
  <2>3. n - k \in FromEnd
    BY <2>2
  <2> QED  BY <2>1, <2>3
<1> HIDE DEF R, FromEnd
<1>4. PICK m \in FromEnd : \A b \in FromEnd : ~(<<b, m>> \in R)
  BY <1>1, <1>3, WFMin, Zenon
<1>5. \A b \in FromEnd : m <= b
  BY <1>2, <1>3, <1>4
<1>6. PICK k \in P : m = n - k
  BY DEF FromEnd
<1>7. \A j \in P : n - j \in FromEnd
  BY DEF FromEnd
<1> QED  BY <1>5, <1>6, <1>7

(* If a chain that can be read ends with an outsider and trusted proxies   *)
(* only, that outsider is the client read from it.                         *)
LEMMA ChainClient ==
  ASSUME NEW who, NEW hops, DOMAIN hops \subseteq Nat,
         ~Malformed(hops), EndsAt(hops, who), ~AddrIsTrusted(who)
  PROVE  ClientFromTrustedChain(hops) = who
<1>1. PICK i \in DOMAIN hops :
        /\ hops[i] = who
        /\ \A j \in DOMAIN hops : j > i => AddrIsTrusted(hops[j])
  BY DEF EndsAt
<1>2. i \in Outsiders(hops) /\ \A j \in Outsiders(hops) : j <= i
  BY <1>1 DEF Outsiders
<1>3. \A k \in Outsiders(hops) : (\A j \in Outsiders(hops) : j <= k) => k = i
  BY <1>2 DEF Outsiders
<1>4. i = CHOOSE k \in Outsiders(hops) : \A j \in Outsiders(hops) : j <= k
  BY <1>2, <1>3
<1> QED  BY <1>1, <1>2, <1>4 DEF ClientFromTrustedChain

(* A chain that can be read and names no outsider names no client.         *)
LEMMA InsideChain ==
  ASSUME NEW hops, ~Malformed(hops), NoOutsiders(hops)
  PROVE  ClientFromTrustedChain(hops) = NoAddr
  BY DEF Malformed, NoOutsiders, Outsiders, ClientFromTrustedChain

(* A client read from a chain is one of the outsiders the chain names.     *)
LEMMA ClientIsNamed ==
  ASSUME NEW n \in Nat, NEW hops, DOMAIN hops = 1..n,
         ClientFromTrustedChain(hops) # NoAddr
  PROVE  \E i \in Outsiders(hops) : ClientFromTrustedChain(hops) = hops[i]
<1>1. Outsiders(hops) # {}
  BY DEF ClientFromTrustedChain
<1>2. Outsiders(hops) \in SUBSET (1..n)
  BY DEF Outsiders
<1>3. \E k \in Outsiders(hops) : \A j \in Outsiders(hops) : j <= k
  BY <1>1, <1>2, LastPosition
<1> QED  BY <1>1, <1>3 DEF ClientFromTrustedChain

(* A header is read hop by hop.                                            *)
LEMMA HopsOfHeaders ==
  ASSUME xff \in Seq(Text), forwarded \in Seq(Seq(Parameter))
  PROVE  /\ Len(xff) \in Nat /\ DOMAIN XffHops = 1..Len(xff)
         /\ Len(forwarded) \in Nat /\ DOMAIN ForwardedHops = 1..Len(forwarded)
  BY DEF XffHops, ForwardedHops

-----------------------------------------------------------------------------
(* A request on its way.                                                   *)

(* A chain longer by one hop still ends with its client if the new hop is  *)
(* the client, a trusted proxy, or cannot be read.                         *)
LEMMA EndsAtLonger ==
  ASSUME NEW who, NEW n \in Nat, NEW old, NEW new, NEW x,
         DOMAIN old = 1..n, DOMAIN new = 1..(n + 1),
         \A i \in 1..n : new[i] = old[i],
         new[n + 1] = x,
         \/ x \in {NoAddr, who}
         \/ AddrIsTrusted(x) /\ EndsAt(old, who)
  PROVE  EndsAt(new, who)
<1>1. CASE x = NoAddr
  BY <1>1 DEF EndsAt, Malformed
<1>2. CASE x = who
  BY <1>2 DEF EndsAt
<1>3. CASE AddrIsTrusted(x) /\ EndsAt(old, who)
  <2>1. CASE Malformed(old)
    BY <2>1 DEF EndsAt, Malformed
  <2>2. CASE ~Malformed(old)
    <3>1. PICK i \in 1..n :
            old[i] = who /\ \A j \in 1..n : j > i => AddrIsTrusted(old[j])
      BY <1>3, <2>2 DEF EndsAt
    <3>2. \A j \in 1..(n + 1) : j > i => AddrIsTrusted(new[j])
      <4> TAKE j \in 1..(n + 1)
      <4>1. CASE j = n + 1  BY <4>1, <1>3
      <4>2. CASE j \in 1..n
        <5>1. new[j] = old[j]  BY <4>2
        <5> QED  BY <5>1, <4>2, <3>1
      <4> QED  BY <4>1, <4>2
    <3> QED  BY <3>1, <3>2 DEF EndsAt
  <2> QED  BY <2>1, <2>2
<1> QED  BY <1>1, <1>2, <1>3

(* Whether a chain ends at a machine, and whether it names outsiders, does *)
(* not change while the trusted networks do not.                           *)
LEMMA SameChains ==
  ASSUME UNCHANGED trusted
  PROVE  /\ EndsAt(XffHops', client') => EndsAt(XffHops, client)'
         /\ EndsAt(ForwardedHops', client') => EndsAt(ForwardedHops, client)'
         /\ NoOutsiders(XffHops') => NoOutsiders(XffHops)'
         /\ NoOutsiders(ForwardedHops') => NoOutsiders(ForwardedHops)'
         /\ AddrIsTrusted(client') <=> AddrIsTrusted(client)'
         /\ AddrIsTrusted(sender') <=> AddrIsTrusted(sender)'
  BY DEF EndsAt, NoOutsiders, Malformed, AddrIsTrusted

(* What a proxy writes is the address it was called from, or cannot be     *)
(* read as one.                                                            *)
LEMMA NewHop ==
  ASSUME NEW t \in SenderTexts
  PROVE  /\ t \in Text /\ ForElement(t) \in Seq(Parameter)
         /\ ParseIPHop(t) \in {sender, NoAddr}
         /\ ParseForwardedElement(ForElement(t)) \in {sender, NoAddr}
<1>1. t \in Text
  BY DEF SenderTexts, Spellings, Text
<1>2. ParseIPHop(t) \in {sender, NoAddr}
  BY IdentityAssumption DEF SenderTexts, Spellings, ParseIPHop
<1> DEFINE e == ForElement(t)
<1>3. [key |-> "for", value |-> t] \in Parameter
  BY <1>1 DEF Parameter, Text
<1>4. e \in Seq(Parameter) /\ DOMAIN e = {1}
      /\ e[1].key = "for" /\ e[1].value = t
  BY <1>3 DEF ForElement
<1> HIDE DEF e
<1>5. ForParameters(e) = {1}
  BY <1>4 DEF ForParameters
<1>6. e[CHOOSE i \in ForParameters(e) : TRUE].value = t
  BY <1>4, <1>5
<1>7. ParseForwardedElement(e) \in {ParseIPHop(t), NoAddr}
  BY <1>6 DEF ParseForwardedElement
<1> QED  BY <1>1, <1>2, <1>4, <1>7 DEF e

(* The hops of a header a proxy has appended to.                           *)
LEMMA XffAppended ==
  ASSUME xff \in Seq(Text), NEW t \in Text, xff' = Append(xff, t)
  PROVE  /\ xff' \in Seq(Text)
         /\ DOMAIN XffHops' = 1..(Len(xff) + 1)
         /\ \A i \in 1..Len(xff) : XffHops'[i] = XffHops[i]
         /\ XffHops'[Len(xff) + 1] = ParseIPHop(t)
  BY DEF XffHops

(* The same for Forwarded.                                                 *)
LEMMA ForwardedAppended ==
  ASSUME forwarded \in Seq(Seq(Parameter)), NEW e \in Seq(Parameter),
         forwarded' = Append(forwarded, e)
  PROVE  /\ forwarded' \in Seq(Seq(Parameter))
         /\ DOMAIN ForwardedHops' = 1..(Len(forwarded) + 1)
         /\ \A i \in 1..Len(forwarded) : ForwardedHops'[i] = ForwardedHops[i]
         /\ ForwardedHops'[Len(forwarded) + 1] = ParseForwardedElement(e)
  BY DEF ForwardedHops

(* A relayed request keeps the invariant if the headers it leaves with     *)
(* end with its client, or name no outsider when it comes from inside.     *)
LEMMA RelayKeepsInvariant ==
  ASSUME IInv, NEW m \in Machines, NEW x, NEW f, Relay(m, x, f),
         xff' \in Seq(Text), forwarded' \in Seq(Seq(Parameter)),
         ~AddrIsTrusted(client) =>
           EndsAt(XffHops', client) \/ EndsAt(ForwardedHops', client),
         AddrIsTrusted(client) =>
           NoOutsiders(XffHops') /\ NoOutsiders(ForwardedHops')
  PROVE  IInv'
<1>1. UNCHANGED <<trusted, client, pc>> /\ pc = "path" /\ sender' = m
      /\ relays' = relays + 1 /\ AddrIsTrusted(m)
  BY DEF Relay
<1>2. relays \in Nat /\ client \in Machines
  BY <1>1 DEF IInv, Arrived
<1>3. AddrIsTrusted(sender)'
  BY <1>1, SameChains
<1>4. AddrIsTrusted(client)' <=> AddrIsTrusted(client)
  BY <1>1, SameChains
<1>5. ~AddrIsTrusted(client)' =>
        EndsAt(XffHops, client)' \/ EndsAt(ForwardedHops, client)'
  BY <1>1, <1>4, SameChains
<1>6. AddrIsTrusted(client)' => NoOutsiders(XffHops)' /\ NoOutsiders(ForwardedHops)'
  BY <1>1, <1>4, SameChains
<1>7. /\ pc' = "path" /\ Arrived' /\ relays' \in Nat /\ relays' # 0
      /\ client' \in Machines /\ sender' \in Machines
  BY <1>1, <1>2 DEF Arrived
<1>8. (KeyIsClientOrPeer /\ HeadersSelectOutsiders /\ ProxiedClientIsFound)'
  BY <1>7 DEF KeyIsClientOrPeer, HeadersSelectOutsiders, ProxiedClientIsFound
<1> QED  BY <1>3, <1>5, <1>6, <1>7, <1>8 DEF IInv

(* A chain the proxy has added to is as good as it was, and good if the    *)
(* proxy is the first.                                                     *)
LEMMA ChainGrows ==
  ASSUME IInv, NEW n \in Nat, NEW old, NEW new, NEW x \in {sender, NoAddr},
         DOMAIN old = 1..n, DOMAIN new = 1..(n + 1),
         \A i \in 1..n : new[i] = old[i], new[n + 1] = x
  PROVE  /\ EndsAt(old, client) \/ relays = 0 => EndsAt(new, client)
         /\ AddrIsTrusted(client) /\ NoOutsiders(old) => NoOutsiders(new)
<1>1. (relays = 0 => sender = client) /\ (relays # 0 => AddrIsTrusted(sender))
  BY DEF IInv
<1>2. ASSUME EndsAt(old, client) \/ relays = 0  PROVE EndsAt(new, client)
  <2>1. x \in {NoAddr, client} \/ (AddrIsTrusted(x) /\ EndsAt(old, client))
    BY <1>1, <1>2
  <2> QED  BY <2>1, EndsAtLonger
<1>3. ASSUME AddrIsTrusted(client), NoOutsiders(old)  PROVE NoOutsiders(new)
  <2>1. x = NoAddr \/ AddrIsTrusted(x)
    BY <1>1, <1>3
  <2>2. \A i \in 1..n : new[i] = NoAddr \/ AddrIsTrusted(new[i])
    BY <1>3 DEF NoOutsiders
  <2> QED  BY <2>1, <2>2 DEF NoOutsiders
<1> QED  BY <1>2, <1>3

(* The proxies on the way.                                                 *)
LEMMA RelaySteps ==
  ASSUME IInv, NEW m \in Machines,
         \/ AppendXff(m) \/ AppendForwarded(m) \/ AppendBoth(m)
         \/ OverwriteXff(m) \/ OverwriteForwarded(m)
  PROVE  IInv'
<1> USE HopsOfHeaders DEF IInv
<1>0. relays = 0 \/ AddrIsTrusted(client)
      \/ EndsAt(XffHops, client) \/ EndsAt(ForwardedHops, client)
  OBVIOUS
<1>u. /\ xff' = xff => XffHops' = XffHops
      /\ forwarded' = forwarded => ForwardedHops' = ForwardedHops
  BY DEF XffHops, ForwardedHops
<1>1. CASE AppendXff(m)
  <2>1. PICK t \in SenderTexts : Relay(m, Append(xff, t), forwarded)
    BY <1>1 DEF AppendXff
  <2>2. xff' = Append(xff, t) /\ forwarded' = forwarded
    BY <2>1 DEF Relay
  <2>3. /\ EndsAt(XffHops, client) \/ relays = 0 => EndsAt(XffHops', client)
        /\ AddrIsTrusted(client) /\ NoOutsiders(XffHops) => NoOutsiders(XffHops')
    BY <2>2, NewHop, XffAppended, ChainGrows
  <2> QED  BY <1>0, <1>u, <2>1, <2>2, <2>3, NewHop, XffAppended, RelayKeepsInvariant
<1>2. CASE AppendForwarded(m)
  <2>1. PICK t \in SenderTexts : Relay(m, xff, Append(forwarded, ForElement(t)))
    BY <1>2 DEF AppendForwarded
  <2>2. xff' = xff /\ forwarded' = Append(forwarded, ForElement(t))
    BY <2>1 DEF Relay
  <2>3. /\ EndsAt(ForwardedHops, client) \/ relays = 0 => EndsAt(ForwardedHops', client)
        /\ AddrIsTrusted(client) /\ NoOutsiders(ForwardedHops) => NoOutsiders(ForwardedHops')
    BY <2>2, NewHop, ForwardedAppended, ChainGrows
  <2> QED  BY <1>0, <1>u, <2>1, <2>2, <2>3, NewHop, ForwardedAppended, RelayKeepsInvariant
<1>3. CASE AppendBoth(m)
  <2>1. PICK t \in SenderTexts :
          Relay(m, Append(xff, t), Append(forwarded, ForElement(t)))
    BY <1>3 DEF AppendBoth
  <2>2. xff' = Append(xff, t) /\ forwarded' = Append(forwarded, ForElement(t))
    BY <2>1 DEF Relay
  <2>3. /\ EndsAt(XffHops, client) \/ relays = 0 => EndsAt(XffHops', client)
        /\ AddrIsTrusted(client) /\ NoOutsiders(XffHops) => NoOutsiders(XffHops')
    BY <2>2, NewHop, XffAppended, ChainGrows
  <2>4. /\ EndsAt(ForwardedHops, client) \/ relays = 0 => EndsAt(ForwardedHops', client)
        /\ AddrIsTrusted(client) /\ NoOutsiders(ForwardedHops) => NoOutsiders(ForwardedHops')
    BY <2>2, NewHop, ForwardedAppended, ChainGrows
  <2> QED  BY <1>0, <2>1, <2>2, <2>3, <2>4, NewHop, XffAppended,
              ForwardedAppended, RelayKeepsInvariant
<1>4. CASE OverwriteXff(m)
  <2>1. PICK t \in SenderTexts : Relay(m, <<t>>, forwarded)
    BY <1>4 DEF OverwriteXff
  <2>2. xff' = <<t>> /\ forwarded' = forwarded
    BY <2>1 DEF Relay
  <2>3. relays = 0 /\ sender = client /\ ~AddrIsTrusted(client)
    BY <1>4 DEF OverwriteXff
  <2>4. DOMAIN XffHops' = {1} /\ XffHops'[1] = ParseIPHop(t)
    BY <2>2 DEF XffHops
  <2>5. EndsAt(XffHops', client)
    BY <2>3, <2>4, NewHop DEF EndsAt, Malformed
  <2>6. xff' \in Seq(Text)
    BY <2>2, NewHop
  <2> QED  BY <2>1, <2>2, <2>3, <2>5, <2>6, RelayKeepsInvariant
<1>5. CASE OverwriteForwarded(m)
  <2>1. PICK t \in SenderTexts : Relay(m, xff, <<ForElement(t)>>)
    BY <1>5 DEF OverwriteForwarded
  <2>2. xff' = xff /\ forwarded' = <<ForElement(t)>>
    BY <2>1 DEF Relay
  <2>3. relays = 0 /\ sender = client /\ ~AddrIsTrusted(client)
    BY <1>5 DEF OverwriteForwarded
  <2>4. DOMAIN ForwardedHops' = {1}
        /\ ForwardedHops'[1] = ParseForwardedElement(ForElement(t))
    BY <2>2 DEF ForwardedHops
  <2>5. EndsAt(ForwardedHops', client)
    BY <2>3, <2>4, NewHop DEF EndsAt, Malformed
  <2>6. forwarded' \in Seq(Seq(Parameter))
    BY <2>2, NewHop
  <2> QED  BY <2>1, <2>2, <2>3, <2>5, <2>6, RelayKeepsInvariant
<1> QED  BY <1>1, <1>2, <1>3, <1>4, <1>5

-----------------------------------------------------------------------------
(* The answer.                                                             *)

(* What resolveClientIdentity must have found when it answers.             *)
LEMMA ResolveKeepsInvariant ==
  ASSUME IInv, pc = "path", NEW a, NEW source, NEW disposition,
         Resolve(a, source, disposition),
         a \in {client, sender},
         a # sender => AddrIsTrusted(sender) /\ ~AddrIsTrusted(a),
         \/ a = client
         \/ ~( /\ relays > 0 /\ ~AddrIsTrusted(client)
               /\ ~Malformed(XffHops) /\ ~Malformed(ForwardedHops)
               /\ \/ xff = << >>
                  \/ forwarded = << >>
                  \/ NamesOnly(XffHops, client) /\ NamesOnly(ForwardedHops, client))
  PROVE  IInv'
<1>1. /\ pc' = "resolved" /\ identity'.address = a
      /\ UNCHANGED <<config, trusted, client, sender, xff, forwarded, relays>>
  BY DEF Resolve
<1>2. XffHops' = XffHops /\ ForwardedHops' = ForwardedHops
  BY <1>1 DEF XffHops, ForwardedHops
<1>3. AddrIsTrusted(identity.address)' <=> AddrIsTrusted(a)
  BY <1>1 DEF AddrIsTrusted
<1>4. /\ AddrIsTrusted(client)' <=> AddrIsTrusted(client)
      /\ AddrIsTrusted(sender)' <=> AddrIsTrusted(sender)
  BY <1>1 DEF AddrIsTrusted
<1>5. KeyIsClientOrPeer'
  BY <1>1 DEF KeyIsClientOrPeer
<1>6. HeadersSelectOutsiders'
  BY <1>1, <1>3, <1>4 DEF HeadersSelectOutsiders
<1>7. /\ Malformed(XffHops)' <=> Malformed(XffHops)
      /\ Malformed(ForwardedHops)' <=> Malformed(ForwardedHops)
  BY <1>2 DEF Malformed
<1>8. /\ NamesOnly(XffHops, client)' <=> NamesOnly(XffHops, client)
      /\ NamesOnly(ForwardedHops, client)' <=> NamesOnly(ForwardedHops, client)
  BY <1>1, <1>2 DEF NamesOnly, Outsiders, AddrIsTrusted
<1>9. ProxiedClientIsFound'
  BY <1>1, <1>4, <1>7, <1>8 DEF ProxiedClientIsFound
<1>10. Arrived /\ Arrived'
  BY <1>1 DEF Arrived
<1>11. /\ AddrIsTrusted(client)' => (NoOutsiders(XffHops) /\ NoOutsiders(ForwardedHops))'
       /\ relays' > 0 /\ ~AddrIsTrusted(client)' =>
             (EndsAt(XffHops, client) \/ EndsAt(ForwardedHops, client))'
  BY <1>1, <1>2, <1>4, SameChains DEF IInv
<1>12. /\ relays' \in Nat
       /\ xff' \in Seq(Text) /\ forwarded' \in Seq(Seq(Parameter))
       /\ client' \in Machines /\ sender' \in Machines
       /\ relays' = 0 => sender' = client'
       /\ relays' > 0 => AddrIsTrusted(sender)'
  BY <1>1, <1>4, <1>10 DEF IInv
<1> QED  BY <1>1, <1>5, <1>6, <1>9, <1>10, <1>11, <1>12 DEF IInv

(* The peer's own address is the key unless its headers name the client.   *)
LEMMA PeerIsTheKey ==
  ASSUME NEW disposition, UsePeer(disposition)
  PROVE  Resolve(sender, "remote_addr", disposition)
  BY DEF UsePeer, Spellings, ParseIPHop

(* If headers are read at all, the request is from outside and passed a    *)
(* proxy, or they name nobody.                                             *)
LEMMA ReadChains ==
  ASSUME IInv, ChainsRead
  PROVE  \/ XffClient = NoAddr /\ ForwardedClient = NoAddr
         \/ /\ client # NoAddr
            /\ ~AddrIsTrusted(client)
            /\ XffClient = client \/ ForwardedClient = client
<1>1. /\ pc = "path" /\ AddrIsTrusted(sender)
      /\ ~Malformed(XffHops) /\ ~Malformed(ForwardedHops)
  BY DEF ChainsRead, ReadHeaders
<1>2. client \in Machines /\ client # NoAddr
  BY <1>1, IdentityAssumption DEF IInv, Arrived
<1>3. CASE AddrIsTrusted(client)
  BY <1>1, <1>3, InsideChain DEF IInv, XffClient, ForwardedClient
<1>4. CASE ~AddrIsTrusted(client)
  <2>1. EndsAt(XffHops, client) \/ EndsAt(ForwardedHops, client)
    BY <1>1, <1>4 DEF IInv
  <2>2. DOMAIN XffHops \subseteq Nat /\ DOMAIN ForwardedHops \subseteq Nat
    BY HopsOfHeaders DEF IInv
  <2>3. XffClient = client \/ ForwardedClient = client
    BY <1>1, <1>4, <2>1, <2>2, ChainClient DEF XffClient, ForwardedClient
  <2> QED  BY <1>2, <1>4, <2>3
<1> QED  BY <1>3, <1>4

(* An absent header names no client, and a header that names one outsider  *)
(* only names no other client.                                             *)
LEMMA ClientOfNamesOnly ==
  ASSUME IInv
  PROVE  /\ xff = << >> => XffClient = NoAddr
         /\ forwarded = << >> => ForwardedClient = NoAddr
         /\ NamesOnly(XffHops, client) => XffClient \in {NoAddr, client}
         /\ NamesOnly(ForwardedHops, client) => ForwardedClient \in {NoAddr, client}
<1>1. /\ Len(xff) \in Nat /\ DOMAIN XffHops = 1..Len(xff)
      /\ Len(forwarded) \in Nat /\ DOMAIN ForwardedHops = 1..Len(forwarded)
  BY HopsOfHeaders DEF IInv
<1>2. xff = << >> => XffClient = NoAddr
  BY <1>1 DEF XffClient, ClientFromTrustedChain, Outsiders
<1>3. forwarded = << >> => ForwardedClient = NoAddr
  BY <1>1 DEF ForwardedClient, ClientFromTrustedChain, Outsiders
<1>4. NamesOnly(XffHops, client) => XffClient \in {NoAddr, client}
  BY <1>1, ClientIsNamed DEF NamesOnly, XffClient
<1>5. NamesOnly(ForwardedHops, client) => ForwardedClient \in {NoAddr, client}
  BY <1>1, ClientIsNamed DEF NamesOnly, ForwardedClient
<1> QED  BY <1>2, <1>3, <1>4, <1>5

(* The branches of resolveClientIdentity.                                  *)
LEMMA IdentifySteps ==
  ASSUME IInv, Identify
  PROVE  IInv'
<1>0. (relays > 0 => AddrIsTrusted(sender)) /\ (relays = 0 => sender = client)
      /\ relays \in Nat
  BY DEF IInv
<1>1. CASE NoHeaders
  <2>1. pc = "path" /\ xff = << >> /\ forwarded = << >> /\ UsePeer("absent")
    BY <1>1 DEF NoHeaders, HasForwardedHeaders
  <2>2. DOMAIN XffHops = {} /\ DOMAIN ForwardedHops = {}
    BY <2>1 DEF XffHops, ForwardedHops
  <2>3. relays = 0 \/ AddrIsTrusted(client)
    BY <2>2 DEF IInv, EndsAt, Malformed
  <2> QED  BY <1>0, <2>1, <2>3, PeerIsTheKey, ResolveKeepsInvariant
<1>2. CASE UntrustedPeer
  <2>1. /\ pc = "path" /\ ~AddrIsTrusted(sender)
        /\ UsePeer("ignored_untrusted_peer")
    BY <1>2 DEF UntrustedPeer
  <2>2. ~(relays > 0)
    BY <1>0, <2>1
  <2> QED  BY <2>1, <2>2, PeerIsTheKey, ResolveKeepsInvariant
<1>3. CASE MalformedHeaders
  <2>1. /\ pc = "path" /\ UsePeer("ignored_malformed")
        /\ Malformed(XffHops) \/ Malformed(ForwardedHops)
    BY <1>3 DEF MalformedHeaders, ReadHeaders
  <2> QED  BY <2>1, PeerIsTheKey, ResolveKeepsInvariant
<1>4. CASE ConflictingHeaders
  <2>1. /\ ChainsRead /\ pc = "path" /\ UsePeer("ignored_conflict")
        /\ XffClient # NoAddr /\ ForwardedClient # NoAddr
        /\ XffClient # ForwardedClient
    BY <1>4 DEF ConflictingHeaders, ChainsRead, ReadHeaders, ClientsDiffer
  <2>2. /\ xff # << >> /\ forwarded # << >>
        /\ ~(NamesOnly(XffHops, client) /\ NamesOnly(ForwardedHops, client))
    BY <2>1, ClientOfNamesOnly
  <2> QED  BY <2>1, <2>2, PeerIsTheKey, ResolveKeepsInvariant
<1>5. CASE HonorXff
  <2>1. /\ ChainsRead /\ pc = "path" /\ AddrIsTrusted(sender) /\ ~ClientsDiffer
        /\ XffClient # NoAddr
        /\ Resolve(XffClient, "x_forwarded_for", "honored")
    BY <1>5 DEF HonorXff, ChainsRead, ReadHeaders
  <2>2. XffClient = client /\ ~AddrIsTrusted(client)
    BY <2>1, ReadChains DEF ClientsDiffer
  <2> QED  BY <2>1, <2>2, ResolveKeepsInvariant
<1>6. CASE HonorForwarded
  <2>1. /\ ChainsRead /\ pc = "path" /\ AddrIsTrusted(sender)
        /\ XffClient = NoAddr /\ ForwardedClient # NoAddr
        /\ Resolve(ForwardedClient, "forwarded", "honored")
    BY <1>6 DEF HonorForwarded, ChainsRead, ReadHeaders
  <2>2. ForwardedClient = client /\ ~AddrIsTrusted(client)
    BY <2>1, ReadChains
  <2> QED  BY <2>1, <2>2, ResolveKeepsInvariant
<1>7. CASE AllTrusted
  <2>1. /\ ChainsRead /\ pc = "path" /\ UsePeer("ignored_all_trusted")
        /\ AddrIsTrusted(sender)
        /\ ~Malformed(XffHops) /\ ~Malformed(ForwardedHops)
        /\ XffClient = NoAddr /\ ForwardedClient = NoAddr
    BY <1>7 DEF AllTrusted, ChainsRead, ReadHeaders
  <2>2. AddrIsTrusted(client) \/ relays = 0
    <3>1. client \in Machines /\ client # NoAddr
      BY <2>1, IdentityAssumption DEF IInv, Arrived
    <3>2. DOMAIN XffHops \subseteq Nat /\ DOMAIN ForwardedHops \subseteq Nat
      BY HopsOfHeaders DEF IInv
    <3>3. ASSUME ~AddrIsTrusted(client), relays > 0  PROVE FALSE
      <4>1. EndsAt(XffHops, client) \/ EndsAt(ForwardedHops, client)
        BY <3>3 DEF IInv
      <4> QED  BY <2>1, <3>1, <3>2, <3>3, <4>1, ChainClient
               DEF XffClient, ForwardedClient
    <3> QED  BY <1>0, <3>3
  <2> QED  BY <1>0, <2>1, <2>2, PeerIsTheKey, ResolveKeepsInvariant
<1> QED  BY <1>1, <1>2, <1>3, <1>4, <1>5, <1>6, <1>7 DEF Identify

-----------------------------------------------------------------------------
(* The start, and the theorems.                                            *)

(* A request enters as its client.                                         *)
LEMMA SendSteps ==
  ASSUME IInv, NEW m \in Machines, Send(m)
  PROVE  IInv'
<1>1. /\ pc = "serving" /\ pc' = "path" /\ client' = m /\ sender' = m
      /\ xff' \in OutsideXff /\ forwarded' \in OutsideForwarded
      /\ UNCHANGED <<config, trusted, relays, identity>>
  BY DEF Send
<1>2. relays' = 0 /\ ~(relays' > 0)
  BY <1>1 DEF IInv, Arrived
<1>3. xff' \in Seq(Text) /\ forwarded' \in Seq(Seq(Parameter))
  BY <1>1, IdentityAssumption
<1>4. ASSUME AddrIsTrusted(client)'
      PROVE  (NoOutsiders(XffHops) /\ NoOutsiders(ForwardedHops))'
  <2>1. AddrIsTrusted(m)
    BY <1>1, <1>4 DEF AddrIsTrusted
  <2>2. xff' = << >> /\ forwarded' = << >>
    BY <2>1 DEF Send
  <2> QED  BY <2>2 DEF NoOutsiders, XffHops, ForwardedHops
<1>5. (KeyIsClientOrPeer /\ HeadersSelectOutsiders /\ ProxiedClientIsFound)'
  BY <1>1 DEF KeyIsClientOrPeer, HeadersSelectOutsiders, ProxiedClientIsFound
<1> QED  BY <1>1, <1>2, <1>3, <1>4, <1>5 DEF IInv, Arrived

(* Nothing is on its way while the server starts.                          *)
LEMMA BootSteps ==
  ASSUME IInv, BootFails \/ Boot
  PROVE  IInv'
<1>1. /\ pc = "boot" /\ pc' \in {"failed", "serving"}
      /\ UNCHANGED <<client, sender, xff, forwarded, relays, identity>>
  BY DEF BootFails, Boot, request
<1>2. /\ relays = 0 /\ client = NoAddr /\ sender = NoAddr
      /\ xff \in Seq(Text) /\ forwarded \in Seq(Seq(Parameter))
  BY <1>1 DEF IInv, Arrived
<1>3. ~AddrIsTrusted(client)'
  BY <1>1, <1>2 DEF AddrIsTrusted
<1>4. (KeyIsClientOrPeer /\ HeadersSelectOutsiders /\ ProxiedClientIsFound)'
  BY <1>1 DEF KeyIsClientOrPeer, HeadersSelectOutsiders, ProxiedClientIsFound
<1> QED  BY <1>1, <1>2, <1>3, <1>4 DEF IInv, Arrived

(* A server that has not started has no request.                           *)
LEMMA InitIInv == Init => IInv
<1> SUFFICES ASSUME Init PROVE IInv
  OBVIOUS
<1>1. ~AddrIsTrusted(client)
  BY DEF Init, AddrIsTrusted
<1>2. xff \in Seq(Text) /\ forwarded \in Seq(Seq(Parameter))
  BY DEF Init
<1> QED  BY <1>1, <1>2 DEF Init, IInv, Arrived, KeyIsClientOrPeer,
            HeadersSelectOutsiders, ProxiedClientIsFound

(* The invariant does not depend on what stays the same.                   *)
LEMMA StutterIInv ==
  ASSUME IInv, UNCHANGED vars
  PROVE  IInv'
<1>1. UNCHANGED <<pc, config, trusted, client, sender, xff, forwarded, relays, identity>>
  BY DEF vars
<1> QED  BY <1>1 DEF IInv, Arrived, KeyIsClientOrPeer, HeadersSelectOutsiders,
              ProxiedClientIsFound, EndsAt, NoOutsiders, NamesOnly, Outsiders,
              Malformed, XffHops, ForwardedHops, AddrIsTrusted

(* The inductive invariant: a request that passed a proxy comes from a     *)
(* trusted one and one of its headers ends with its client.                *)
LEMMA IdentityInvariance == Spec => []IInv
<1>1. IInv /\ [Next]_vars => IInv'
  BY BootSteps, SendSteps, RelaySteps, IdentifySteps, StutterIInv DEF Next
<1> QED  BY <1>1, InitIInv, PTL DEF Spec

(* A request counts against its client or against the proxy that called,   *)
(* never against a third address (resolveClientIdentity).                  *)
THEOREM KeyIsNoThirdParty == Spec => []KeyIsClientOrPeer
<1>1. IInv => KeyIsClientOrPeer
  BY DEF IInv
<1> QED  BY <1>1, IdentityInvariance, PTL

(* Headers count only from trusted proxies and never select the bucket of  *)
(* a trusted proxy.                                                        *)
THEOREM HeadersOnlySelectOutsiders == Spec => []HeadersSelectOutsiders
<1>1. IInv => HeadersSelectOutsiders
  BY DEF IInv
<1> QED  BY <1>1, IdentityInvariance, PTL

(* A client behind proxies whose headers can be read and do not disagree   *)
(* has a bucket of its own.                                                *)
THEOREM ProxiedClientFound == Spec => []ProxiedClientIsFound
<1>1. IInv => ProxiedClientIsFound
  BY DEF IInv
<1> QED  BY <1>1, IdentityInvariance, PTL

-----------------------------------------------------------------------------
(* Addresses and networks.                                                 *)

(* The bits of an address, in terms of its family.                         *)
LEMMA AddressShape ==
  ASSUME NEW a \in Address
  PROVE  /\ W4 \in Nat /\ W6 \in Nat /\ TopBits \in Nat /\ W6 = TopBits + W4 /\ TopBits >= 1
         /\ DOMAIN a = 1..Width(a) /\ Width(a) \in {W4, W6} /\ W4 # W6
         /\ a \in V4Address <=> Width(a) = W4
         /\ a \in V6Address <=> Width(a) = W6
         /\ \A i \in 1..Width(a) : a[i] \in Bit
<1>1. W4 \in Nat /\ W6 \in Nat /\ W4 < W6
  BY IdentityAssumption
<1>2. TopBits \in Nat /\ W6 = TopBits + W4 /\ TopBits >= 1
  BY <1>1 DEF TopBits
<1>3. W6 \in 1..W6 /\ W6 \notin 1..W4
  BY <1>1
<1>4. a \in V4Address => DOMAIN a = 1..W4
  BY DEF V4Address
<1>5. a \in V6Address => DOMAIN a = 1..W6
  BY DEF V6Address
<1>6. ~(a \in V4Address /\ a \in V6Address)
  BY <1>3, <1>4, <1>5
<1>7. CASE a \in V4Address
  <2>1. Width(a) = W4 /\ a \notin V6Address
    BY <1>6, <1>7 DEF Width
  <2> QED  BY <1>1, <1>2, <1>4, <1>7, <2>1 DEF V4Address
<1>8. CASE a \in V6Address
  <2>1. Width(a) = W6 /\ a \notin V4Address
    BY <1>6, <1>8 DEF Width
  <2> QED  BY <1>1, <1>2, <1>5, <1>8, <2>1 DEF V6Address
<1> QED  BY <1>7, <1>8 DEF Address

(* The other spelling is read as the same address, which is none of the    *)
(* mapped ones.                                                            *)
LEMMA UnmapType ==
  ASSUME NEW a \in Address
  PROVE  /\ Unmap(a) \in Address /\ ~Is4In6(Unmap(a))
         /\ Is4In6(a) => /\ Unmap(a) \in V4Address /\ a \in V6Address
                         /\ \A i \in 1..W4 : Unmap(a)[i] = a[TopBits + i]
         /\ ~Is4In6(a) => Unmap(a) = a
<1>1. CASE Is4In6(a)
  <2> DEFINE u == [i \in 1..W4 |-> a[TopBits + i]]
  <2>1. a \in V6Address /\ Unmap(a) = u
    BY <1>1 DEF Is4In6, Unmap
  <2>2. Width(a) = W6
    BY <2>1, AddressShape
  <2>3. \A i \in 1..W4 : TopBits + i \in 1..Width(a)
    BY <2>2, AddressShape
  <2>4. u \in V4Address
    BY <2>3, AddressShape DEF V4Address
  <2>5. u \in Address
    BY <2>4 DEF Address
  <2>6. u \notin V6Address
    BY <2>4, <2>5, AddressShape
  <2> QED  BY <1>1, <2>1, <2>4, <2>5, <2>6 DEF Is4In6
<1>2. CASE ~Is4In6(a)
  BY <1>2 DEF Unmap
<1> QED  BY <1>1, <1>2

(* Clearing the host bits of a prefix leaves the network it stands for.    *)
LEMMA MaskedType ==
  ASSUME NEW p \in Prefix
  PROVE  /\ Masked(p) \in Prefix /\ Masked(p).bits = p.bits
         /\ Width(Masked(p).addr) = Width(p.addr)
         /\ \A i \in 1..Width(p.addr) :
              Masked(p).addr[i] = IF i <= p.bits THEN p.addr[i] ELSE 0
         /\ Masked(Masked(p)) = Masked(p)
<1> DEFINE w == Width(p.addr)
           m == [i \in 1..w |-> IF i <= p.bits THEN p.addr[i] ELSE 0]
<1>1. /\ p.addr \in Address /\ p.bits \in 0..W6 /\ p.bits <= w
      /\ p = [addr |-> p.addr, bits |-> p.bits]
  BY DEF Prefix
<1>2. DOMAIN p.addr = 1..w /\ w \in {W4, W6}
  BY <1>1, AddressShape
<1>3. Masked(p) = [addr |-> m, bits |-> p.bits]
  BY <1>1, <1>2 DEF Masked
<1>4. \A i \in 1..w : m[i] \in Bit
  BY <1>1, AddressShape DEF Bit
<1>5. m \in Address /\ Width(m) = w
  <2>1. CASE w = W4
    <3>1. m \in V4Address
      BY <1>4, <2>1 DEF V4Address
    <3>2. m \in Address
      BY <3>1 DEF Address
    <3> QED  BY <2>1, <3>1, <3>2, AddressShape
  <2>2. CASE w = W6
    <3>1. m \in V6Address
      BY <1>4, <2>2 DEF V6Address
    <3>2. m \in Address
      BY <3>1 DEF Address
    <3> QED  BY <2>2, <3>1, <3>2, AddressShape
  <2> QED  BY <1>2, <2>1, <2>2
<1>6. Masked(p) \in Prefix
  <2> HIDE DEF m
  <2>1. Masked(p).addr = m /\ Masked(p).bits = p.bits
    BY <1>3
  <2>2. Masked(p) \in [addr : Address, bits : 0..W6]
    BY <1>1, <1>3, <1>5
  <2>3. Masked(p).bits <= Width(Masked(p).addr)
    BY <1>1, <1>5, <2>1
  <2> QED  BY <2>2, <2>3 DEF Prefix
<1>7. Masked(Masked(p)) = Masked(p)
  <2> DEFINE mm == [i \in 1..w |-> IF i <= p.bits THEN m[i] ELSE 0]
  <2>1. DOMAIN m = 1..w
    OBVIOUS
  <2> HIDE DEF m
  <2>2. Masked([addr |-> m, bits |-> p.bits]) = [addr |-> mm, bits |-> p.bits]
    BY <2>1 DEF Masked
  <2>3. mm = m
    BY DEF m
  <2> QED  BY <1>3, <2>2, <2>3
<1> QED  BY <1>3, <1>5, <1>6, <1>7

(* A masked prefix contains what the prefix contains, and its own address. *)
LEMMA MaskedContains ==
  ASSUME NEW p \in Prefix
  PROVE  /\ \A a \in Address : Contains(Masked(p), a) <=> Contains(p, a)
         /\ Masked(p).addr \in Address /\ Contains(p, Masked(p).addr)
<1>1. /\ p.bits \in 0..W6 /\ p.bits <= Width(p.addr) /\ p.addr \in Address
      /\ Masked(p).addr \in Address
  BY MaskedType DEF Prefix
<1>2. Width(p.addr) \in Nat /\ \A i \in 1..p.bits : i \in 1..Width(p.addr) /\ i <= p.bits
  BY <1>1, AddressShape
<1>3. \A i \in 1..p.bits : Masked(p).addr[i] = p.addr[i]
  BY <1>2, MaskedType
<1>4. \A a \in Address : Contains(Masked(p), a) <=> Contains(p, a)
  BY <1>3, MaskedType DEF Contains
<1>5. Contains(p, Masked(p).addr)
  BY <1>3, MaskedType DEF Contains
<1> QED  BY <1>1, <1>4, <1>5

(* A prefix that is a mapped one once its host bits are cleared is at      *)
(* least as long as the block of mapped addresses, which ends in a one.    *)
LEMMA MappedPrefix ==
  ASSUME NEW p \in Prefix, Is4In6(Masked(p).addr)
  PROVE  /\ Width(p.addr) = W6 /\ TopBits <= p.bits
         /\ \A i \in 1..TopBits : p.addr[i] = MappedTop[i]
<1>1. /\ p.bits \in 0..W6 /\ p.bits <= Width(p.addr) /\ p.addr \in Address
      /\ Masked(p).addr \in Address
  BY MaskedType DEF Prefix
<1>2. /\ Masked(p).addr \in V6Address
      /\ \A i \in 1..TopBits : Masked(p).addr[i] = MappedTop[i]
  BY DEF Is4In6
<1>3. Width(p.addr) = W6
  BY <1>1, <1>2, AddressShape, MaskedType
<1>4. /\ TopBits \in Nat /\ TopBits >= 1 /\ W6 = TopBits + W4 /\ W4 \in Nat
      /\ TopBits \in 1..TopBits
      /\ \A i \in 1..TopBits : i \in 1..Width(p.addr)
  BY <1>1, <1>3, AddressShape
<1>5. Masked(p).addr[TopBits] = 1
  BY <1>2, <1>4, IdentityAssumption
<1>6. TopBits <= p.bits
  BY <1>1, <1>4, <1>5, MaskedType
<1>7. \A i \in 1..TopBits : p.addr[i] = MappedTop[i]
  <2> TAKE i \in 1..TopBits
  <2>1. i <= p.bits /\ i \in 1..Width(p.addr)
    BY <1>1, <1>4, <1>6
  <2> QED  BY <1>2, <2>1, MaskedType
<1> QED  BY <1>3, <1>6, <1>7

(* Canonicalizing a mapped prefix removes the block from its address and   *)
(* from its length; every other prefix only loses its host bits.           *)
LEMMA CanonicalForm ==
  ASSUME NEW p \in Prefix
  PROVE  /\ CanonicalizeTrustedPrefix(p) \in Prefix
         /\ ~Is4In6(Masked(p).addr) => CanonicalizeTrustedPrefix(p) = Masked(p)
         /\ Is4In6(Masked(p).addr) =>
              CanonicalizeTrustedPrefix(p) =
                [addr |-> Unmap(Masked(p).addr), bits |-> p.bits - TopBits]
<1>1. Masked(p) \in Prefix /\ Masked(p).bits = p.bits /\ Masked(p).addr \in Address
  BY MaskedType, MaskedContains
<1>2. CASE ~Is4In6(Masked(p).addr)
  BY <1>1, <1>2 DEF CanonicalizeTrustedPrefix
<1>3. CASE Is4In6(Masked(p).addr)
  <2>1. /\ p.bits \in 0..W6 /\ TopBits <= p.bits /\ TopBits \in Nat
        /\ W6 = TopBits + W4 /\ W4 \in Nat /\ W6 \in Nat
    BY <1>3, MappedPrefix, AddressShape DEF Prefix
  <2>2. Clamp(p.bits - TopBits) = p.bits - TopBits /\ p.bits - TopBits \in 0..W4
    BY <2>1 DEF Clamp
  <2> DEFINE u == Unmap(Masked(p).addr)
             c == [addr |-> u, bits |-> p.bits - TopBits]
  <2>3. CanonicalizeTrustedPrefix(p) = c
    BY <1>1, <1>3, <2>2 DEF CanonicalizeTrustedPrefix
  <2>4. u \in Address /\ Width(u) = W4
    BY <1>1, <1>3, UnmapType, AddressShape
  <2> HIDE DEF u
  <2>5. c \in [addr : Address, bits : 0..W6] /\ c.bits <= Width(c.addr)
    BY <2>1, <2>2, <2>4
  <2> QED  BY <1>3, <2>3, <2>5 DEF Prefix, u
<1> QED  BY <1>2, <1>3

(* A prefix that was canonicalized when it was configured stays the same   *)
(* when addrIsTrusted canonicalizes it again.                              *)
LEMMA CanonicalTwice ==
  ASSUME NEW p \in Prefix
  PROVE  CanonicalizeTrustedPrefix(CanonicalizeTrustedPrefix(p))
           = CanonicalizeTrustedPrefix(p)
<1> DEFINE c == CanonicalizeTrustedPrefix(p)
<1>1. c \in Prefix /\ Masked(p).addr \in Address
  BY CanonicalForm, MaskedContains
<1>2. CASE ~Is4In6(Masked(p).addr)
  <2>1. c = Masked(p) /\ Masked(c) = c
    BY <1>2, CanonicalForm, MaskedType
  <2> QED  BY <1>1, <1>2, <2>1, CanonicalForm
<1>3. CASE Is4In6(Masked(p).addr)
  <2> DEFINE u == Unmap(Masked(p).addr)
  <2>1. c = [addr |-> u, bits |-> p.bits - TopBits]
    BY <1>3, CanonicalForm
  <2>2. /\ u \in V4Address /\ Masked(p).addr \in V6Address
        /\ \A i \in 1..W4 : u[i] = Masked(p).addr[TopBits + i]
    BY <1>1, <1>3, UnmapType
  <2>3. c.addr = u /\ c.bits = p.bits - TopBits /\ DOMAIN u = 1..W4
    BY <2>1, <2>2 DEF V4Address
  <2>4. /\ W4 \in Nat /\ TopBits \in Nat /\ W6 = TopBits + W4 /\ Width(p.addr) = W6
        /\ p.bits \in Nat
    BY <1>3, MappedPrefix, AddressShape DEF Prefix
  <2>5. \A i \in 1..W4 : ~(i <= p.bits - TopBits) => u[i] = 0
    <3> TAKE i \in 1..W4
    <3>1. TopBits + i \in 1..Width(p.addr)
      BY <2>4
    <3>2. ~(i <= p.bits - TopBits) => ~(TopBits + i <= p.bits)
      BY <2>4
    <3> QED  BY <2>2, <3>1, <3>2, MaskedType
  <2>6. u = [i \in 1..W4 |-> IF i <= p.bits - TopBits THEN u[i] ELSE 0]
    BY <2>2, <2>5 DEF V4Address
  <2>7. Masked(c) = c
    <3> HIDE DEF u, c
    <3>1. Masked(c) = [addr |-> [i \in 1..W4 |-> IF i <= p.bits - TopBits THEN u[i] ELSE 0],
                       bits |-> p.bits - TopBits]
      BY <2>3 DEF Masked
    <3> QED  BY <2>1, <2>6, <3>1
  <2>8. u \in Address
    BY <2>2 DEF Address
  <2>9. ~Is4In6(Masked(c).addr)
    BY <1>1, <2>3, <2>7, UnmapType, MaskedContains
  <2> QED  BY <1>1, <2>7, <2>9, CanonicalForm
<1> QED  BY <1>2, <1>3

(* The IPv6 spelling of an IPv4 address is an address.                     *)
LEMMA MappedSpelling ==
  ASSUME NEW u \in V4Address
  PROVE  LET a == [i \in 1..W6 |-> IF i <= TopBits THEN MappedTop[i] ELSE u[i - TopBits]]
         IN  a \in Address /\ Is4In6(a) /\ Width(a) = W6 /\ Unmap(a) = u
<1> DEFINE a == [i \in 1..W6 |-> IF i <= TopBits THEN MappedTop[i] ELSE u[i - TopBits]]
<1>1. /\ W4 \in Nat /\ W6 \in Nat /\ TopBits \in Nat /\ W6 = TopBits + W4
      /\ u \in [1..W4 -> Bit]
  BY AddressShape DEF Address, V4Address
<1>2. \A i \in 1..W6 : a[i] \in Bit
  <2> TAKE i \in 1..W6
  <2>1. CASE i <= TopBits
    <3>1. i \in 1..TopBits /\ a[i] = MappedTop[i]
      BY <1>1, <2>1
    <3> QED  BY <3>1, IdentityAssumption
  <2>2. CASE ~(i <= TopBits)
    <3>1. i - TopBits \in 1..W4 /\ a[i] = u[i - TopBits]
      BY <1>1, <2>2
    <3> QED  BY <1>1, <3>1
  <2> QED  BY <2>1, <2>2
<1>3. a \in V6Address
  BY <1>2 DEF V6Address
<1>4. a \in Address
  BY <1>3 DEF Address
<1>5. \A i \in 1..TopBits : a[i] = MappedTop[i]
  BY <1>1
<1>6. \A i \in 1..W4 : a[TopBits + i] = u[i]
  <2> TAKE i \in 1..W4
  <2>1. TopBits + i \in 1..W6 /\ ~(TopBits + i <= TopBits) /\ (TopBits + i) - TopBits = i
    BY <1>1
  <2> QED  BY <2>1
<1> HIDE DEF a
<1>7. Is4In6(a)
  BY <1>3, <1>5 DEF Is4In6
<1>8. Unmap(a) = [i \in 1..W4 |-> a[TopBits + i]]
  BY <1>7 DEF Unmap
<1>9. Unmap(a) = u
  BY <1>1, <1>6, <1>8
<1>10. Width(a) = W6
  BY <1>3, <1>4, AddressShape
<1> QED  BY <1>4, <1>7, <1>9, <1>10 DEF a

(* A canonical network contains exactly the addresses its configured       *)
(* spelling stands for.                                                    *)
LEMMA CanonicalContains ==
  ASSUME NEW raw \in Raw \ {BadSyntax}, AsPrefix(raw) \in Prefix,
         NEW u \in Address, ~Is4In6(u)
  PROVE  Contains(CanonicalizeTrustedPrefix(AsPrefix(raw)), u) <=> u \in Described(raw)
<1> DEFINE p == AsPrefix(raw)
           m == Masked(p)
           block == {a \in Address : Contains(p, a)}
<1>1. /\ p \in Prefix /\ p.bits \in 0..W6 /\ p.bits <= Width(p.addr) /\ p.addr \in Address
      /\ m.addr \in Address /\ m.addr \in block
  BY MaskedContains DEF Prefix
<1>2. Described(raw) = {a \in block : ~Is4In6(a)} \cup
        (IF \A a \in block : Is4In6(a) THEN {Unmap(a) : a \in block} ELSE {})
  BY DEF Described
<1> HIDE DEF p
<1>3. CASE ~Is4In6(m.addr)
  <2>1. ~(\A a \in block : Is4In6(a))
    BY <1>1, <1>3
  <2>2. u \in Described(raw) <=> Contains(p, u)
    BY <1>2, <2>1
  <2>3. CanonicalizeTrustedPrefix(p) = m /\ (Contains(m, u) <=> Contains(p, u))
    BY <1>1, <1>3, CanonicalForm, MaskedContains
  <2> QED  BY <2>2, <2>3 DEF p
<1>4. CASE Is4In6(m.addr)
  <2>1. /\ Width(p.addr) = W6 /\ TopBits <= p.bits
        /\ \A i \in 1..TopBits : p.addr[i] = MappedTop[i]
    BY <1>1, <1>4, MappedPrefix
  <2>2. /\ W4 \in Nat /\ W6 \in Nat /\ TopBits \in Nat /\ W6 = TopBits + W4 /\ W4 # W6
        /\ p.bits \in Nat /\ p.bits <= W6
    BY <1>1, AddressShape
  <2>3. ASSUME NEW a \in block  PROVE Is4In6(a) /\ a \in Address /\ Contains(p, a)
    <3>1. a \in Address /\ Width(a) = W6 /\ \A i \in 1..p.bits : a[i] = p.addr[i]
      BY <2>1 DEF Contains
    <3>2. a \in V6Address
      BY <3>1, AddressShape
    <3>3. \A i \in 1..TopBits : a[i] = MappedTop[i]
      BY <2>1, <2>2, <3>1
    <3> QED  BY <3>1, <3>2, <3>3 DEF Is4In6
  <2>4. u \in Described(raw) <=> \E a \in block : u = Unmap(a)
    BY <1>2, <2>3
  <2> DEFINE v == Unmap(m.addr)
             c == [addr |-> v, bits |-> p.bits - TopBits]
  <2>5. CanonicalizeTrustedPrefix(p) = c
    BY <1>1, <1>4, CanonicalForm
  <2>6. /\ v \in Address /\ Width(v) = W4
        /\ \A i \in 1..W4 : v[i] = m.addr[TopBits + i]
    BY <1>1, <1>4, UnmapType, AddressShape
  <2>7. \A i \in 1..(p.bits - TopBits) : i \in 1..W4 /\ v[i] = p.addr[TopBits + i]
    <3> TAKE i \in 1..(p.bits - TopBits)
    <3>1. /\ i \in 1..W4 /\ TopBits + i \in 1..Width(p.addr) /\ TopBits + i <= p.bits
      BY <2>1, <2>2
    <3> QED  BY <1>1, <2>6, <3>1, MaskedType
  <2> HIDE DEF v
  <2>8. Contains(c, u) <=> /\ Width(u) = W4
                           /\ \A i \in 1..(p.bits - TopBits) : u[i] = p.addr[TopBits + i]
    BY <2>6, <2>7 DEF Contains
  <2>9. ASSUME NEW a \in block, u = Unmap(a)  PROVE Contains(c, u)
    <3>1. /\ u \in V4Address /\ \A i \in 1..W4 : u[i] = a[TopBits + i]
      BY <2>3, <2>9, UnmapType
    <3>2. \A i \in 1..p.bits : a[i] = p.addr[i]
      BY <2>3 DEF Contains
    <3>3. \A i \in 1..(p.bits - TopBits) : i \in 1..W4 /\ TopBits + i \in 1..p.bits
      BY <2>1, <2>2
    <3> QED  BY <2>8, <3>1, <3>2, <3>3, AddressShape
  <2>10. ASSUME Contains(c, u)  PROVE \E a \in block : u = Unmap(a)
    <3> DEFINE a == [i \in 1..W6 |-> IF i <= TopBits THEN MappedTop[i] ELSE u[i - TopBits]]
    <3>1. u \in V4Address
      BY <2>8, <2>10, AddressShape
    <3>2. a \in Address /\ Width(a) = W6 /\ Unmap(a) = u
      BY <3>1, MappedSpelling
    <3>3. ASSUME NEW i \in 1..p.bits  PROVE a[i] = p.addr[i]
      <4>1. i \in 1..W6
        BY <2>2
      <4>2. CASE i <= TopBits
        BY <2>1, <2>2, <4>1, <4>2
      <4>3. CASE ~(i <= TopBits)
        <5>1. i - TopBits \in 1..(p.bits - TopBits) /\ TopBits + (i - TopBits) = i
          BY <2>2, <4>3
        <5> QED  BY <2>8, <2>10, <4>1, <4>3, <5>1
      <4> QED  BY <4>2, <4>3
    <3> HIDE DEF a
    <3>4. a \in block
      BY <2>1, <3>2, <3>3 DEF Contains
    <3> QED  BY <3>2, <3>4
  <2> QED  BY <2>4, <2>5, <2>9, <2>10 DEF p
<1> QED  BY <1>3, <1>4

-----------------------------------------------------------------------------
(* The trusted networks of a process.                                      *)

(* A value that can be read is a prefix.                                   *)
LEMMA RawPrefix ==
  ASSUME NEW raw \in Raw \ {BadSyntax}
  PROVE  AsPrefix(raw) \in Prefix
<1>1. raw \in Prefix \/ raw \in [addr : Address, bits : {NoBits}]
  BY DEF Raw
<1>2. CASE raw \in Prefix
  <2>1. raw.bits # NoBits
    BY <1>2 DEF Prefix, NoBits
  <2> QED  BY <1>2, <2>1 DEF AsPrefix
<1>3. CASE raw \in [addr : Address, bits : {NoBits}]
  <2> DEFINE w == Width(raw.addr)
  <2>1. raw.addr \in Address /\ raw.bits = NoBits
    BY <1>3
  <2>2. w \in 0..W6
    BY <2>1, AddressShape
  <2>3. AsPrefix(raw) = [addr |-> raw.addr, bits |-> w]
    BY <1>3, <2>1 DEF AsPrefix
  <2>4. w \in Nat /\ w <= w
    BY <2>2
  <2> QED  BY <2>1, <2>2, <2>3, <2>4 DEF Prefix
<1> QED  BY <1>1, <1>2, <1>3

(* The networks are read once, from a configuration without an error.      *)
TrustedInv ==
  /\ config \in Configurations
  /\ pc \in {"boot", "failed"} => trusted = {}
  /\ pc \notin {"boot", "failed"} =>
       BadSyntax \notin config /\ trusted = ParseTrustedProxyCIDRs(config)

(* Nothing but the start of the process touches the networks.              *)
LEMMA TrustedInvariance == Spec => []TrustedInv
<1>1. Init => TrustedInv
  BY DEF Init, TrustedInv
<1>2. ASSUME TrustedInv, [Next]_vars  PROVE TrustedInv'
  <2>1. CASE BootFails
    BY <1>2, <2>1 DEF TrustedInv, BootFails
  <2>2. CASE Boot
    BY <1>2, <2>2 DEF TrustedInv, Boot, ParseTrustedProxyCIDRs
  <2>3. ASSUME NEW m \in Machines, Send(m)  PROVE TrustedInv'
    BY <1>2, <2>3 DEF TrustedInv, Send, ParseTrustedProxyCIDRs
  <2>4. ASSUME NEW m \in Machines,
               \/ AppendXff(m) \/ AppendForwarded(m) \/ AppendBoth(m)
               \/ OverwriteXff(m) \/ OverwriteForwarded(m)
        PROVE  TrustedInv'
    <3>1. PICK x, f : Relay(m, x, f)
      BY <2>4 DEF AppendXff, AppendForwarded, AppendBoth, OverwriteXff, OverwriteForwarded
    <3> QED  BY <1>2, <3>1 DEF TrustedInv, Relay, ParseTrustedProxyCIDRs
  <2>5. CASE Identify
    <3>1. PICK a, source, disposition : pc = "path" /\ Resolve(a, source, disposition)
      BY <2>5 DEF Identify, NoHeaders, UntrustedPeer, MalformedHeaders, ConflictingHeaders,
                  HonorXff, HonorForwarded, AllTrusted, ChainsRead, ReadHeaders, UsePeer
    <3> QED  BY <1>2, <3>1 DEF TrustedInv, Resolve, ParseTrustedProxyCIDRs
  <2>6. CASE UNCHANGED vars
    BY <1>2, <2>6 DEF TrustedInv, vars, ParseTrustedProxyCIDRs
  <2> QED  BY <1>2, <2>1, <2>2, <2>3, <2>4, <2>5, <2>6 DEF Next
<1> QED  BY <1>1, <1>2, PTL DEF Spec

(* The networks of a process are prefixes.                                 *)
LEMMA TrustedType ==
  ASSUME TrustedInv
  PROVE  trusted \subseteq Prefix
<1>1. CASE trusted = {}
  BY <1>1
<1>2. CASE BadSyntax \notin config /\ trusted = ParseTrustedProxyCIDRs(config)
  <2>1. \A raw \in config : raw \in Raw \ {BadSyntax}
    BY <1>2, IdentityAssumption DEF TrustedInv
  <2>2. \A raw \in config : CanonicalizeTrustedPrefix(AsPrefix(raw)) \in Prefix
    BY <2>1, RawPrefix, CanonicalForm
  <2> QED  BY <1>2, <2>2 DEF ParseTrustedProxyCIDRs
<1> QED  BY <1>1, <1>2 DEF TrustedInv

(* A machine is trusted exactly if a configured value stands for its       *)
(* address, in either spelling of the value and of the address and for     *)
(* every width (canonicalizeTrustedPrefix, addrIsTrusted).                 *)
THEOREM NetworksMeanWhatTheySay == Spec => []TrustedAsConfigured
<1>1. ASSUME TrustedInv, pc = "serving", NEW a \in Address
      PROVE  AddrIsTrusted(a) <=> \E raw \in config : Unmap(a) \in Described(raw)
  <2>1. /\ BadSyntax \notin config /\ config \in Configurations
        /\ trusted = {CanonicalizeTrustedPrefix(AsPrefix(raw)) : raw \in config}
    BY <1>1 DEF TrustedInv, ParseTrustedProxyCIDRs
  <2>2. \A raw \in config : raw \in Raw \ {BadSyntax} /\ AsPrefix(raw) \in Prefix
    BY <2>1, IdentityAssumption, RawPrefix
  <2>3. a # NoAddr /\ Unmap(a) \in Address /\ ~Is4In6(Unmap(a))
    BY IdentityAssumption, UnmapType
  <2>4. \A raw \in config :
          Contains(CanonicalizeTrustedPrefix(CanonicalizeTrustedPrefix(AsPrefix(raw))), Unmap(a))
            <=> Unmap(a) \in Described(raw)
    BY <2>2, <2>3, CanonicalTwice, CanonicalContains
  <2>5. AddrIsTrusted(a) <=>
          \E raw \in config :
            Contains(CanonicalizeTrustedPrefix(CanonicalizeTrustedPrefix(AsPrefix(raw))), Unmap(a))
    BY <2>1, <2>3 DEF AddrIsTrusted
  <2> QED  BY <2>4, <2>5
<1>2. TrustedInv => TrustedAsConfigured
  BY <1>1 DEF TrustedAsConfigured
<1> QED  BY <1>2, TrustedInvariance, PTL

(* The variables that the other invariants do not bound.                   *)
TypeInv == relays \in 0..MaxRelays /\ identity \in Identity

(* Every answer of resolveClientIdentity is a clientIdentity.              *)
LEMMA ResolveType ==
  ASSUME IInv', NEW a, NEW source \in Sources, NEW disposition \in Dispositions,
         Resolve(a, source, disposition)
  PROVE  identity' \in Identity
<1>1. /\ pc' = "resolved"
      /\ identity' = [address |-> a, source |-> source, disposition |-> disposition]
  BY DEF Resolve
<1>2. a \in {client', sender'} /\ client' \in Machines /\ sender' \in Machines
  BY <1>1 DEF IInv, KeyIsClientOrPeer, Arrived
<1>3. a \in Address
  BY <1>2, IdentityAssumption
<1> QED  BY <1>1, <1>3 DEF Identity

(* Every variable keeps its type, whatever headers a request carries.      *)
THEOREM TypeCorrectness == Spec => []TypeOK
<1>1. Init => TypeInv
  BY IdentityAssumption DEF Init, TypeInv, Identity, NoIdentity, Sources, Dispositions
<1>2. ASSUME TypeInv, IInv', [Next]_vars  PROVE TypeInv'
  <2>1. CASE BootFails \/ Boot
    BY <1>2, <2>1 DEF TypeInv, BootFails, Boot, request
  <2>2. ASSUME NEW m \in Machines, Send(m)  PROVE TypeInv'
    BY <1>2, <2>2 DEF TypeInv, Send
  <2>3. ASSUME NEW m \in Machines,
               \/ AppendXff(m) \/ AppendForwarded(m) \/ AppendBoth(m)
               \/ OverwriteXff(m) \/ OverwriteForwarded(m)
        PROVE  TypeInv'
    <3>1. PICK x, f : Relay(m, x, f)
      BY <2>3 DEF AppendXff, AppendForwarded, AppendBoth, OverwriteXff, OverwriteForwarded
    <3> QED  BY <1>2, <3>1, IdentityAssumption DEF TypeInv, Relay
  <2>4. CASE Identify
    <3>1. PICK a, source, disposition :
            /\ source \in Sources /\ disposition \in Dispositions
            /\ Resolve(a, source, disposition)
      <4>1. \A d : UsePeer(d) => Resolve(sender, "remote_addr", d)
        BY PeerIsTheKey
      <4>2. \/ \E d \in Dispositions : UsePeer(d)
            \/ Resolve(XffClient, "x_forwarded_for", "honored")
            \/ Resolve(ForwardedClient, "forwarded", "honored")
        BY <2>4 DEF Identify, NoHeaders, UntrustedPeer, MalformedHeaders, ConflictingHeaders,
                    HonorXff, HonorForwarded, AllTrusted, Dispositions
      <4>3. /\ "remote_addr" \in Sources /\ "x_forwarded_for" \in Sources
            /\ "forwarded" \in Sources /\ "honored" \in Dispositions
        BY DEF Sources, Dispositions
      <4> QED  BY <4>1, <4>2, <4>3, Zenon
    <3>2. relays' = relays
      BY <3>1 DEF Resolve
    <3> QED  BY <1>2, <3>1, <3>2, ResolveType DEF TypeInv
  <2>5. CASE UNCHANGED vars
    BY <1>2, <2>5 DEF TypeInv, vars
  <2> QED  BY <1>2, <2>1, <2>2, <2>3, <2>4, <2>5 DEF Next
<1>3. Spec => []TypeInv
  BY <1>1, <1>2, IdentityInvariance, PTL DEF Spec
<1>4. TypeInv /\ IInv /\ TrustedInv => TypeOK
  BY TrustedType DEF TypeInv, IInv, TrustedInv, TypeOK, Arrived
<1> QED  BY <1>3, <1>4, IdentityInvariance, TrustedInvariance, PTL
=============================================================================
