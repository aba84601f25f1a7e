--------------------------- MODULE ClientIdentity ---------------------------
(***************************************************************************)
(* Who is the client of a request: the key of the rate limiter, derived by *)
(* resolveClientIdentity in backend/internal/httpapi/clientid.go from the  *)
(* peer, the headers Forwarded and X-Forwarded-For, and the networks of    *)
(* DNSWATCHER_TRUSTED_PROXY_CIDRS.                                         *)
(*                                                                         *)
(* A request starts at a machine, passes proxies, and reaches the server   *)
(* from the last of them.  The proxies are not in the repository: as       *)
(* docs/09-deployment.md asks of a trusted proxy, each appends the address *)
(* it was called from to a header it maintains, and the one at the edge    *)
(* may overwrite instead.  What a request carries when it enters the       *)
(* trusted networks may be anything.                                       *)
(*                                                                         *)
(* An address is a row of W4 or W6 bits; an IPv4 address has a second      *)
(* spelling, the IPv6 address that begins with the bits MappedTop.  A      *)
(* header is the sequence of the elements of all its lines, empty when the *)
(* header is absent: a line that is there has an element, if only an empty *)
(* one.  The text of an element is abstracted to what comes of parsing it: *)
(* an address in one of its spellings (with brackets, port and quotes      *)
(* gone), Unknown for text that is no address, BadSyntax for a parameter   *)
(* that is not token=value or has unbalanced quotes.  net/http listens on  *)
(* TCP, so that the peer always has an address.                            *)
(***************************************************************************)
EXTENDS Integers, Sequences

CONSTANTS
  W4, W6, MappedTop,  \* widths of an address; the bits of ::ffff:0:0/96
  Machines,           \* addresses of clients and proxies
  Configurations,     \* possible values of DNSWATCHER_TRUSTED_PROXY_CIDRS
  OutsideXff,         \* what a request may carry into the trusted networks
  OutsideForwarded,
  MaxRelays,          \* bound: proxies a request passes
  NoAddr, Unknown, BadSyntax

Bit == {0, 1}
V4Address == [1..W4 -> Bit]
V6Address == [1..W6 -> Bit]
Address == V4Address \cup V6Address

Width(a) == IF a \in V4Address THEN W4 ELSE W6

TopBits == W6 - W4

Is4In6(a) == a \in V6Address /\ \A i \in 1..TopBits : a[i] = MappedTop[i]

Unmap(a) == IF Is4In6(a) THEN [i \in 1..W4 |-> a[TopBits + i]] ELSE a

(* The ways to write an address.                                           *)
Spellings(a) == {t \in Address : Unmap(t) = a}

Prefix == {p \in [addr : Address, bits : 0..W6] : p.bits <= Width(p.addr)}

(* A value that is read: a prefix, or an address without a length.         *)
NoBits == -1
Raw == Prefix \cup [addr : Address, bits : {NoBits}] \cup {BadSyntax}

Text == Address \cup {Unknown}
Parameter == [key : {"for", "by", "proto"}, value : Text \cup {BadSyntax}]

(* The block ::ffff:0:0/96 ends in a one bit, so a shorter prefix that     *)
(* covers it is not a mapped address once its host bits are cleared.       *)
ASSUME IdentityAssumption ==
  /\ W4 \in Nat /\ W6 \in Nat /\ W4 < W6
  /\ MappedTop \in [1..TopBits -> Bit] /\ MappedTop[TopBits] = 1
  /\ Machines \subseteq {a \in Address : Unmap(a) = a}
  /\ Configurations \subseteq SUBSET Raw
  /\ OutsideXff \subseteq Seq(Text)
  /\ OutsideForwarded \subseteq Seq(Seq(Parameter))
  /\ MaxRelays \in Nat
  /\ NoAddr \notin Address /\ Unknown \notin Address /\ BadSyntax \notin Address

VARIABLES
  pc,         \* "boot", "failed", "serving", "path", "resolved"
  config,     \* the values of the environment variable
  trusted,    \* s.trustedProxies
  client,     \* the machine the request enters the trusted networks from
  sender,     \* the machine that passes the request on next: the peer
  xff, forwarded,     \* the headers
  relays,     \* proxies passed so far
  identity    \* the clientIdentity of the request

vars == <<pc, config, trusted, client, sender, xff, forwarded, relays, identity>>

Sources == {"none", "remote_addr", "forwarded", "x_forwarded_for"}
Dispositions == {"none", "absent", "honored", "ignored_untrusted_peer",
                 "ignored_malformed", "ignored_conflict", "ignored_all_trusted"}
Identity ==
  [address : Address \cup {NoAddr}, source : Sources, disposition : Dispositions]
NoIdentity == [address |-> NoAddr, source |-> "none", disposition |-> "none"]

-----------------------------------------------------------------------------
(* Trusted networks.                                                       *)

Masked(p) ==
  [addr |-> [i \in DOMAIN p.addr |-> IF i <= p.bits THEN p.addr[i] ELSE 0],
   bits |-> p.bits]

Contains(p, a) ==
  Width(a) = Width(p.addr) /\ \A i \in 1..p.bits : a[i] = p.addr[i]

Clamp(bits) == IF bits < 0 THEN 0 ELSE IF bits > W4 THEN W4 ELSE bits

(* Mutant: the length of a mapped prefix keeps counting the mapped block.  *)
CanonicalKeepingBits(p) ==
  LET m == Masked(p)
  IN IF Is4In6(m.addr) THEN [addr |-> Unmap(m.addr), bits |-> m.bits] ELSE m

(* Mutant: the host bits decide whether the prefix is a mapped one.        *)
CanonicalOfUnmasked(p) ==
  IF Is4In6(p.addr)
    THEN [addr |-> Unmap(p.addr), bits |-> Clamp(p.bits - TopBits)]
    ELSE Masked(p)

CanonicalizeTrustedPrefix(p) ==
  LET m == Masked(p)
  IN IF Is4In6(m.addr)
       THEN [addr |-> Unmap(m.addr), bits |-> Clamp(m.bits - TopBits)]
       ELSE m

AsPrefix(raw) == IF raw.bits = NoBits THEN [raw EXCEPT !.bits = Width(raw.addr)] ELSE raw

(* The networks of a configuration in which every value can be read.       *)
ParseTrustedProxyCIDRs(values) ==
  {CanonicalizeTrustedPrefix(AsPrefix(raw)) : raw \in values \ {BadSyntax}}

AddrIsTrusted(a) ==
  /\ a # NoAddr
  /\ \E p \in trusted : Contains(CanonicalizeTrustedPrefix(p), Unmap(a))

-----------------------------------------------------------------------------
(* The headers.                                                            *)

ParseIPHop(text) == IF text \in Address THEN Unmap(text) ELSE NoAddr

(* Every parameter can be read and no name occurs twice.                   *)
WellFormed(element) ==
  /\ \A i \in DOMAIN element : element[i].value # BadSyntax
  /\ \A i, j \in DOMAIN element : element[i].key = element[j].key => i = j

ForParameters(element) == {i \in DOMAIN element : element[i].key = "for"}

ParseForwardedElement(element) ==
  IF WellFormed(element) /\ ForParameters(element) # {}
    THEN ParseIPHop(element[CHOOSE i \in ForParameters(element) : TRUE].value)
    ELSE NoAddr

XffHops == [i \in DOMAIN xff |-> ParseIPHop(xff[i])]
ForwardedHops == [i \in DOMAIN forwarded |-> ParseForwardedElement(forwarded[i])]

Malformed(hops) == \E i \in DOMAIN hops : hops[i] = NoAddr

Outsiders(hops) == {i \in DOMAIN hops : ~AddrIsTrusted(hops[i])}

(* Mutant: the chain is read from the left.                                *)
ClientFromLeft(hops) ==
  IF Outsiders(hops) = {} THEN NoAddr
  ELSE hops[CHOOSE i \in Outsiders(hops) : \A j \in Outsiders(hops) : i <= j]

(* The rightmost hop that is no trusted proxy.                             *)
ClientFromTrustedChain(hops) ==
  IF Outsiders(hops) = {} THEN NoAddr
  ELSE hops[CHOOSE i \in Outsiders(hops) : \A j \in Outsiders(hops) : j <= i]

XffClient == ClientFromTrustedChain(XffHops)
ForwardedClient == ClientFromTrustedChain(ForwardedHops)

-----------------------------------------------------------------------------
Init ==
  /\ pc = "boot"
  /\ config \in Configurations
  /\ trusted = {}
  /\ client = NoAddr /\ sender = NoAddr
  /\ xff = << >> /\ forwarded = << >>
  /\ relays = 0
  /\ identity = NoIdentity

request == <<client, sender, xff, forwarded, relays, identity>>

(* main: a value that cannot be read stops the process.                    *)
BootFails ==
  /\ pc = "boot" /\ BadSyntax \in config
  /\ pc' = "failed"
  /\ UNCHANGED <<config, trusted, request>>

Boot ==
  /\ pc = "boot" /\ BadSyntax \notin config
  /\ pc' = "serving"
  /\ trusted' = ParseTrustedProxyCIDRs(config)
  /\ UNCHANGED <<config, request>>

(* A machine sends a request (one request suffices: the server remembers   *)
(* nothing of it but the key).  A machine inside the trusted networks,     *)
(* such as a health check, has nothing to forward.                         *)
Send(m) ==
  /\ pc = "serving"
  /\ xff' \in OutsideXff /\ forwarded' \in OutsideForwarded
  /\ AddrIsTrusted(m) => xff' = << >> /\ forwarded' = << >>
  /\ pc' = "path"
  /\ client' = m /\ sender' = m
  /\ UNCHANGED <<config, trusted, relays, identity>>

(* Proxy m passes the request on with these headers.                       *)
Relay(m, x, f) ==
  /\ pc = "path" /\ relays < MaxRelays
  /\ AddrIsTrusted(m)
  /\ sender' = m
  /\ xff' = x /\ forwarded' = f
  /\ relays' = relays + 1
  /\ UNCHANGED <<pc, config, trusted, client, identity>>

(* How a proxy writes down where the request came from; an obfuscated      *)
(* identifier is no address.                                               *)
SenderTexts == Spellings(sender) \cup {Unknown}
ForElement(text) == <<[key |-> "for", value |-> text]>>

AppendXff(m) == \E t \in SenderTexts : Relay(m, Append(xff, t), forwarded)

AppendForwarded(m) ==
  \E t \in SenderTexts : Relay(m, xff, Append(forwarded, ForElement(t)))

AppendBoth(m) ==
  \E t \in SenderTexts :
    Relay(m, Append(xff, t), Append(forwarded, ForElement(t)))

(* The proxy at the edge of the trusted networks may start a header anew.  *)
OverwriteXff(m) ==
  /\ ~AddrIsTrusted(sender)
  /\ \E t \in SenderTexts : Relay(m, <<t>>, forwarded)

OverwriteForwarded(m) ==
  /\ ~AddrIsTrusted(sender)
  /\ \E t \in SenderTexts : Relay(m, xff, <<ForElement(t)>>)

(* resolveClientIdentity returns.                                          *)
Resolve(address, source, disposition) ==
  /\ pc' = "resolved"
  /\ identity' = [address |-> address, source |-> source, disposition |-> disposition]
  /\ UNCHANGED <<config, trusted, client, sender, xff, forwarded, relays>>

(* The peer's address, whichever way RemoteAddr spells it.                 *)
UsePeer(disposition) ==
  \E t \in Spellings(sender) : Resolve(ParseIPHop(t), "remote_addr", disposition)

HasForwardedHeaders == xff # << >> \/ forwarded # << >>

NoHeaders ==
  /\ pc = "path" /\ ~HasForwardedHeaders
  /\ UsePeer("absent")

UntrustedPeer ==
  /\ pc = "path" /\ HasForwardedHeaders /\ ~AddrIsTrusted(sender)
  /\ UsePeer("ignored_untrusted_peer")

(* Mutant: the peer of the request is not looked at.                       *)
ReadHeadersOfAnyPeer == pc = "path" /\ HasForwardedHeaders

ReadHeaders == pc = "path" /\ HasForwardedHeaders /\ AddrIsTrusted(sender)

MalformedHeaders ==
  /\ ReadHeaders
  /\ Malformed(XffHops) \/ Malformed(ForwardedHops)
  /\ UsePeer("ignored_malformed")

(* Both headers were read to the end.                                      *)
ChainsRead == ReadHeaders /\ ~Malformed(XffHops) /\ ~Malformed(ForwardedHops)

(* Mutant: a header that names nobody contradicts the other.               *)
ClientsDifferOrMissing ==
  xff # << >> /\ forwarded # << >> /\ XffClient # ForwardedClient

ClientsDiffer ==
  XffClient # NoAddr /\ ForwardedClient # NoAddr /\ XffClient # ForwardedClient

ConflictingHeaders ==
  /\ ChainsRead /\ ClientsDiffer
  /\ UsePeer("ignored_conflict")

HonorXff ==
  /\ ChainsRead /\ ~ClientsDiffer
  /\ XffClient # NoAddr
  /\ Resolve(XffClient, "x_forwarded_for", "honored")

HonorForwarded ==
  /\ ChainsRead /\ ~ClientsDiffer
  /\ XffClient = NoAddr /\ ForwardedClient # NoAddr
  /\ Resolve(ForwardedClient, "forwarded", "honored")

AllTrusted ==
  /\ ChainsRead
  /\ XffClient = NoAddr /\ ForwardedClient = NoAddr
  /\ UsePeer("ignored_all_trusted")

Identify ==
  \/ NoHeaders \/ UntrustedPeer \/ MalformedHeaders \/ ConflictingHeaders
  \/ HonorXff \/ HonorForwarded \/ AllTrusted

Next ==
  \/ BootFails
  \/ Boot
  \/ \E m \in Machines :
       \/ Send(m)
       \/ AppendXff(m) \/ AppendForwarded(m) \/ AppendBoth(m)
       \/ OverwriteXff(m) \/ OverwriteForwarded(m)
  \/ Identify

Spec == Init /\ [][Next]_vars

-----------------------------------------------------------------------------
(* The variables have their types.                                         *)
TypeOK ==
  /\ pc \in {"boot", "failed", "serving", "path", "resolved"}
  /\ config \in Configurations
  /\ trusted \subseteq Prefix
  /\ client \in Machines \cup {NoAddr} /\ sender \in Machines \cup {NoAddr}
  /\ xff \in Seq(Text) /\ forwarded \in Seq(Seq(Parameter))
  /\ relays \in 0..MaxRelays
  /\ identity \in Identity

(* A request counts against the machine it entered the trusted networks    *)
(* from or against the proxy that called the server, never against a third *)
(* address, whatever a header said and whichever headers the proxies on    *)
(* the way maintain (resolveClientIdentity, clientFromTrustedChain).       *)
KeyIsClientOrPeer ==
  pc = "resolved" => identity.address \in {client, sender}

(* Headers count only if a trusted proxy brings them, and they never       *)
(* select the bucket of a trusted proxy.                                   *)
HeadersSelectOutsiders ==
  pc = "resolved" /\ identity.address # sender =>
    AddrIsTrusted(sender) /\ ~AddrIsTrusted(identity.address)

NamesOnly(hops, who) == \A i \in Outsiders(hops) : hops[i] = who

(* Clients behind a proxy do not share its bucket: if the headers can be   *)
(* read, and there is only one of them or they name no other outsider, the *)
(* key is the client.                                                      *)
ProxiedClientIsFound ==
  /\ pc = "resolved" /\ relays > 0 /\ ~AddrIsTrusted(client)
  /\ ~Malformed(XffHops) /\ ~Malformed(ForwardedHops)
  /\ \/ xff = << >>
     \/ forwarded = << >>
     \/ NamesOnly(XffHops, client) /\ NamesOnly(ForwardedHops, client)
  => identity.address = client

(* The addresses a configured value stands for, as a CIDR is read: those   *)
(* with the same leading bits, or the IPv4 addresses whose mapped form     *)
(* lies in a block of mapped addresses.                                    *)
Described(raw) ==
  LET p == AsPrefix(raw)
      block == {a \in Address : Contains(p, a)}
  IN {a \in block : ~Is4In6(a)} \cup
     (IF \A a \in block : Is4In6(a) THEN {Unmap(a) : a \in block} ELSE {})

(* A machine is trusted exactly if a configured value, in either spelling  *)
(* of its network, stands for its address (canonicalizeTrustedPrefix,      *)
(* addrIsTrusted).  The networks do not change after the start.            *)
TrustedAsConfigured ==
  pc = "serving" =>
    \A a \in Address :
      AddrIsTrusted(a) <=> \E raw \in config : Unmap(a) \in Described(raw)
=============================================================================
