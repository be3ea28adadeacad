--------------------------- MODULE ClientAddress ---------------------------
(***************************************************************************)
(* The address recorded with every allocation and revocation (internal/    *)
(* httpapi/client_ip.go).  Behind trusted proxies it is taken from the     *)
(* X-Forwarded-For header: each proxy appends the address it was connected *)
(* from, and what precedes is whatever the client has put there.           *)
(***************************************************************************)
EXTENDS Integers, Sequences

CONSTANTS
  Addresses,
  TrustedProxies   \* the addresses in TYPE_REGISTRY_TRUSTED_PROXIES

ASSUME AddressAssumption == TrustedProxies \subseteq Addresses

Untrusted(forwarded) == {i \in 1..Len(forwarded) : forwarded[i] \notin TrustedProxies}

\* Faulty variant: from the left.
FirstOf(positions) == CHOOSE i \in positions : \A k \in positions : i <= k
LastOf(positions) == CHOOSE i \in positions : \A k \in positions : k <= i

\* clientIP: the walk from the right over the addresses that can be parsed.
ClientIP(remote, forwarded) ==
  IF remote \notin TrustedProxies THEN remote
  ELSE IF Untrusted(forwarded) # {} THEN forwarded[LastOf(Untrusted(forwarded))]
  ELSE IF forwarded # <<>> THEN forwarded[1]
  ELSE remote

-----------------------------------------------------------------------------
(***************************************************************************)
(* A route: the client, the header it sends, and the proxies in between.   *)
(***************************************************************************)
Hops(route) == <<route.client>> \o route.proxies

\* What the server sees of it.
RemoteOf(route) == Hops(route)[Len(Hops(route))]
ForwardedOf(route) == route.forged \o SubSeq(Hops(route), 1, Len(Hops(route)) - 1)
=============================================================================
