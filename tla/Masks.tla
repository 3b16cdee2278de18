------------------------------- MODULE Masks -------------------------------
(***************************************************************************)
(* Addresses and the masks of the lists of the service, as the code tells  *)
(* them apart: a user, a network, a node of it.  A mask leaves parts open  *)
(* with "*", or the node with the "::/64" MakeBanMask writes after the     *)
(* groups of an IPv6 network.                                              *)
(*                                                                         *)
(* Left out: the nick, which every mask that is made leaves open; the star *)
(* before and the trimming of a user in a made mask; wildcards inside a    *)
(* part; hosts of so few labels that their mask names the node.            *)
(***************************************************************************)
CONSTANTS
  Clients,
  Users, Nets, Nodes,
  Long,         \* the networks that are IPv6
  Real, Shown,  \* user@site of a client, and what gethost shows of it
  Hidden,       \* the clients that are registered and +x
  Groups        \* of an IPv6 client: the first four groups strtok finds

Star == "*"
Prefix == "::/64"
Address == [user : Users, net : Nets, node : Nodes]
Mask == [user : Users \cup {Star}, net : Nets \cup {Star}, node : Nodes \cup {Star, Prefix}]

ASSUME MasksOK ==
  /\ Star \notin Users \cup Nets \cup Nodes /\ Prefix \notin Nodes
  /\ Real \in [Clients -> Address] /\ Shown \in [Clients -> Address]
  /\ Long \subseteq Nets /\ Groups \in [Clients -> Nets]
  /\ Hidden \subseteq Clients /\ \A c \in Clients \ Hidden : Shown[c] = Real[c]
  /\ Clients \cap Mask = {}

\* The mask made of a client that is online.
MakeBanMask(c) ==
  IF c \in Hidden THEN [Shown[c] EXCEPT !.user = Star]
  ELSE IF Real[c].net \in Long
       THEN [user |-> Real[c].user, net |-> Groups[c], node |-> Prefix]
  ELSE [Real[c] EXCEPT !.node = Star]

\* The mask of the whole site a mask is of.
SiteMask(m) == [m EXCEPT !.user = Star]

\* match: s, an address or a mask, within m; it reads "::/64" as a wildcard.
Match(s, m) == /\ m.user \in {Star, s.user} /\ m.net \in {Star, s.net}
               /\ m.node \in {Star, Prefix, s.node}

\* compare: can s and m be of the same client? It reads "::/64" letter by letter.  (A
\* mask that leaves the network open, which nobody ignores, it takes for a number.)
Alike(p, q) == p = q \/ Star \in {p, q}
Compare(s, m) == Alike(s.user, m.user) /\ Alike(s.net, m.net) /\ Alike(s.node, m.node)
=============================================================================
