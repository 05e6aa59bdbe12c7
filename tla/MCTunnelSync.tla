---------------------------- MODULE MCTunnelSync ----------------------------
(***************************************************************************)
(* Values of TunnelSync's constants for model checking.                    *)
(***************************************************************************)
EXTENDS TunnelSync

CONSTANTS root, c1, s1, s2, good, spare, bad, a, b, refused

Config(common, start, proxies, load) ==
  [common |-> common, start |-> start, proxies |-> proxies, load |-> load]

\* Two configs that differ in their common part, one with a proxy frp refuses, one
\* with a proxy it does not start; one like the first with a field only the
\* lenient loader takes; one whose common part frp refuses; one that is broken.
A == Config(a, {}, {good, bad}, "strict")
B == Config(b, {good}, {good, spare}, "strict")
L == Config(a, {}, {good}, "lax")
X == Config(refused, {}, {good}, "strict")
N == Config(a, {}, {}, "broken")

MCConfigs == {A, B, L, X, N}

Client(stopped, origin, ids, config, server) ==
  [stopped |-> stopped, origin |-> origin, ids |-> ids, config |-> config,
   server |-> server]

\* The agent's own client, fanning out to children.
Parent(ids) == Client(FALSE, NoClient, ids, NoConfig, s1)

Child(config, server) == Client(FALSE, root, {}, config, server)

Halt1 == Client(TRUE, root, {}, A, s1)

With(ids, child) == [c \in Clients |-> IF c = root THEN Parent(ids) ELSE child]

\* One child: its config changes, is refused, or moves to another server, or
\* the client is stopped, or master has nothing for it yet, or lists it no more.
MCMasterStates ==
  {With({root, c1}, child) :
     child \in {Child(A, s1), Child(B, s1), Child(X, s1), Child(L, s1), Child(A, s2), Halt1, NoClient}}
    \cup {With({root}, Child(A, s1))}

MCMessages ==
  {[event |-> "update", c |-> c1, s |-> s1, cfg |-> cfg] : cfg \in {B, L, N}}
    \cup {[event |-> e, c |-> c1] : e \in {"start", "stop"}}

\* An agent whose own client has the tunnels, with fewer configs.
SoloConfigs == {A, B}

Own(config) == Client(FALSE, NoClient, {}, config, s1)

SoloMasterStates == {[c \in Clients |-> Own(A)], [c \in Clients |-> Own(B)]}

SoloMessages ==
  {[event |-> "update", c |-> root, s |-> s1, cfg |-> cfg] : cfg \in {A, B}}
    \cup {[event |-> e, c |-> root] : e \in {"start", "stop"}}

\* Fewer messages; a master that does not change its mind.
RestartMessages == {[event |-> e, c |-> root] : e \in {"start", "stop"}}

SoloMessagesB == {[event |-> "update", c |-> root, s |-> s1, cfg |-> B]} \cup RestartMessages

SoloMasterState == {[c \in Clients |-> Own(A)]}

=============================================================================
