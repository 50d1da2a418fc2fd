---- MODULE MCP2PServer ----
EXTENDS P2PServer
CONSTANTS me, a, b

MCIds == {me, a, b}

Base == [maxPeers |-> 1, maxPendingPeers |-> 1, dialRatio |-> 2, noDiscovery |-> TRUE,
         noDial |-> FALSE, listen |-> TRUE, static |-> {}, boot |-> <<>>, trusted |-> {},
         operands |-> {}, results |-> {<<>>}]

\* Static nodes are added and removed, ourselves too, without discovery that
\* would tell, and without a listener.
Static == [Base EXCEPT !.listen = FALSE, !.static = {a}, !.operands = {a, me}]
\* A static node is dialled while nodes connect to us, that one among them.
Crossing == [Base EXCEPT !.static = {a}]
\* Two connections come in at a time, for one place.
Inbound == [Base EXCEPT !.maxPendingPeers = 2]
\* A trusted node takes the place meant for a dynamic dial.
Trusted == [Base EXCEPT !.dialRatio = 1, !.noDiscovery = FALSE, !.trusted = {b},
                        !.results = {<<a>>}]
\* Two dynamic dials, with a boot node and random nodes, and no listener.
Dynamic == [Base EXCEPT !.maxPeers = 2, !.dialRatio = 1, !.noDiscovery = FALSE,
                        !.listen = FALSE, !.boot = <<b>>, !.results = {<<>>, <<a>>, <<b>>}]
\* A static node, ourselves among the static nodes, and a dynamic dial.
Mixed == [Base EXCEPT !.dialRatio = 1, !.noDiscovery = FALSE, !.listen = FALSE,
                      !.static = {a, me}, !.results = {<<a>>, <<b>>}]

\* Two nodes are found for one dynamic dial.
Single == [Base EXCEPT !.dialRatio = 1, !.noDiscovery = FALSE, !.listen = FALSE,
                       !.results = {<<a>>, <<b>>}]

MCConfigs == {Static, Crossing, Inbound, Trusted, Dynamic, Mixed, Single}
====
