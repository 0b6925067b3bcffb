-------------------------- MODULE MCConnectorRelay --------------------------
(* Instances of ConnectorRelay for TLC. *)
EXTENDS ConnectorRelay, TLC

CONSTANTS c1, c2, p1, p2

OneConnector == {c1}
TwoConnectors == {c1, c2}
OneProvider == {p1}
TwoProviders == {p1, p2}
ProviderSymmetry == Permutations(TwoProviders)
=============================================================================
