------------------------------ MODULE MCCatalog ------------------------------
(* Two sources, of two parts and of one, for TLC.                          *)
EXTENDS Catalog

MCSourceOf   == [a |-> "big", b |-> "big", c |-> "small"]
MCParts      == DOMAIN MCSourceOf
MCSourceSets == { <<"big", "small">>, <<"big">> }

MCHarvests == {
    <<{"a", "b", "c"}, {"big", "small"}>>,
    <<{"a", "c"}, {"big", "small"}>>,
    <<{"a"}, {"big"}>>,           \* small failed
    <<{"b"}, {"small"}>>,         \* big was cut short, small all rejected
    <<{}, {}>> }

\* A new database, and one in which b was delisted.
MCPasts == { <<{}, {}>>, <<{"a", "b", "c"}, {"a", "c"}>> }

=============================================================================
