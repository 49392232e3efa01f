-------------------------------- MODULE MCApp -------------------------------
EXTENDS App

\* No custom addresses, a complete set, and one without the exchange.
MCCustom == {[given |-> FALSE, names |-> {}],
             [given |-> TRUE, names |-> RequiredAddress],
             [given |-> TRUE, names |-> RequiredAddress \ {"exchange"}]}
=============================================================================
