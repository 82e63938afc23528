--------------------------- MODULE MCCommunities ---------------------------
EXTENDS Communities

MCGenesis == <<"cooks">>
MCIssuerAt == [c \in Comms |-> "cooks@"]
MCLists == {<<>>, <<"general">>, <<"trades">>, <<"general", "Off Topic">>}
Symmetry == Permutations(Users)
=============================================================================
