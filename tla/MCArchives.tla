----------------------------- MODULE MCArchives -----------------------------
EXTENDS Archives, TLC
MCCandidates == [create |-> <<"data.zip", "data-1.zip">>, extract |-> <<"data", "data-1">>]
=============================================================================
