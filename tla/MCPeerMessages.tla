--------------------------- MODULE MCPeerMessages ---------------------------
EXTENDS PeerMessages, TLC
Sym == Permutations(Threads) \cup Permutations(Msgs)
=============================================================================
