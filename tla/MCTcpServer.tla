----------------------------- MODULE MCTcpServer -----------------------------
EXTENDS TcpServer, TLC

Symmetry == Permutations(Clients) \cup Permutations(Threads)
=============================================================================
