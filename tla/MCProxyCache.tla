---------------------------- MODULE MCProxyCache ----------------------------
EXTENDS ProxyCache, TLC

\* The threads differ in nothing but their connection.
ThreadSymmetry == Permutations(Threads)
=============================================================================
