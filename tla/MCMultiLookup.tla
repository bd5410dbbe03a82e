--------------------------- MODULE MCMultiLookup ---------------------------
EXTENDS MultiLookup

\* sysconf fails, or reports more processors than MAX_RESOLVER_THREADS.
MCCpus == {-1, 4}
=============================================================================
