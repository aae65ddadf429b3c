--------------------------- MODULE MCLibvirtConn ---------------------------
EXTENDS LibvirtConn

MCWatched == <<"lifecycle", "iteration">>
=============================================================================
