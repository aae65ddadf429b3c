--------------------------- MODULE MCSecretInstall --------------------------
EXTENDS SecretInstall

CONSTANT f2

\* The second version lacks a key, as a Secret does that is being filled.
MCMissing == {<<2, f2>>}

=============================================================================
