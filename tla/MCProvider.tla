----------------------------- MODULE MCProvider -----------------------------
\* One process dials another.
EXTENDS Provider

CONSTANTS client, server

OneRemote == {<<client, server>>}
=============================================================================
