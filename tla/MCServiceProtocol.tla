-------------------------- MODULE MCServiceProtocol --------------------------
EXTENDS ServiceProtocol
=============================================================================
