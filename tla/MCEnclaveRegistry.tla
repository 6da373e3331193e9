-------------------------- MODULE MCEnclaveRegistry --------------------------
EXTENDS EnclaveRegistry

CONSTANTS debug, release
=============================================================================
