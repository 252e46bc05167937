------------------------- MODULE MCCredentialSlots -------------------------
(* Small instances of CredentialSlots for TLC.                             *)
EXTENDS CredentialSlots

CONSTANT h1

\* All calls share the semaphore and the limit cache of one process.
OneProcess == [c \in Calls |-> h1]
=============================================================================
