----------------------------- MODULE MCClaimCalls -----------------------------
\* Small instances of ClaimCalls, with the definitions of MCEventPlatform.
EXTENDS ClaimCalls, MCEventPlatform
=============================================================================
