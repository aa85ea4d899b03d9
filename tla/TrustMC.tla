------------------------------ MODULE TrustMC -------------------------------
EXTENDS Trust
=============================================================================
