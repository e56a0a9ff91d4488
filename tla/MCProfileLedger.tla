-------------------------- MODULE MCProfileLedger --------------------------
EXTENDS ProfileLedger
=============================================================================
