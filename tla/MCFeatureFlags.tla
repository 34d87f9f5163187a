---------------------------- MODULE MCFeatureFlags ----------------------------
\* Small instances of FeatureFlags for TLC.
EXTENDS FeatureFlags
=============================================================================
