------------------------------- MODULE MCEvlFlag -------------------------------
\* Constants for EvlFlag come from the configuration.
EXTENDS EvlFlag
==============================================================================
