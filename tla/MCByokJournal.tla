----------------------------- MODULE MCByokJournal -----------------------------
\* Instances of ByokJournal for TLC.
EXTENDS ByokJournal
==============================================================================
