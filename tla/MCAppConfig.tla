---------------------------- MODULE MCAppConfig ----------------------------
\* AppConfig on small instances.
EXTENDS AppConfig

MCRequests == 1..MaxChanges \cup {Startup, Nobody}
=============================================================================
