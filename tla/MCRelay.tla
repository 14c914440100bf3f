------------------------------- MODULE MCRelay --------------------------------
\* Relay in an environment that loses nothing unchecked and in one that does it all.
EXTENDS Relay

MCEnvs == {{}, Environments}
================================================================================
