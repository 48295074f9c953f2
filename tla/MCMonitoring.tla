---------------------------- MODULE MCMonitoring ----------------------------
EXTENDS Monitoring
CONSTANTS c1, c2
=============================================================================
