----------------------------- MODULE MCClusterUp -----------------------------
EXTENDS ClusterUp, TLC
CONSTANTS a, b, cpIp, vpn
=============================================================================
