----------------------------- MODULE MCSessions ------------------------------
EXTENDS Sessions
CONSTANTS alice, demo
=============================================================================
