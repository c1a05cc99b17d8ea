---------------------------- MODULE MCIngestion ----------------------------
EXTENDS Ingestion

CONSTANTS first, second
=============================================================================
