--------------------------- MODULE MCKafkaClients ---------------------------
EXTENDS KafkaClients
CONSTANTS s1, s2, k1, k2, k3
=============================================================================
