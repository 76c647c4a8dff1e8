------------------------------- MODULE MCAcq -------------------------------
EXTENDS FaAcqProps
=============================================================================
