-------------------------- MODULE MCHttp2SendQueue --------------------------
EXTENDS Http2SendQueue
=============================================================================
