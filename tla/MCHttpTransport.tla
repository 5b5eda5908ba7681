---------------------------- MODULE MCHttpTransport ----------------------------
\* Small instances of HttpTransport for TLC: up to three requests at once, one of
\* them endless, and two threads that abort.
EXTENDS HttpTransport, TLC
=============================================================================
