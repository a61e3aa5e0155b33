-------------------------- MODULE MCCaptureClients --------------------------
\* The main thread and another one.
EXTENDS CaptureClients
=============================================================================
