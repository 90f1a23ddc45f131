------------------------ MODULE MCTokenlessService ------------------------
(* Instances of TokenlessService for TLC.                                  *)
EXTENDS TokenlessService

\* The service is never taken down.
StaysInited == inited'
=============================================================================
