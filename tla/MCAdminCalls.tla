---------------------------- MODULE MCAdminCalls ----------------------------
(* Model of executeMethod and its callers for TLC.                          *)
EXTENDS AdminCalls

\* Servers of the current API, of the older one, of both, and a proxy that
\* knows neither.
MCServers == SUBSET {"v3", "v4"}
MCAll     == Kinds
MCQuery   == {"Query"}
MCPerf    == {"ClientPerf"}
=============================================================================
