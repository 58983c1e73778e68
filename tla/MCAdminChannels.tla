--------------------------- MODULE MCAdminChannels ---------------------------
(* Model of the channel calls and of the iterators for TLC.                 *)
EXTENDS AdminIterators

MCAll        == Known
MCIter       == Iterating
MCNone       == {}
MCBandwidth  == {"Bandwidth"}
MCTelemetry  == {"Telemetry"}
MCTrace      == {"TraceIter"}
=============================================================================
