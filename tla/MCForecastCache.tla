-------------------------- MODULE MCForecastCache --------------------------
(***************************************************************************)
(* ForecastCache on small instances.                                       *)
(***************************************************************************)
EXTENDS ForecastCache

=============================================================================
