-------------------------- MODULE MCTrackingDetector -------------------------
(***************************************************************************)
(* Instances of TrackingDetector.  320 and 400 W are one trim apart, -400  *)
(* W is a reversal and beyond the app limit; the trims stay within the     *)
(* tolerance taken together.  A self-managed battery idles or charges.     *)
(***************************************************************************)
EXTENDS TrackingDetector

MCTrims     == {-400, 320, 400}
MCOwnPowers == {-250, 0}

=============================================================================
