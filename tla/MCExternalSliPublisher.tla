----------------------- MODULE MCExternalSliPublisher -----------------------
(* Instances of ExternalSliPublisher small enough for TLC.                  *)
EXTENDS ExternalSliPublisher

(* A fast answer, a success slower than every bucket, and an error status.  *)
MCProbeOutcomes ==
  {[status |-> 200, elapsed_us |-> 100999],
   [status |-> 204, elapsed_us |-> 6000000],
   [status |-> 503, elapsed_us |-> 20000]}

(* Enough where a property does not look at the probe's result.             *)
MCOneOutcome == {[status |-> 200, elapsed_us |-> 100999]}
=============================================================================
