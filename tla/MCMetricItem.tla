---------------------------- MODULE MCMetricItem ----------------------------
EXTENDS MetricItem
CONSTANTS a, b

(* The clock goes on, or stands.                                           *)
MCSteps == {0, 1}
MCFailed == {"error", "unsupported"}
=============================================================================
