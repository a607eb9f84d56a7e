--------------------------- MODULE MCAlertWindows ---------------------------
(* AlertWindows with a window rule and a limit rule on one event, two        *)
(* dispatcher threads, the schedulers of two replicas and one failing call.  *)
EXTENDS AlertWindows
=============================================================================
