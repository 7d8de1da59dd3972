------------------------- MODULE MCCertificateMonitor -------------------------
(* Two ticks a day; an administrator switches between a specification that   *)
(* works and one with a selector that does not parse.                        *)
EXTENDS CertificateMonitorClaims, TLC

Watching(threshold, valid, scope) ==
  [threshold |-> threshold, valid |-> valid, scope |-> scope]
MCSpecs == {Watching(1, TRUE, "some"), Watching(1, FALSE, "some")}
MCWorking == {Watching(1, TRUE, "some")}
=============================================================================
