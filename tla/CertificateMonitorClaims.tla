----------------------- MODULE CertificateMonitorClaims -----------------------
(***************************************************************************)
(* What the comments of the source say of the status, and the code does    *)
(* not do.                                                                 *)
(***************************************************************************)
EXTENDS CertificateMonitor

\* "LastNotificationTime records when the last aggregated notification was
\* sent" (certificatemonitor_types.go L125): a pass that updates it handed the
\* certificates to some channel.
RecordedMeansSent == [][UpdateStatus /\ sent => delivered # {}]_vars

\* "Update Status ONLY IF Meaningful Changes Detected" (L179-181): a pass that
\* sent nothing and found the same certificates in the same state as the status
\* lists leaves the status alone.
SameCertificates(slice, infos) ==
  {[i EXCEPT !.zone = "UTC"] : i \in slice.items} = infos
OnlyMeaningfulUpdates ==
  [][UpdateStatus /\ MeaningfulChange => sent \/ ~SameCertificates(store.list, found)]_vars
=============================================================================
