-------------------------- MODULE MCSandboxMonitor --------------------------
(* SandboxMonitor with limits of two or three instead of 64 messages, 128 KiB *)
(* and 256 answers.  A body of 2 is as large as the socket takes, one of 3    *)
(* fits the queue but not the socket.                                         *)
EXTENDS SandboxMonitor

MCReportSizes == {1, 2}
MCSmallReports == {1}
MCDetailSizes == {3}
MCNoDetails == {}
=============================================================================
