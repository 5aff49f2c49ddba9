-------------------------- MODULE MCSyslogReceiver --------------------------
(* Small instances of SyslogReceiver for TLC.                              *)
EXTENDS SyslogReceiver
=============================================================================
