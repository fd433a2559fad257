----------------------------- MODULE MCSshTunnel -----------------------------
(* A small instance of SshTunnel: see SshTunnel.cfg. *)
EXTENDS SshTunnel
===============================================================================
