-------------------------- MODULE MCPulseCeremony --------------------------
(* Model-checking instances of PulseCeremony. *)
EXTENDS PulseCeremony

=============================================================================
