----------------------------- MODULE MCKeyringCLI -----------------------------
(***************************************************************************)
(* KeyringCLI on five builds: an ordinary one for Linux, for Windows and   *)
(* for macOS, and two that leave backends out.                             *)
(***************************************************************************)
EXTENDS KeyringCLI, TLC

Build(os, tags) == [os |-> os, cgo |-> TRUE, tags |-> tags]

Builds == {Build("linux", {}), Build("windows", {}), Build("darwin", {"1password"}),
           Build("linux", {"file", "pass"}),
           Build("freebsd", {"file", "passage"})}

\* What main.go and the environment configure: neither biometrics nor a keyctl
\* scope nor a 1Password timeout, but a Connect server.
Configured == {"keychain", "op-connect"}

\* The session has a bus or not; everything is installed but passage.
AnyBus == {[dbus |-> b, kwalletOff |-> FALSE, up |-> NeedsWorld \ {"passage"}] : b \in BOOLEAN}
=============================================================================
