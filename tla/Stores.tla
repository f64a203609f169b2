-------------------------------- MODULE Stores --------------------------------
(***************************************************************************)
(* PassKeyring, WinCred and KWallet, each on its own with its processes:   *)
(* the initial state says which of them a behaviour is about.              *)
(***************************************************************************)
EXTENDS KeyringCalls

CONSTANTS Client, Services, Nothing, Broken,
          PassFaults, CredFaults, WalletFaults   \* the Faults of each

VARIABLES backend, call, pc, result,
          files, visit, found,    \* of PassKeyring
          service, creds,         \* of WinCred
          entries, valid          \* of KWallet

Pass == INSTANCE PassKeyring
          WITH Absent <- Nothing, Damaged <- Broken, Faults <- PassFaults
Cred == INSTANCE WinCred WITH NoCred <- Nothing, Faults <- CredFaults
Wallet == INSTANCE KWallet WITH NoEntry <- Nothing, Faults <- WalletFaults

ASSUME StoresAssumption ==
  Pass!PassAssumption /\ Cred!WinCredAssumption /\ Wallet!KWalletAssumption

passVars == <<files, visit, found>>
credVars == <<service, creds>>
walletVars == <<entries, valid>>
vars == <<backend, call, pc, result, passVars, credVars, walletVars>>

NoPass == files = Nothing /\ visit = Nothing /\ found = Nothing
NoCreds == service = Nothing /\ creds = Nothing
NoWallet == entries = Nothing /\ valid = Nothing

Init ==
  \/ backend = "pass" /\ Pass!Init /\ NoCreds /\ NoWallet
  \/ backend = "wincred" /\ Cred!Init /\ NoPass /\ NoWallet
  \/ backend = "kwallet" /\ Wallet!Init /\ NoPass /\ NoCreds

Next ==
  \/ backend = "pass" /\ Pass!Next /\ UNCHANGED <<backend, credVars, walletVars>>
  \/ backend = "wincred" /\ Cred!Next /\ UNCHANGED <<backend, passVars, walletVars>>
  \/ backend = "kwallet" /\ Wallet!Next /\ UNCHANGED <<backend, passVars, credVars>>

Spec == Init /\ [][Next]_vars

\* Each backend keeps its variables in their types.
TypeOK == CASE backend = "pass" -> Pass!TypeOK
            [] backend = "wincred" -> Cred!TypeOK
            [] backend = "kwallet" -> Wallet!TypeOK

\* PassKeyring!Contract, for the behaviours that are about pass (pass.go:73-166).
PassContract ==
  /\ backend = "pass" => Pass!C!CInit
  /\ [][backend = "pass" => [Pass!ContractStep]_<<Pass!Stored, call, Pass!DueNow>>]_vars

\* WinCred!Contract, for the Windows Credential Manager (wincred.go:46-94).
WinCredContract ==
  /\ backend = "wincred" => Cred!C!CInit
  /\ [][backend = "wincred" => [Cred!ContractStep]_<<Cred!Stored, call, Cred!DueNow>>]_vars

\* WinCred!ServicesApart: colons in names mix up services only if one name begins
\* with the other (wincred.go:96-98).
ServicesApart == [][backend = "wincred" => Cred!ApartStep]_vars

\* KWallet!Contract, for KWallet (kwallet.go:66-161).
KWalletContract ==
  /\ backend = "kwallet" => Wallet!C!CInit
  /\ [][backend = "kwallet" => [Wallet!ContractStep]_<<Wallet!Stored, call, Wallet!DueNow>>]_vars
=============================================================================
