---------------------------- MODULE MCFileKeyring ----------------------------
(***************************************************************************)
(* FileKeyring on small instances: two processes, the sets of keys, items  *)
(* and passphrases given by each configuration.                            *)
(***************************************************************************)
EXTENDS FileKeyring, TLC

CONSTANTS p1, p2

\* A user who mistypes, answers nothing, or cancels; and one who does neither.
AnyAnswer == {p1, p2, NoPassphrase, Cancel}
OneAnswer == {p1}

AllButList == {"io", "crash"}
AllFaults  == {"io", "readdir", "crash"}
=============================================================================
