------------------------------ MODULE MCPlayer ------------------------------
(* Instances of Player for TLC. *)
EXTENDS Player
CONSTANTS a, b
TwoInARow == <<a, b>>
Asks == [p \in Preferences |-> IF p \in {"DownloadOnly", "StreamFirstAndDownload"} THEN 1 ELSE 2]
EitherOne == {{a}, {b}}
OneBegun == [e \in {a, b} |-> IF e = a THEN 1 ELSE 0]
=============================================================================
