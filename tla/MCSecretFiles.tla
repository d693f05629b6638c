---------------------------- MODULE MCSecretFiles ----------------------------
(* A catalog like the repository's: the Secret that sorts first copies a    *)
(* key of the second one inside a format, as authos/credentials copies      *)
(* pg-cluster/db-credentials.                                               *)
EXTENDS SecretFiles, TLC

CONSTANTS app, db, password, username, url, token, old, d1, d2

MCSecrets == {app, db}
MCRank    == app :> 1 @@ db :> 2
MCKeys    == {password, username, url, token}
MCExtras  == {old}
MCIn      == password :> db @@ username :> db @@ url :> app @@ token :> app @@ old :> app
MCKind    == password :> "generated" @@ username :> "literal" @@ url :> "copy" @@ token :> "issued"
MCFrom    == url :> password
MCFormatted == {url}
MCDraws   == {d1, d2}
Symmetric == Permutations(MCDraws)
=============================================================================
