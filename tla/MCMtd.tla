------------------------------- MODULE MCMtd -------------------------------
EXTENDS MtdRecovery, TLC

CONSTANTS w0, w1, k0
MCLogOf == w0 :> 0 @@ w1 :> 1

\* a row, then a change of it or its removal, then another change
MCCommands == << {"replace"}, {"put", "remove"}, {"put"} >>

\* the behaviours end where the recovered server is up again
UntilRecovered == phase = "up" => crashes.up = 0
=============================================================================
