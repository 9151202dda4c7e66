------------------------------ MODULE MCVault ------------------------------
(* Small instances of the vault for TLC. *)
EXTENDS Vault

\* Fresh from init.
Fresh == <<TokenIssued(1, "root", NoUser, NoScope, Never)>>

\* An account, its session, a project with an environment, and a secret in it.
Settled ==
    Fresh \o <<UserCreated(2, "ann"),
               TokenIssued(3, "session", 2, NoScope, Never),
               ProjectCreated(4, "app"),
               EnvironmentCreated(5, 4, "dev"),
               SecretSet(<<4, 5, "key">>, "v1")>>

\* The same, with a second environment and a machine token for the first.
Shared ==
    Settled \o <<EnvironmentCreated(7, 4, "prod"),
                 TokenIssued(8, "machine", NoUser, <<4, 5>>, Never)>>

FromSettled == {[records |-> Settled, room |-> 4]}
FromFreshOrShared == {[records |-> Fresh, room |-> 4], [records |-> Shared, room |-> 2]}

NoBatches == {}
Single == {<<<<"key", "v1">>>>}
Bulk == {<<<<"key", "v2">>, <<"key2", "big">>>>}
=============================================================================
