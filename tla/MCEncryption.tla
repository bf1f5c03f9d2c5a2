---------------------------- MODULE MCEncryption ----------------------------
EXTENDS Encryption, TLC

CONSTANTS m1, m2, k1, k2

MCMessages == {m1, m2}
MCKeys == {k1, k2}
MCOpenKeys == {k2}

\* Both messages are encrypted for the key k1; m2 is also for a key without a passphrase,
\* which the user may have in the browser or not.
MCKeysOf == m1 :> {k1} @@ m2 :> {k1, k2}
=============================================================================
