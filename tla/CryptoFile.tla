----------------------------- MODULE CryptoFile -----------------------------
(***************************************************************************)
(* encrypt_file_aes256gcm and decrypt_file_aes256gcm of crypto_file.cpp,   *)
(* and the commands of main that call them.  AES-GCM is taken to do what   *)
(* it is for: the text comes back for the key and the associated data it   *)
(* was sealed with, and otherwise the authentication fails.                *)
(***************************************************************************)
CONSTANTS
    Keys,        \* what a key may be given as
    GoodKeys,    \* those that are 32 bytes of hex
    Passes,      \* passphrases
    Aads,        \* associated data that may be given with --aad
    Unset        \* a variable, key or option that is empty or missing

ASSUME CryptoAssumption == GoodKeys \subseteq Keys /\ Unset \notin Keys \cup Passes \cup Aads

\* ACX_ENC_KEY(_FILE) and ACX_ENC_PASSPHRASE(_FILE); a file is read when the
\* variable itself is not set.
Env == [key : Keys \cup {Unset}, pass : Passes \cup {Unset}]

Or(a, b) == IF a = Unset THEN b ELSE a

Sealed(magic, secret, aad, text) ==
    [magic |-> magic, secret |-> secret, aad |-> aad, text |-> text]

\* Either function refuses with this.
Refused == [magic |-> "none", secret |-> Unset, aad |-> Unset, text |-> << >>]

Encrypt(arg, env, aad, text) ==
    LET key == Or(arg, env.key)
    IN CASE key \in GoodKeys -> Sealed("ACXEG1", key, aad, text)
         [] key = Unset /\ env.pass # Unset -> Sealed("ACXEG2", env.pass, aad, text)
         [] OTHER -> Refused

\* What decrypt has at hand to open a file with; the header decides.
SecretFor(file, arg, env) ==
    IF file.magic = "ACXEG1" THEN Or(arg, env.key) ELSE env.pass

\* Mutant of Opens: a file sealed with associated data is opened like any other.
OpensUnchecked(file, arg, env) ==
    /\ file.magic # "none" /\ SecretFor(file, arg, env) \in GoodKeys \cup Passes
    /\ file.secret = SecretFor(file, arg, env)

\* No associated data is handed to the decryption.
Opens(file, arg, env) ==
    /\ file.magic # "none" /\ SecretFor(file, arg, env) \in GoodKeys \cup Passes
    /\ file.secret = SecretFor(file, arg, env) /\ file.aad = Unset

\* The commands pass on the key of the environment, and ask that there be one.
CommandHasKey(env) == env.key # Unset
=============================================================================
