------------------------------- MODULE Signing -------------------------------
(***************************************************************************)
(* Who signs a package (internal/sign, and the passphrases of nfpm.go): a  *)
(* function of the caller's, or the key of a file.                         *)
(*                                                                         *)
(* A key file is what can be decoded of it: a set of keys.  A key has a    *)
(* passphrase it is locked with, or "".                                    *)
(***************************************************************************)
EXTENDS FiniteSets

(* A package is signed if there is a function or a file. *)
Signed(signature) == signature.fn \/ signature.file

(* The passphrase for a format, from two variables of the environment. *)
Passphrase(env) == IF env.ofFormat # "" THEN env.ofFormat ELSE env.general

(* The check before a key is decrypted, and what decrypting it finds out. *)
Opens(key, passphrase) == key.lock = "" \/ (passphrase # "" /\ passphrase = key.lock)

(* parseKeyID: a key id is optional and hexadecimal. *)
KeyIDParses(signature) == signature.keyID \in {"", "hexadecimal"}

Candidates(keys) == {k \in keys : k.private /\ k.canSign}

(* Mutant: the first key that can sign will do. *)
SigningKeysAny(keys, passphrase) == {k \in Candidates(keys) : Opens(k, passphrase)}

(* readSigningKey: the key it returns, as a set, for it may return none.  A *)
(* file that cannot be read or decoded has no keys.                        *)
SigningKeys(keys, passphrase) ==
    IF Cardinality(Candidates(keys)) = 1
    THEN {k \in Candidates(keys) : Opens(k, passphrase)}
    ELSE {}

(* The keys a deb or an rpm can be signed with, each as a set, which is    *)
(* empty for the caller's function; and an apk, whose key is the first     *)
(* block of the file and must be of one of two types.                      *)
PGPKeys(signature) ==
    IF signature.fn THEN {{}}
    ELSE {{k} : k \in IF KeyIDParses(signature)
                      THEN SigningKeys(signature.keys, Passphrase(signature.env)) ELSE {}}

RSAKeys(signature) ==
    IF signature.fn THEN {{}}
    ELSE {{k} : k \in {b \in signature.keys : /\ b.block \in {"RSA PRIVATE KEY", "PRIVATE KEY"}
                                              /\ Opens(b, Passphrase(signature.env))}}
==============================================================================
