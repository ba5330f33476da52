------------------------------ MODULE MCSigning ------------------------------
(***************************************************************************)
(* Signatures that can be made, by the caller or with a key, and some that *)
(* cannot, for one reason each.                                            *)
(***************************************************************************)
EXTENDS Signing

Env(general, ofFormat) == [general |-> general, ofFormat |-> ofFormat]

PGPKey(private, canSign, lock) == [private |-> private, canSign |-> canSign, lock |-> lock]

RSAKey(block, lock) == [block |-> block, lock |-> lock]

Signature(fn, file, keys, keyID, env) ==
    [fn |-> fn, file |-> file, keys |-> keys, keyID |-> keyID, env |-> env]

KeyFile(keys, keyID, env) == Signature(FALSE, TRUE, keys, keyID, env)

Open   == PGPKey(TRUE, TRUE, "")
Locked == PGPKey(TRUE, TRUE, "secret")
Public == PGPKey(FALSE, TRUE, "")

Unsigned == Signature(FALSE, FALSE, {}, "", Env("", ""))
ByCaller == Signature(TRUE, FALSE, {}, "no number", Env("", ""))
Plain    == KeyFile({Open, Public}, "", Env("", ""))
Unlocked == KeyFile({Locked, PGPKey(TRUE, FALSE, "")}, "hexadecimal", Env("other", "secret"))
Shut     == KeyFile({Locked}, "", Env("other", ""))
Several  == KeyFile({Open, Locked}, "", Env("secret", ""))
BadKeyID == KeyFile({Open}, "no number", Env("", ""))

RSAPlain   == KeyFile({RSAKey("RSA PRIVATE KEY", "")}, "", Env("", ""))
RSALocked  == KeyFile({RSAKey("PRIVATE KEY", "secret")}, "", Env("secret", ""))
RSAOther   == KeyFile({RSAKey("EC PRIVATE KEY", "")}, "", Env("", ""))
==============================================================================
