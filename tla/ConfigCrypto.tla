---------------------------- MODULE ConfigCrypto ----------------------------
(***************************************************************************)
(* The configuration of a payment channel at rest and on display           *)
(* (internal/service/config_crypto.go over pkg/security/encryption.go).    *)
(*                                                                         *)
(* transformConfigValue walks the JSON and looks at its strings one by     *)
(* one, with the name of the nearest enclosing member, so a configuration  *)
(* is taken as a function from such names to texts.  Seal draws a fresh    *)
(* nonce; two ciphertexts of one text under one key are not told apart.    *)
(***************************************************************************)

CONSTANTS
  Fields,      \* names of members
  Sensitive,   \* those that isSensitiveConfigKey lists (they contain "secret",
               \* "private_key", "public_key", "api_key", "token" or "password");
               \* WeChat's api_v3_key, a secret, is not among them
  Texts,       \* texts, among them Empty and Stars
  Empty,       \* ""
  Stars,       \* "******"
  MasterKeys,  \* values of MASTER_KEY
  NoKey        \* MASTER_KEY is not set

ASSUME FieldAssumption == Sensitive \subseteq Fields
ASSUME TextAssumption == Empty \in Texts /\ Stars \in Texts /\ Empty # Stars
ASSUME KeyAssumption == NoKey \notin MasterKeys

\* A string of the configuration: a text, or the ciphertext of one behind "enc:v1:".
Value == [text : Texts, seal : MasterKeys \cup {NoKey}]
Plain(t) == [text |-> t, seal |-> NoKey]
Sealed(t, key) == [text |-> t, seal |-> key]
IsEncryptedValue(v) == v.seal # NoKey

Config == [Fields -> Value]
PlainConfig == [Fields -> {Plain(t) : t \in Texts}]

\* The strings that transformConfigValue changes at all.
Transformed(f, v) == (f \in Sensitive \/ IsEncryptedValue(v)) /\ v # Plain(Empty)

\* encryptConfigJSON: its error, and otherwise its result.
EncryptFails(c, key) ==
  key = NoKey /\ \E f \in Fields : Transformed(f, c[f]) /\ ~IsEncryptedValue(c[f])

EncryptConfig(c, key) ==
  [f \in Fields |->
     IF Transformed(f, c[f]) /\ ~IsEncryptedValue(c[f]) THEN Sealed(c[f].text, key) ELSE c[f]]

\* decryptConfigJSON: AES-GCM refuses a text sealed with another key.
DecryptFails(c, key) ==
  \E f \in Fields : IsEncryptedValue(c[f]) /\ c[f].seal # key

DecryptConfig(c) ==
  [f \in Fields |-> IF IsEncryptedValue(c[f]) THEN Plain(c[f].text) ELSE c[f]]

\* MaskSensitiveConfigJSON.
MaskConfig(c) ==
  [f \in Fields |-> IF Transformed(f, c[f]) THEN Plain(Stars) ELSE c[f]]

\* No listed member of c can be read.
Unreadable(c) ==
  \A f \in Sensitive : IsEncryptedValue(c[f]) \/ c[f].text \in {Empty, Stars}
=============================================================================
