-------------------------- MODULE MCChannelManager --------------------------
(* Values for the constants of ChannelManager.                             *)
EXTENDS ChannelManager

CONSTANTS shop, k1, k2, key1

MCAppOf == [k \in Configs |-> shop]

\* A secret that isSensitiveConfigKey lists, and one that it does not.
Cfg(apiV3Key, privateKey) ==
  [f \in Fields |-> IF f = "private_key" THEN Plain(privateKey) ELSE Plain(apiV3Key)]

Blank == Cfg(Empty, Empty)
MCDefaults == [k \in Configs |-> Blank]

App == [config |-> Blank, status |-> "active"]

\* An app with one channel, whose configuration was sealed with key1.
MCTables ==
  {[x \in Resources |->
      IF x = shop THEN App
      ELSE IF x = k1 THEN [config |-> EncryptConfig(Cfg("one", "one"), key1), status |-> s]
      ELSE Absent] : s \in {"active", "disabled"}}

\* A prefix of both channels.
MCSelections == {Configs}

Create(k, c) == [op |-> "create", of |-> k, set |-> [config |-> c, status |-> "active"]]
Setup(s) == [op |-> "setup", of |-> shop, app |-> Blank, set |-> s]

MCAsks ==
  { Create(k2, Cfg("two", "one")),
    [op |-> "update", of |-> k1, set |-> [config |-> Cfg("two", "two")]],
    Deletes(k1),
    Setup(<< <<k1, Cfg("one", "two")>>, <<k2, Cfg("one", "two")>> >>),
    Setup(<< <<k2, Cfg("two", "two")>>, <<k1, Cfg("two", "two")>> >>) }
=============================================================================
