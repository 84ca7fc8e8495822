---------------------------- MODULE AppSettings ----------------------------
(* The defaults of the configuration tool: ui/AppSettings.cpp over the file *)
(* bitbridge-settings.toml.  Of the defaults the listen address and the     *)
(* routing algorithm, which are taken as they are like every other text,    *)
(* and the listen port, which is narrowed like every other number, are      *)
(* kept.  A key of a file that is missing is <<>>; so is one of another     *)
(* type, which value_or() takes for missing.                                *)
EXTENDS ServiceNode

\* The constructor: listens on 0.0.0.0:8080
AnyAddress == [i \in 1..4 |-> Number(1, TRUE, 0)]
BuiltInSettings == [address |-> AnyAddress, port |-> 8080, algorithm |-> "p2c"]

Keys(address, port, algorithm) ==
    [address |-> address, port |-> port, algorithm |-> algorithm]
NoKeys == Keys(<<>>, <<>>, <<>>)
AllKeys(settings) == Keys(<<settings.address>>, <<settings.port>>, <<settings.algorithm>>)

\* A file that does not parse is Toml(NoKeys).
NoToml     == [kind |-> "absent", keys |-> NoKeys]
Toml(keys) == [kind |-> "table", keys |-> keys]

ValueOr(key, default) == IF key = <<>> THEN default ELSE key[1]

\* LoadFromFile() of a file: a parse error changes nothing, since parse_file()
\* comes first; static_cast<uint16_t> takes a number of any size.
LoadFromFile(toml) ==
    [address |-> ValueOr(toml.keys.address, BuiltInSettings.address),
     port |-> ValueOr(toml.keys.port, BuiltInSettings.port) % 65536,
     algorithm |-> ValueOr(toml.keys.algorithm, BuiltInSettings.algorithm)]

\* SaveToFile(): called when there was no file, and only then
SaveToFile(settings) == Toml(AllKeys(settings))
=============================================================================
