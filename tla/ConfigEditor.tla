---------------------------- MODULE ConfigEditor ----------------------------
(* The configuration tool: ui/MainFrame.cpp over the configuration model of *)
(* lib/model, the YAML file of lib/serialization and the defaults of        *)
(* AppSettings.  The window keeps m_config, the rows of m_serviceList and   *)
(* m_hasUnsavedChanges; both files outlive it and are also edited by hand,  *)
(* and the YAML file is what the load balancer starts from (Startup).       *)
(*                                                                          *)
(* Of the settings of a configuration other than its services the listen    *)
(* address, the listen port and the routing algorithm are kept; the rest is *)
(* loaded and saved like them.  A file may leave each of them out.          *)
(* The weight of a service is checked, stored and saved like its port, and  *)
(* nothing reads it: it is left out.                                        *)
EXTENDS AppSettings, Startup

CONSTANTS Names, Ips, TypedPorts,   \* what a user types, numbers of any size included
          AlgorithmTexts,           \* what a file may hold as the routing algorithm
          HandWritten,              \* services of hand-edited files
          HandKeys,                 \* and their settings
          HandToml,                 \* hand-edited settings files
          MaxServices,              \* bound: services of a configuration
          MaxHandWritten,           \* bound: entries of a hand-edited file
          WritesMayFail             \* the disk may fill up while the file is written

ASSUME ConfigEditorAssumption ==
    /\ TypedPorts \subseteq Nat
    /\ Ips \subseteq Texts
    /\ Algorithms \subseteq AlgorithmTexts
    /\ MaxServices \in Nat \ {0} /\ MaxHandWritten \in 0..MaxServices
    /\ WritesMayFail \in BOOLEAN

VARIABLES open,      \* the window exists
          config,    \* *m_config
          rows,      \* the rows of m_serviceList
          unsaved,   \* m_hasUnsavedChanges
          file,      \* what is at GetConfigFilePath()
          toml       \* what is at bitbridge-settings.toml

vars == <<open, config, rows, unsaved, file, toml>>

NoName  == ""
MaxPort == 65535

\* as<uint16_t>() throws on a number beyond 16 bits: the listen port of a
\* file, and an entry with such a port.
Unreadable == <<65536>>
BadEntry   == [name |-> NoName, ip |-> <<EmptyPart>>, port |-> 65536]

\* Load() takes any text for a name and an address, none at all included.
Service == [name : Names \cup {NoName}, ip : Texts, port : 0..MaxPort]
Settings == [address : Texts, port : 0..MaxPort, algorithm : AlgorithmTexts]
TypedServices == [name : Names \cup {NoName}, ip : Ips, port : TypedPorts]

Optional(S) == {k \in Seq(S) : Len(k) <= 1}
FileKeys == [address : Optional(Texts), port : Optional(0..MaxPort) \cup {Unreadable},
             algorithm : Optional(AlgorithmTexts)]

\* A key of a settings file holds a number of any size, or any text.
TomlFiles == [kind : {"absent", "table"},
              keys : [address : Optional(Texts), port : Optional(Int),
                      algorithm : Optional(AlgorithmTexts)]]

\* What can be read from files written by hand has the types of the code.
ASSUME HandWrittenAssumption ==
    /\ HandWritten \subseteq Service
    /\ HandKeys \subseteq FileKeys
    /\ HandToml \subseteq TomlFiles

\* No file, text that is not YAML, or a YAML document
Absent  == [kind |-> "absent", keys |-> NoKeys, entries |-> <<>>]
Garbage == [kind |-> "garbage", keys |-> NoKeys, entries |-> <<>>]
Yaml(keys, entries) == [kind |-> "yaml", keys |-> keys, entries |-> entries]

HandWrittenFiles ==
    {Absent, Garbage} \cup
    {Yaml(k, e) : k \in HandKeys, e \in BoundedSeq(HandWritten \cup {BadEntry}, MaxHandWritten)}

\* The default constructor, and what ApplyDefaultConfig() makes of it
BuiltIn == [settings |-> BuiltInSettings, services |-> <<>>]
ApplyDefaultConfig == [settings |-> LoadFromFile(toml), services |-> <<>>]

Configs == [settings : Settings, services : Seq(Service)]
Files == [kind : {"absent", "garbage", "yaml"},
          keys : FileKeys,
          entries : Seq(Service \cup {BadEntry})]

TypeOK ==
    /\ open \in BOOLEAN /\ unsaved \in BOOLEAN
    /\ config \in Configs
    /\ rows \in Seq(Service)
    /\ file \in Files /\ toml \in TomlFiles

Init ==
    /\ open = FALSE
    /\ config = BuiltIn
    /\ rows = <<>>
    /\ unsaved = FALSE
    /\ file \in {Absent, Garbage}
    /\ toml \in HandToml

-----------------------------------------------------------------------------
(* YamlConfigSerializer.                                                    *)

\* Mutant: an entry that does not convert is kept as it is.
ConvertedAll(entries) == entries

\* The entries in front of the first one that does not convert
Converted(entries) ==
    LET bad == SelectInSeq(entries, LAMBDA e : e = BadEntry)
    IN  IF bad = 0 THEN entries ELSE SubSeq(entries, 1, bad - 1)

\* Load(): what it returns and what it leaves in the configuration it is
\* given.  That is cleared first and then filled in place, so a port that does
\* not convert ends the loading half way: behind the listen address, or
\* behind the services in front of the entry.
Load(into) ==
    LET old       == into.settings
        address   == ValueOr(file.keys.address, old.address)
        port      == ValueOr(file.keys.port, old.port)
        algorithm == ValueOr(file.keys.algorithm, old.algorithm)
        services  == Converted(file.entries)
    IN  CASE file.kind # "yaml" -> [ok |-> FALSE, config |-> into]
          [] file.kind = "yaml" /\ file.keys.port = Unreadable ->
               [ok |-> FALSE, config |-> [settings |-> [old EXCEPT !.address = address],
                                          services |-> <<>>]]
          [] OTHER ->
               [ok |-> services = file.entries,
                config |-> [settings |-> [address |-> address, port |-> port,
                                          algorithm |-> algorithm],
                            services |-> services]]

\* What is left of an address, of a number, of the settings and of the entry of
\* a service when the text ends inside them: something shorter, and nothing
\* behind it.  An address without its last digit may be one too; a key without a
\* value does not convert; a name that is cut is another text, for which NoName
\* stands; a cut algorithm is none of strategyFactory.
CutText(ip) ==
    LET last == Last(ip)
    IN  {<<EmptyPart>>,
         Front(ip) \o <<IF last.size \in 2..3
                        THEN [last EXCEPT !.size = @ - 1, !.value = @ \div 10]
                        ELSE EmptyPart>>}

CutNumber(n) == IF n < 10 THEN 65536 ELSE n \div 10

CutKeys(s) ==
    {NoKeys, Keys(<<s.address>>, <<CutNumber(s.port)>>, <<>>), Keys(<<s.address>>, <<s.port>>, <<>>),
     AllKeys(s)}
    \cup {Keys(<<text>>, <<>>, <<>>) : text \in CutText(s.address)}
    \cup {Keys(<<s.address>>, <<s.port>>, <<text>>) : text \in AlgorithmTexts \ Algorithms}

CutEntries(s) ==
    {BadEntry, [name |-> NoName, ip |-> <<EmptyPart>>, port |-> 0],
     IF s.port < 10 THEN BadEntry ELSE [s EXCEPT !.port = CutNumber(@)]}
    \cup {[s EXCEPT !.ip = text, !.port = 0] : text \in CutText(s.ip)}

\* What is on the disk when not all the text of a configuration was written:
\* a beginning that is no YAML, or a document that ends in the settings, behind
\* a service or in one.
Truncated ==
    LET whole(i) == SubSeq(config.services, 1, i - 1)
    IN  {Garbage} \cup {Yaml(k, <<>>) : k \in CutKeys(config.settings)}
        \cup UNION {{Yaml(AllKeys(config.settings), whole(i) \o cut) :
                      cut \in {<<>>} \cup {<<e>> : e \in CutEntries(config.services[i])}} :
                    i \in 1..Len(config.services)}

\* How Save() ends: [file, result].  The stream is not looked at after <<,
\* and create_directories() throws what no handler catches.
SaveOutcomes ==
    {[file |-> Yaml(AllKeys(config.settings), config.services), result |-> "ok"],
     [file |-> file, result |-> "error"],
     [file |-> file, result |-> "throws"]} \cup
    {[file |-> f, result |-> "ok"] : f \in IF WritesMayFail THEN Truncated ELSE {}}

-----------------------------------------------------------------------------
(* The world outside the window.                                            *)

EditByHand(f) ==
    /\ file' = f
    /\ UNCHANGED <<open, config, rows, unsaved, toml>>

EditSettings(t) ==
    /\ toml' = t
    /\ UNCHANGED <<open, config, rows, unsaved, file>>

\* Nobody handles wxEVT_CLOSE: the window goes, with whatever was not saved.
Close ==
    /\ open
    /\ open' = FALSE
    /\ config' = BuiltIn /\ rows' = <<>> /\ unsaved' = FALSE
    /\ UNCHANGED <<file, toml>>

\* The process is killed between opening the file, which empties it, and the
\* end of the write.
DieWhileSaving ==
    /\ open
    /\ file' \in Truncated
    /\ open' = FALSE
    /\ config' = BuiltIn /\ rows' = <<>> /\ unsaved' = FALSE
    /\ UNCHANGED toml

-----------------------------------------------------------------------------
(* MainFrame.                                                               *)

\* BitBridgeApp::OnInit(): LoadFromFile() writes the settings file if there
\* is none, and nobody looks at what comes of it.
OnInit ==
    toml' \in IF toml.kind = "absent" THEN {NoToml, SaveToFile(BuiltInSettings)} ELSE {toml}

\* Loads into the live configuration and looks only at success.
LoadExistingConfig(live) ==
    /\ config' = Load(live).config
    /\ rows' = IF Load(live).ok THEN Load(live).config.services ELSE <<>>

MarkUnsaved == unsaved' = TRUE
MarkSaved   == unsaved' = FALSE

\* The window appears: the end of its constructor.
Start ==
    /\ ~open
    /\ open' = TRUE
    /\ OnInit
    /\ LoadExistingConfig(ApplyDefaultConfig)
    /\ MarkSaved
    /\ UNCHANGED file

\* Mutant: the port has no upper limit.
ValidateInputUnbounded(in) == in.name # NoName /\ IsValidIpv4(in.ip) /\ in.port # 0

ValidateInput(in) ==
    in.name # NoName /\ IsValidIpv4(in.ip) /\ in.port # 0 /\ in.port <= MaxPort

\* static_cast<uint16_t>(portVal)
Stored(in) == [in EXCEPT !.port = @ % 65536]

\* Mutant: looks at names only.
DuplicateName(s) == \E i \in 1..Len(config.services) : config.services[i].name = s.name

Duplicate(s) ==
    \E i \in 1..Len(config.services) :
        LET existing == config.services[i]
        IN  existing.name = s.name \/ (existing.ip = s.ip /\ existing.port = s.port)

\* Mutant: the list is not refreshed.
ShowStale == UNCHANGED rows

\* RefreshServiceList()
RefreshServiceList == rows' = config'.services

OnAddService(in) ==
    /\ open
    /\ Len(config.services) < MaxServices
    /\ ValidateInput(in) /\ ~Duplicate(Stored(in))
    /\ config' = [config EXCEPT !.services = Append(@, Stored(in))]
    /\ RefreshServiceList
    /\ MarkUnsaved
    /\ UNCHANGED <<open, file, toml>>

RemoveService(services, i) == IF i \in DOMAIN services THEN RemoveAt(services, i) ELSE services

\* Mutant: removes in the order of the list.
RemoveSelectedForwards(services, selected) ==
    LET after[i \in 0..Len(services)] ==
          IF i = 0 THEN services
          ELSE IF i \in selected THEN RemoveService(after[i - 1], i) ELSE after[i - 1]
    IN  after[Len(services)]

\* In reverse order, so indices stay valid: after[i] is what is left when the
\* selected rows from i on have been removed.
RemoveSelected(services, selected) ==
    LET after[i \in 1..Len(services) + 1] ==
          IF i > Len(services) THEN services
          ELSE IF i \in selected THEN RemoveService(after[i + 1], i) ELSE after[i + 1]
    IN  after[1]

OnRemoveService(selected) ==
    /\ open
    /\ selected # {}
    /\ config' = [config EXCEPT !.services = RemoveSelected(@, selected)]
    /\ RefreshServiceList
    /\ MarkUnsaved
    /\ UNCHANGED <<open, file, toml>>

\* Mutant: keeps what Load() left behind when it failed.
LoadedInPlace == Load(config)

\* Loaded into a new configuration, which replaces the old one on success
LoadedAfresh == LET new == Load(BuiltIn)
                IN  IF new.ok THEN new ELSE [ok |-> FALSE, config |-> config]

OnLoadConfig ==
    /\ open
    /\ file.kind # "absent"
    /\ config' = LoadedAfresh.config
    /\ IF LoadedAfresh.ok THEN RefreshServiceList /\ MarkSaved
                          ELSE UNCHANGED <<rows, unsaved>>
    /\ UNCHANGED <<open, file, toml>>

\* Mutant: clears the mark whatever Save() returned.
SavedAnyway(result) == MarkSaved

MarkAfterSave(result) == IF result = "ok" THEN MarkSaved ELSE UNCHANGED unsaved

OnSaveConfig ==
    /\ open
    /\ \E o \in SaveOutcomes :
         /\ file' = o.file
         /\ IF o.result = "throws"
            THEN open' = FALSE /\ config' = BuiltIn /\ rows' = <<>> /\ unsaved' = FALSE
            ELSE MarkAfterSave(o.result) /\ UNCHANGED <<open, config, rows>>
    /\ UNCHANGED toml

Next ==
    \/ \E f \in HandWrittenFiles : EditByHand(f)
    \/ \E t \in HandToml : EditSettings(t)
    \/ Close
    \/ DieWhileSaving
    \/ Start
    \/ \E in \in TypedServices : OnAddService(in)
    \/ \E selected \in SUBSET DOMAIN rows : OnRemoveService(selected)
    \/ OnLoadConfig
    \/ OnSaveConfig

Spec == Init /\ [][Next]_vars

-----------------------------------------------------------------------------
(* Properties.                                                              *)

\* The rows OnRemoveService() takes its indices from are the services they
\* index, whatever was loaded, edited or half loaded before.
RowsAreServices == rows = <<>> \/ rows = config.services

\* Removing rows takes away the selected services and no other, and keeps the
\* order of the rest, although every RemoveService() shifts the indices: a row
\* that stays comes after exactly the rows that stay in front of it.
RemovesWhatIsSelected ==
    [][ \A selected \in SUBSET DOMAIN rows : OnRemoveService(selected) =>
          LET kept == DOMAIN rows \ selected
          IN  /\ Len(config'.services) = Cardinality(kept)
              /\ \A i \in kept :
                   config'.services[Cardinality({j \in kept : j <= i})] = rows[i] ]_vars

\* Of what the window takes for a service with a name and a port from 1 to
\* 65535, the hand-written IPv4 check lets pass exactly the addresses that
\* make_address() takes later, in the load balancer: no text passes here and
\* throws there, and no IPv4 address is turned away.
Ipv4CheckExact ==
    open => \A in \in TypedServices :
              in.name # NoName /\ in.port \in 1..MaxPort => (ValidateInput(in) <=> MakeAddress(in.ip))

\* A configuration the load balancer serves with when its port is free, each
\* service once and at an address to connect to; or one that becomes so with
\* its first service
Usable(c) ==
    IF c.services = <<>>
    THEN c.settings.algorithm \in Algorithms /\ ~CannotListen(c, TRUE)
    ELSE /\ Main([ok |-> TRUE, config |-> c], TRUE) = "serves"
         /\ \A i, j \in DOMAIN c.services :
              /\ c.services[i].port # 0
              /\ i # j => <<c.services[i].ip, c.services[i].port>>
                          # <<c.services[j].ip, c.services[j].port>>

\* Editing never makes a usable configuration unusable: what OnAddService()
\* lets through, the IPv4 check included, is all that main() and the
\* make_address() of later probes and sessions ask for.
EditsKeepUsable == [][ open /\ unsaved' /\ Usable(config) => Usable(config') ]_vars

\* A service is added as it was typed: no number that ValidateInput() lets
\* through is another one in the 16 bits that OnAddService() stores, shows,
\* saves and looks for duplicates of.
AddedAsTyped ==
    [][ unsaved' /\ Len(config'.services) > Len(config.services) =>
          \A in \in TypedServices : OnAddService(in) => Last(config'.services) = in ]_vars

\* What an edit makes of the configuration: one more service, or fewer
Edited ==
    /\ config'.settings = config.settings
    /\ \/ \E in \in TypedServices : config'.services = Append(config.services, in)
       \/ \E selected \in SUBSET DOMAIN rows :
            config'.services = RemoveSelected(config.services, selected)

\* The configuration of an open window changes by an edit or is replaced by
\* all of a file, never by part of one; the list shows what it then holds, and
\* the mark tells which of the two it was.  A load that fails half way leaves
\* the configuration, edited or not.
NoPartialLoad ==
    [][ open /\ open' /\ config' # config =>
          /\ rows' = config'.services
          /\ IF unsaved' THEN Edited
             ELSE Load(BuiltIn) = [ok |-> TRUE, config |-> config'] ]_vars

\* The mark of unsaved edits is taken away, with the window open, only when the
\* file holds exactly the configuration on display, so that the load balancer
\* gets it whole; a save of edits that fails, or throws and takes the window
\* with it, leaves the file as it was.
SavedMeansStored ==
    [][ unsaved =>
          /\ open' /\ ~unsaved' => Load(BuiltIn)' = [ok |-> TRUE, config |-> config']
          /\ OnSaveConfig /\ file' # file =>
               open' /\ ~unsaved' /\ Load(BuiltIn)' = [ok |-> TRUE, config |-> config] ]_vars
=============================================================================
