----------------------------- MODULE ConfigStore -----------------------------
(***************************************************************************)
(* One workspace's config: its two files on disk, settings.json and        *)
(* servers.config.json, and the WorkspaceStore that reads them, resolves   *)
(* them against each other and patches them (src/config/store.ts,          *)
(* parse.ts, schema.ts, services/config-watch.ts, services/panel.ts).      *)
(*                                                                         *)
(* Three writers share the files and none of them waits for another: a     *)
(* person's editor, the panel's own pages and a restore.  The store tells  *)
(* its own writes from a person's by the bytes it last saw, keeps the last *)
(* revision it could trust as `raw`, and the last usable one resolved.     *)
(*                                                                         *)
(* Of settings.json the model keeps the workspace's server defaults; of an *)
(* entry, whether it inherits them or decides for itself.  Supervisor.sync *)
(* follows `servers` in the same turn, so an entry here is an entry there. *)
(***************************************************************************)
EXTENDS Naturals

CONSTANTS
    Ids,        \* server ids
    Defaults,   \* contents of settings.json the schema accepts
    Schema,     \* the one that decides nothing: the schema's own defaults
    Own,        \* a field the entry decides itself
    Refused,    \* a text that is JSON, and not the schema's
    Broken,     \* a text that is not JSON
    Missing,    \* no file
    NoText,     \* null
    MaxEdits,   \* bound on a person's edits of the files
    MaxCalls,   \* bound on saves, restores and restarts of the panel
    Worlds      \* see World

\* refused: settings.json may be JSON the schema refuses.  vanish: a file may be gone for a while.
World == [refused : BOOLEAN, vanish : BOOLEAN]

None     == "none"
Inherit  == "inherit"
Specs    == {Inherit, Own}                  \* an entry as the file has it
Lists    == [Ids -> Specs \cup {None}]      \* servers.config.json, when usable
Values   == Defaults \cup {Own}             \* an entry resolved against the defaults
Unusable == {Refused, Broken, Missing}

ASSUME ConfigAssumption ==
    /\ Schema \in Defaults /\ MaxEdits \in Nat /\ MaxCalls \in Nat /\ Worlds \subseteq World
    /\ Own \notin Defaults \cup Unusable \cup {NoText, None, Inherit}
    /\ (Unusable \cup {NoText, None, Inherit}) \cap Defaults = {}
    /\ (Unusable \cup {NoText}) \cap Lists = {} /\ NoText \notin Unusable
    /\ Refused # Broken /\ Missing \notin {Refused, Broken}

VARIABLES
    world,      \* fixed at the start
    settingsFile, serversFile,  \* the files on disk
    up,         \* the panel runs, and so holds a store
    store,      \* the WorkspaceStore
    meant,      \* history: the entries a person last said there should be
    edits, calls

files == <<settingsFile, serversFile>>
vars  == <<world, files, up, store, meant, edits, calls>>

Store == [lastSettings : Defaults \cup Unusable \cup {NoText},
          lastServers  : Lists \cup Unusable \cup {NoText},
          liveSettings : Defaults \cup {Refused, NoText},
          liveServers  : Lists \cup {Refused, NoText},
          rawSettings  : Defaults, rawServers : Lists,
          settingsParse : BOOLEAN, serversParse : BOOLEAN,
          settingsError : BOOLEAN, serversError : BOOLEAN,
          defaults : Defaults, servers : [Ids -> Values \cup {None}]]

TypeOK ==
    /\ world \in Worlds /\ up \in BOOLEAN
    /\ settingsFile \in Defaults \cup Unusable
    /\ serversFile \in Lists \cup Unusable
    /\ store \in Store /\ meant \in SUBSET Ids
    /\ edits \in 0..MaxEdits /\ calls \in 0..MaxCalls

Empty == [i \in Ids |-> None]
Listed(list) == {i \in Ids : list[i] # None}

\* A store that has read nothing yet.
NewStore ==
    [lastSettings |-> NoText, lastServers |-> NoText,
     liveSettings |-> NoText, liveServers |-> NoText,
     rawSettings |-> Schema, rawServers |-> Empty,
     settingsParse |-> FALSE, serversParse |-> FALSE,
     settingsError |-> FALSE, serversError |-> FALSE,
     defaults |-> Schema, servers |-> Empty]

-----------------------------------------------------------------------------
(* Reading *)

\* parseServersFile: every entry merged with the defaults it is given.
Resolve(list, base) == [i \in Ids |-> IF list[i] = Inherit THEN base ELSE list[i]]

\* Settings that cannot be used give way to the schema's defaults, whatever is running.
Base(st) == IF st.liveSettings \in Defaults THEN st.liveSettings ELSE Schema

\* Slip: a file that cannot be used lists no servers.
RunningServers_Forgets(st) ==
    IF st.liveServers \in Lists THEN Resolve(st.liveServers, Base(st)) ELSE Empty

\* Slip: the servers are resolved against the defaults of the revision before.
RunningServers_OldDefaults(st) ==
    IF st.liveServers \in Lists THEN Resolve(st.liveServers, st.defaults) ELSE st.servers

\* A servers file this release cannot use keeps what is already running.
RunningServers(st) ==
    IF st.liveServers \in Lists THEN Resolve(st.liveServers, Base(st)) ELSE st.servers

\* What the next write patches: the last revision that could be used.
TrustedServers(st) == IF st.liveServers \in Lists THEN st.liveServers ELSE st.rawServers

Apply(st) ==
    LET settingsOk == st.liveSettings \in Defaults
    IN  [st EXCEPT
            !.settingsError = st.settingsParse \/ ~settingsOk,
            !.serversError  = st.serversParse \/ st.liveServers \notin Lists,
            !.defaults      = IF settingsOk THEN st.liveSettings ELSE @,
            !.rawSettings   = IF settingsOk THEN st.liveSettings ELSE @,
            !.servers       = RunningServers(st),
            !.rawServers    = TrustedServers(st)]

\* What JSON.parse leaves of a text.
Parsed(text) == IF text = Broken THEN NoText ELSE text

\* One side of a reload: an unparsable text is remembered and changes nothing live.
ReadSettings(st) ==
    [st EXCEPT !.lastSettings = settingsFile,
               !.settingsParse = IF settingsFile = Broken THEN TRUE
                                 ELSE IF settingsFile # st.lastSettings THEN FALSE ELSE @,
               !.liveSettings = IF settingsFile \notin {Broken, st.lastSettings} THEN settingsFile ELSE @]

ReadServers(st) ==
    [st EXCEPT !.lastServers = serversFile,
               !.serversParse = IF serversFile = Broken THEN TRUE
                                ELSE IF serversFile # st.lastServers THEN FALSE ELSE @,
               !.liveServers = IF serversFile \notin {Broken, st.lastServers} THEN serversFile ELSE @]

HasError(st) == st.settingsParse \/ st.settingsError \/ st.serversParse \/ st.serversError
Unread(st)   == settingsFile # st.lastSettings \/ serversFile # st.lastServers

\* The first missing file is reported and nothing else is read.
MarkGone(st) ==
    IF settingsFile = Missing THEN [st EXCEPT !.settingsError = TRUE]
                              ELSE [st EXCEPT !.serversError = TRUE]

\* Slip: a file whose bytes did not change is never looked at again.
ReloadFromDisk_ChangedOnly(st) ==
    IF Missing \in {settingsFile, serversFile} THEN MarkGone(st)
    ELSE IF Unread(st) THEN Apply(ReadServers(ReadSettings(st))) ELSE st

ReloadFromDisk(st) ==
    IF Missing \in {settingsFile, serversFile} THEN MarkGone(st)
    ELSE IF Unread(st) \/ HasError(st) THEN Apply(ReadServers(ReadSettings(st)))
    ELSE st

\* load(): a missing file is seeded first, and the bytes read become the baseline.
Seeded(text, seed) == IF text = Missing THEN seed ELSE text

LoadSettings(st, text) ==
    [st EXCEPT !.lastSettings = text, !.liveSettings = Parsed(text), !.settingsParse = (text = Broken)]

LoadServers(st, text) ==
    [st EXCEPT !.lastServers = text, !.liveServers = Parsed(text), !.serversParse = (text = Broken)]

Load(st, settings, servers) == Apply(LoadServers(LoadSettings(st, settings), servers))

-----------------------------------------------------------------------------
(* The panel *)

Called == calls < MaxCalls /\ calls' = calls + 1
Rests  == UNCHANGED <<edits, calls>>

\* The debounced watch, or the two-second poll behind it.
Poll ==
    /\ up
    /\ store' = ReloadFromDisk(store)
    /\ UNCHANGED <<world, files, up, meant>> /\ Rests

\* Every write replaces the file with a patched copy of the last trusted revision.
CommitServers(list) ==
    /\ serversFile' = list
    /\ store' = Apply([store EXCEPT !.lastServers = list, !.liveServers = list, !.serversParse = FALSE])

CommitSettings(text) ==
    /\ settingsFile' = text
    /\ store' = Apply([store EXCEPT !.lastSettings = text, !.liveSettings = text, !.settingsParse = FALSE])

\* addServer, putServer, updateServer.
SaveServer(i, spec) ==
    /\ up /\ Called
    /\ CommitServers([store.rawServers EXCEPT ![i] = spec])
    /\ meant' = meant \cup {i}
    /\ UNCHANGED <<world, settingsFile, up, edits>>

RemoveServer(i) ==
    /\ up /\ store.rawServers[i] # None /\ Called
    /\ CommitServers([store.rawServers EXCEPT ![i] = None])
    /\ meant' = meant \ {i}
    /\ UNCHANGED <<world, settingsFile, up, edits>>

\* updateDefaults; and with the defaults left alone, the other groups' updates.
SaveSettings(text) ==
    /\ up /\ Called
    /\ CommitSettings(text)
    /\ UNCHANGED <<world, serversFile, up, meant, edits>>

\* reloadAll(), after a restore of anything anywhere on the host.
ReloadAll ==
    LET settings == Seeded(settingsFile, Schema)
        servers  == Seeded(serversFile, Empty)
    IN  /\ up /\ Called
        /\ settingsFile' = settings /\ serversFile' = servers
        /\ store' = Load(store, settings, servers)
        /\ UNCHANGED <<world, up, meant, edits>>

\* A start reads the files, seeding what is missing, and refuses over a bad one.
Boots ==
    LET settings == Seeded(settingsFile, Schema)
        servers  == Seeded(serversFile, Empty)
        st       == Load(NewStore, settings, servers)
    IN  /\ ~up
        /\ settingsFile' = settings /\ serversFile' = servers
        /\ up' = ~HasError(st)
        /\ store' = IF up' THEN st ELSE NewStore
        /\ UNCHANGED <<world, meant, edits, calls>>

GoesDown ==
    /\ up /\ Called
    /\ up' = FALSE /\ store' = NewStore
    /\ UNCHANGED <<world, files, meant, edits>>

-----------------------------------------------------------------------------
(* A person at the files *)

EditServers(text) ==
    /\ edits < MaxEdits /\ edits' = edits + 1
    /\ serversFile' = text
    /\ meant' = IF text \in Lists THEN Listed(text) ELSE meant
    /\ UNCHANGED <<world, settingsFile, up, store, calls>>

EditSettings(text) ==
    /\ edits < MaxEdits /\ edits' = edits + 1
    /\ settingsFile' = text
    /\ UNCHANGED <<world, serversFile, up, store, meant, calls>>

Edit ==
    \/ \E text \in Lists \cup {Refused, Broken} : EditServers(text)
    \/ \E text \in Defaults \cup {Broken} : EditSettings(text)
    \/ world.refused /\ EditSettings(Refused)
    \/ world.vanish /\ (EditServers(Missing) \/ EditSettings(Missing))

Init ==
    /\ world \in Worlds
    /\ settingsFile = Missing /\ serversFile = Missing
    /\ up = FALSE /\ store = NewStore /\ meant = {}
    /\ edits = 0 /\ calls = 0

Save ==
    \/ \E i \in Ids, spec \in Specs : SaveServer(i, spec)
    \/ \E i \in Ids : RemoveServer(i)
    \/ \E text \in Defaults : SaveSettings(text)

Next == Edit \/ Save \/ Poll \/ ReloadAll \/ Boots \/ GoesDown

Spec == Init /\ [][Next]_vars

\* The poll is an interval timer of a running panel; a person starts the panel again.
Fairness == WF_vars(Poll) /\ WF_vars(Boots)
FairSpec == Spec /\ Fairness

-----------------------------------------------------------------------------
(* Properties *)

UsableFiles == settingsFile \in Defaults /\ serversFile \in Lists
Followed    == /\ UsableFiles
               /\ store.defaults = settingsFile
               /\ store.servers = Resolve(serversFile, settingsFile)

\* Bytes the store takes for read are in force: whatever refusals, parse errors, saves and
\* reloads went before, a store whose baseline is the files' usable bytes runs just them
\* (reloadFromDisk's and commit's bookkeeping).
ReadIsInForce ==
    up /\ UsableFiles /\ ~Unread(store) => Followed

\* A file that cannot be used costs no entry: one the panel runs goes only when a person
\* took it out of the file or removed it (apply keeps the last trusted servers).  A file
\* that is gone is excepted: a reload seeds it, empty.
RemovalIsMeant ==
    [][~world.vanish /\ up /\ up' =>
        \A i \in meant' : store.servers[i] # None => store'.servers[i] # None]_vars

\* Files that stay usable are in force in the end, with no error left on show.
Converges ==
    <>[]UsableFiles => <>[](Followed /\ ~HasError(store) /\ up)

\* docs/SERVERS.md: a file the schema rejects, or one that cannot be parsed, leaves the
\* running config alone.  So while either is unusable and no new servers file was written,
\* the poll changes no server.
TypoLeavesConfigAlone ==
    [][up /\ Poll /\ settingsFile \in Unusable /\ serversFile = store.lastServers
        => store'.servers = store.servers]_vars
=============================================================================
