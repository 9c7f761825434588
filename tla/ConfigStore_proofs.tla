-------------------------- MODULE ConfigStore_proofs --------------------------
(***************************************************************************)
(* Bytes taken for read are in force and a file that cannot be used costs  *)
(* no entry, for any ids, defaults and number of edits, saves and restarts. *)
(***************************************************************************)
EXTENDS ConfigStore, TLAPS

\* What was read last, if it could be used, is what is live.
ReadIsLive(st) ==
    /\ st.lastSettings \in Defaults => st.liveSettings = st.lastSettings
    /\ st.lastServers \in Lists => st.liveServers = st.lastServers

\* What is live, if it can be used, is applied; and raw has the entries that run.
LiveIsApplied(st) ==
    /\ st.liveSettings \in Defaults => st.defaults = st.liveSettings
    /\ st.liveServers \in Lists => st.servers = Resolve(st.liveServers, Base(st))
    /\ Listed(st.servers) = Listed(st.rawServers)

\* Where files do not vanish, a panel that runs finds both.
FilesThere == ~world.vanish /\ up => Missing \notin {settingsFile, serversFile}

\* A servers file the store has not read yet lists what a person last asked for.
UnreadIsMeant ==
    up /\ serversFile \in Lists /\ serversFile # store.lastServers => meant \subseteq Listed(serversFile)

IInv == TypeOK /\ ReadIsLive(store) /\ LiveIsApplied(store) /\ FilesThere /\ UnreadIsMeant

-----------------------------------------------------------------------------
(* Resolving and applying. *)

LEMMA EmptyList == Empty \in Lists /\ Listed(Empty) = {}
  BY DEF Empty, Lists, Listed

LEMMA ResolveLists ==
  ASSUME NEW list \in Lists, NEW base \in Defaults
  PROVE  /\ Resolve(list, base) \in [Ids -> Values \cup {None}]
         /\ Listed(Resolve(list, base)) = Listed(list)
  <1>1. \A i \in Ids : list[i] \in Specs \cup {None}
    BY DEF Lists
  <1>2. base # None
    BY ConfigAssumption
  <1> QED BY <1>1, <1>2 DEF Resolve, Listed, Specs, Values, None, Inherit

LEMMA BaseType ==
  ASSUME NEW st \in Store
  PROVE  Base(st) \in Defaults
  BY ConfigAssumption DEF Base

LEMMA NewStoreFits == NewStore \in Store /\ ReadIsLive(NewStore) /\ LiveIsApplied(NewStore)
  <1>1. /\ NoText \notin Defaults /\ NoText \notin Lists /\ Schema \in Defaults
        /\ Empty \in [Ids -> Values \cup {None}]
    BY ConfigAssumption DEF Empty
  <1> QED BY <1>1, EmptyList DEF NewStore, Store, ReadIsLive, LiveIsApplied

LEMMA ApplyFields ==
  ASSUME NEW st \in Store
  PROVE  /\ Apply(st).lastSettings = st.lastSettings /\ Apply(st).lastServers = st.lastServers
         /\ Apply(st).liveSettings = st.liveSettings /\ Apply(st).liveServers = st.liveServers
         /\ Apply(st).defaults = IF st.liveSettings \in Defaults THEN st.liveSettings ELSE st.defaults
         /\ Apply(st).servers = RunningServers(st)
         /\ Apply(st).rawServers = TrustedServers(st)
         /\ Apply(st) \in Store
  <1>1. RunningServers(st) \in [Ids -> Values \cup {None}] /\ TrustedServers(st) \in Lists
    BY ResolveLists, BaseType DEF RunningServers, TrustedServers, Store
  <1> QED BY ZenonT(60), <1>1 DEF Apply, Store

LEMMA ApplyFits ==
  ASSUME NEW st \in Store, ReadIsLive(st), Listed(st.servers) = Listed(st.rawServers)
  PROVE  Apply(st) \in Store /\ ReadIsLive(Apply(st)) /\ LiveIsApplied(Apply(st))
  <1> DEFINE new == Apply(st)
  <1>1. Base(new) = Base(st)
    BY ApplyFields DEF Base
  <1>2. Listed(new.servers) = Listed(new.rawServers)
    BY ApplyFields, ResolveLists, BaseType DEF RunningServers, TrustedServers
  <1>3. new.liveServers \in Lists => new.servers = Resolve(new.liveServers, Base(new))
    BY <1>1, ApplyFields DEF RunningServers
  <1> QED BY <1>2, <1>3, ApplyFields DEF ReadIsLive, LiveIsApplied

\* An entry that ran and is not listed any more is not in the servers file that is live now.
LEMMA ApplyKeepsEntries ==
  ASSUME NEW st \in Store, NEW old \in Store, LiveIsApplied(old), st.servers = old.servers,
         NEW kept, st.liveServers \in Lists =>
                     \/ st.liveServers = old.liveServers
                     \/ kept \cap Listed(old.servers) \subseteq Listed(st.liveServers)
  PROVE  \A i \in kept : i \in Listed(old.servers) => i \in Listed(Apply(st).servers)
  <1>1. CASE st.liveServers \in Lists
    <2>1. Listed(Apply(st).servers) = Listed(st.liveServers)
      BY <1>1, ApplyFields, ResolveLists, BaseType DEF RunningServers
    <2>2. st.liveServers = old.liveServers => Listed(old.servers) = Listed(st.liveServers)
      BY <1>1, ResolveLists, BaseType DEF LiveIsApplied
    <2> QED BY <1>1, <2>1, <2>2
  <1>2. CASE st.liveServers \notin Lists
    BY <1>2, ApplyFields DEF RunningServers
  <1> QED BY <1>1, <1>2

-----------------------------------------------------------------------------
(* Reading. *)

LEMMA ReadSettingsFields ==
  ASSUME TypeOK, settingsFile # Missing, NEW st \in Store
  PROVE  LET new == ReadSettings(st) IN
         /\ new \in Store
         /\ new.lastSettings = settingsFile /\ new.lastServers = st.lastServers
         /\ new.liveSettings = IF settingsFile \notin {Broken, st.lastSettings} THEN settingsFile
                               ELSE st.liveSettings
         /\ new.liveServers = st.liveServers
         /\ new.servers = st.servers /\ new.rawServers = st.rawServers
  <1>1. /\ settingsFile # Broken => settingsFile \in Defaults \cup {Refused, NoText}
        /\ settingsFile \in Defaults \cup Unusable \cup {NoText}
    BY DEF TypeOK, Unusable
  <1> QED BY ZenonT(60), <1>1 DEF Store, ReadSettings

LEMMA ReadServersFields ==
  ASSUME TypeOK, serversFile # Missing, NEW st \in Store
  PROVE  LET new == ReadServers(st) IN
         /\ new \in Store
         /\ new.lastSettings = st.lastSettings /\ new.lastServers = serversFile
         /\ new.liveSettings = st.liveSettings
         /\ new.liveServers = IF serversFile \notin {Broken, st.lastServers} THEN serversFile
                              ELSE st.liveServers
         /\ new.servers = st.servers /\ new.rawServers = st.rawServers
  <1>1. /\ serversFile # Broken => serversFile \in Lists \cup {Refused, NoText}
        /\ serversFile \in Lists \cup Unusable \cup {NoText}
    BY DEF TypeOK, Unusable
  <1> QED BY ZenonT(60), <1>1 DEF Store, ReadServers

LEMMA ReadFields ==
  ASSUME TypeOK, Missing \notin {settingsFile, serversFile}, NEW st \in Store
  PROVE  LET new == ReadServers(ReadSettings(st)) IN
         /\ new \in Store
         /\ new.lastSettings = settingsFile /\ new.lastServers = serversFile
         /\ new.liveSettings = IF settingsFile \notin {Broken, st.lastSettings} THEN settingsFile
                               ELSE st.liveSettings
         /\ new.liveServers = IF serversFile \notin {Broken, st.lastServers} THEN serversFile
                              ELSE st.liveServers
         /\ new.servers = st.servers /\ new.rawServers = st.rawServers
  BY ReadSettingsFields, ReadServersFields

LEMMA MarkGoneFields ==
  ASSUME NEW st \in Store
  PROVE  /\ MarkGone(st) \in Store
         /\ MarkGone(st).lastSettings = st.lastSettings /\ MarkGone(st).lastServers = st.lastServers
         /\ MarkGone(st).liveSettings = st.liveSettings /\ MarkGone(st).liveServers = st.liveServers
         /\ MarkGone(st).defaults = st.defaults
         /\ MarkGone(st).servers = st.servers /\ MarkGone(st).rawServers = st.rawServers
  BY DEF MarkGone, Store

LEMMA ReadFits ==
  ASSUME TypeOK, ReadIsLive(store), LiveIsApplied(store), Missing \notin {settingsFile, serversFile}
  PROVE  LET new == ReadServers(ReadSettings(store)) IN
         new \in Store /\ ReadIsLive(new) /\ Listed(new.servers) = Listed(new.rawServers)
  <1> DEFINE new == ReadServers(ReadSettings(store))
  <1>1. store \in Store
    BY DEF TypeOK
  <1>2. Broken \notin Defaults /\ Broken \notin Lists
    BY ConfigAssumption DEF Unusable
  <1>3. ReadIsLive(new)
    BY <1>1, <1>2, ReadFields DEF ReadIsLive
  <1> QED BY <1>1, <1>3, ReadFields DEF LiveIsApplied

LEMMA ReloadFits ==
  ASSUME TypeOK, ReadIsLive(store), LiveIsApplied(store)
  PROVE  LET new == ReloadFromDisk(store) IN
         new \in Store /\ ReadIsLive(new) /\ LiveIsApplied(new)
  <1>1. store \in Store
    BY DEF TypeOK
  <1>2. CASE Missing \in {settingsFile, serversFile}
    BY <1>1, <1>2, MarkGoneFields DEF ReloadFromDisk, ReadIsLive, LiveIsApplied, Base
  <1>3. CASE Missing \notin {settingsFile, serversFile} /\ (Unread(store) \/ HasError(store))
    BY <1>3, ReadFits, ApplyFits DEF ReloadFromDisk
  <1>4. CASE Missing \notin {settingsFile, serversFile} /\ ~(Unread(store) \/ HasError(store))
    BY <1>1, <1>4 DEF ReloadFromDisk
  <1> QED BY <1>2, <1>3, <1>4

LEMMA ParsedText ==
  ASSUME NEW text
  PROVE  /\ text \in Defaults \cup {Refused, Broken} => Parsed(text) \in Defaults \cup {Refused, NoText}
         /\ text \in Lists \cup {Refused, Broken} => Parsed(text) \in Lists \cup {Refused, NoText}
         /\ text \in Defaults \cup Lists => Parsed(text) = text
  BY ConfigAssumption DEF Parsed, Unusable

LEMMA LoadSettingsFields ==
  ASSUME NEW st \in Store, NEW text \in Defaults \cup {Refused, Broken}
  PROVE  LET new == LoadSettings(st, text) IN
         /\ new \in Store
         /\ new.lastSettings = text /\ new.lastServers = st.lastServers
         /\ new.liveSettings = Parsed(text) /\ new.liveServers = st.liveServers
         /\ new.servers = st.servers /\ new.rawServers = st.rawServers
  <1>1. Parsed(text) \in Defaults \cup {Refused, NoText} /\ text \in Defaults \cup Unusable \cup {NoText}
    BY ParsedText DEF Unusable
  <1>2. CASE text = Broken
    BY ZenonT(60), <1>1, <1>2 DEF LoadSettings, Store
  <1>3. CASE text # Broken
    BY ZenonT(60), <1>1, <1>3 DEF LoadSettings, Store
  <1> QED BY <1>2, <1>3

LEMMA LoadServersFields ==
  ASSUME NEW st \in Store, NEW text \in Lists \cup {Refused, Broken}
  PROVE  LET new == LoadServers(st, text) IN
         /\ new \in Store
         /\ new.lastSettings = st.lastSettings /\ new.lastServers = text
         /\ new.liveSettings = st.liveSettings /\ new.liveServers = Parsed(text)
         /\ new.servers = st.servers /\ new.rawServers = st.rawServers
  <1>1. Parsed(text) \in Lists \cup {Refused, NoText} /\ text \in Lists \cup Unusable \cup {NoText}
    BY ParsedText DEF Unusable
  <1>2. CASE text = Broken
    BY ZenonT(60), <1>1, <1>2 DEF LoadServers, Store
  <1>3. CASE text # Broken
    BY ZenonT(60), <1>1, <1>3 DEF LoadServers, Store
  <1> QED BY <1>2, <1>3

LEMMA LoadFits ==
  ASSUME NEW st \in Store, LiveIsApplied(st), NEW settings \in Defaults \cup {Refused, Broken},
         NEW servers \in Lists \cup {Refused, Broken}
  PROVE  LET new == Load(st, settings, servers) IN
         /\ new \in Store /\ ReadIsLive(new) /\ LiveIsApplied(new)
         /\ new.lastSettings = settings /\ new.lastServers = servers
         /\ \A kept : (servers \in Lists => kept \cap Listed(st.servers) \subseteq Listed(servers))
                      => kept \cap Listed(st.servers) \subseteq Listed(new.servers)
  <1> DEFINE mid == LoadServers(LoadSettings(st, settings), servers)
  <1>1. Load(st, settings, servers) = Apply(mid)
    BY DEF Load
  <1>2. /\ mid \in Store /\ mid.lastSettings = settings /\ mid.lastServers = servers
        /\ mid.liveSettings = Parsed(settings) /\ mid.liveServers = Parsed(servers)
        /\ mid.servers = st.servers /\ mid.rawServers = st.rawServers
    BY LoadSettingsFields, LoadServersFields
  <1> HIDE DEF mid
  <1>3. ReadIsLive(mid) /\ Listed(mid.servers) = Listed(mid.rawServers)
    BY <1>2, ParsedText DEF ReadIsLive, LiveIsApplied
  <1>4. Apply(mid) \in Store /\ ReadIsLive(Apply(mid)) /\ LiveIsApplied(Apply(mid))
    BY <1>2, <1>3, ApplyFits
  <1>5. Apply(mid).lastSettings = settings /\ Apply(mid).lastServers = servers
    BY <1>2, ApplyFields
  <1>6. ASSUME NEW kept, servers \in Lists => kept \cap Listed(st.servers) \subseteq Listed(servers)
        PROVE  kept \cap Listed(st.servers) \subseteq Listed(Apply(mid).servers)
    <2>1. servers \in Lists => Parsed(servers) = servers
      BY ParsedText
    <2>2. Parsed(servers) \in Lists => Parsed(servers) = servers
      BY ConfigAssumption DEF Parsed, Unusable
    <2>3. mid.liveServers \in Lists => kept \cap Listed(st.servers) \subseteq Listed(mid.liveServers)
      BY <1>2, <1>6, <2>2
    <2> QED BY <1>2, <2>3, ApplyKeepsEntries
  <1> QED BY <1>1, <1>4, <1>5, <1>6

LEMMA SeededText ==
  ASSUME TypeOK
  PROVE  /\ Seeded(settingsFile, Schema) \in Defaults \cup {Refused, Broken}
         /\ Seeded(serversFile, Empty) \in Lists \cup {Refused, Broken}
  BY ConfigAssumption, EmptyList DEF TypeOK, Seeded, Unusable

-----------------------------------------------------------------------------
(* One lemma per action.  Each gives the invariant in the next state, and for a   *)
(* panel that keeps running, the entries that may have gone. *)

\* What an action leaves running of what a person means to run.
Kept == ~world.vanish /\ up /\ up' => meant' \cap Listed(store.servers) \subseteq Listed(store'.servers)

LEMMA InitInv == Init => IInv
  <1> SUFFICES ASSUME Init PROVE IInv
    OBVIOUS
  <1>1. /\ NoText \notin Defaults /\ NoText \notin Lists /\ MaxEdits \in Nat /\ MaxCalls \in Nat
    BY ConfigAssumption
  <1>2. TypeOK
    <2>1. edits \in 0..MaxEdits /\ calls \in 0..MaxCalls
      BY <1>1 DEF Init
    <2>2. world \in Worlds /\ up \in BOOLEAN /\ store \in Store /\ meant \in SUBSET Ids
      BY NewStoreFits DEF Init
    <2>3. settingsFile \in Defaults \cup Unusable /\ serversFile \in Lists \cup Unusable
      BY DEF Init, Unusable
    <2> QED BY <2>1, <2>2, <2>3 DEF TypeOK
  <1>3. FilesThere /\ UnreadIsMeant
    BY DEF Init, FilesThere, UnreadIsMeant
  <1> QED BY <1>2, <1>3, NewStoreFits DEF Init, IInv

LEMMA EditStep ==
  ASSUME IInv, Edit
  PROVE  IInv' /\ Kept
  <1>1. Missing \notin Defaults /\ Unusable \cap Lists = {} /\ Missing \notin {Refused, Broken} /\ MaxEdits \in Nat
    BY ConfigAssumption DEF Unusable
  <1>2. UNCHANGED <<world, up, store, calls>> /\ edits' \in 0..MaxEdits
    BY <1>1 DEF Edit, EditServers, EditSettings, IInv, TypeOK
  <1>3. ASSUME NEW text \in Lists \cup Unusable, EditServers(text), text = Missing => world.vanish
        PROVE  IInv'
    <2>1. TypeOK'
      BY <1>2, <1>3 DEF IInv, TypeOK, EditServers, Listed
    <2>2. FilesThere' /\ UnreadIsMeant'
      BY <1>1, <1>2, <1>3 DEF IInv, EditServers, FilesThere, UnreadIsMeant
    <2> QED BY <1>2, <2>1, <2>2 DEF IInv
  <1>4. ASSUME NEW text \in Defaults \cup Unusable, EditSettings(text), text = Missing => world.vanish
        PROVE  IInv'
    <2>1. TypeOK'
      BY <1>2, <1>4 DEF IInv, TypeOK, EditSettings
    <2>2. FilesThere' /\ UnreadIsMeant'
      BY <1>1, <1>2, <1>4 DEF IInv, EditSettings, FilesThere, UnreadIsMeant
    <2> QED BY <1>2, <2>1, <2>2 DEF IInv
  <1>5. IInv'
    BY <1>1, <1>3, <1>4 DEF Edit, Unusable
  <1> QED BY <1>2, <1>5 DEF Kept

\* A write: the list is committed, and lists what ran, but for what it takes away.
LEMMA CommitServersFits ==
  ASSUME IInv, NEW list \in Lists, CommitServers(list), NEW kept,
         kept \cap Listed(store.rawServers) \subseteq Listed(list)
  PROVE  /\ store' \in Store /\ ReadIsLive(store') /\ LiveIsApplied(store')
         /\ store'.lastServers = list
         /\ kept \cap Listed(store.servers) \subseteq Listed(store'.servers)
  <1> DEFINE mid == [store EXCEPT !.lastServers = list, !.liveServers = list, !.serversParse = FALSE]
  <1>1. store \in Store /\ LiveIsApplied(store) /\ ReadIsLive(store)
    BY DEF IInv, TypeOK
  <1>2. /\ mid \in Store /\ mid.lastServers = list /\ mid.liveServers = list
        /\ mid.lastSettings = store.lastSettings /\ mid.liveSettings = store.liveSettings
        /\ mid.servers = store.servers /\ mid.rawServers = store.rawServers
    BY <1>1 DEF Store
  <1>3. store' = Apply(mid)
    BY DEF CommitServers
  <1> HIDE DEF mid
  <1>4. Listed(mid.servers) = Listed(mid.rawServers) /\ ReadIsLive(mid)
    BY <1>1, <1>2 DEF LiveIsApplied, ReadIsLive
  <1>5. kept \cap Listed(store.servers) \subseteq Listed(mid.liveServers)
    BY <1>1, <1>2 DEF LiveIsApplied
  <1>6. kept \cap Listed(store.servers) \subseteq Listed(Apply(mid).servers)
    BY <1>1, <1>2, <1>5, ApplyKeepsEntries
  <1>7. Apply(mid).lastServers = list
    BY <1>2, ApplyFields
  <1> QED BY <1>2, <1>3, <1>4, <1>6, <1>7, ApplyFits

LEMMA SaveServerStep ==
  ASSUME IInv, NEW i \in Ids, NEW spec \in Specs, SaveServer(i, spec)
  PROVE  IInv' /\ Kept
  <1> DEFINE list == [store.rawServers EXCEPT ![i] = spec]
  <1>1. store.rawServers \in Lists
    BY DEF IInv, TypeOK, Store
  <1>2. list \in Lists
    BY <1>1 DEF Lists
  <1>3. None \notin Specs
    BY ConfigAssumption DEF Specs, None, Inherit
  <1>4. Listed(store.rawServers) \subseteq Listed(list)
    BY <1>1, <1>3 DEF Lists, Listed
  <1>5. CommitServers(list) /\ UNCHANGED <<world, settingsFile, up, edits>> /\ calls' \in 0..MaxCalls
        /\ meant' \in SUBSET Ids
    BY ConfigAssumption DEF SaveServer, Called, IInv, TypeOK
  <1> HIDE DEF list
  <1>6. meant' \cap Listed(store.rawServers) \subseteq Listed(list)
    BY <1>4
  <1>7. /\ store' \in Store /\ ReadIsLive(store') /\ LiveIsApplied(store') /\ store'.lastServers = list
        /\ meant' \cap Listed(store.servers) \subseteq Listed(store'.servers)
    BY <1>2, <1>5, <1>6, CommitServersFits
  <1>8. serversFile' = list
    BY <1>5 DEF CommitServers
  <1>9. TypeOK'
    BY <1>2, <1>5, <1>7, <1>8 DEF IInv, TypeOK
  <1>10. FilesThere' /\ UnreadIsMeant'
    BY <1>2, <1>5, <1>7, <1>8, ConfigAssumption DEF IInv, FilesThere, UnreadIsMeant, Unusable
  <1> QED BY <1>7, <1>9, <1>10 DEF IInv, Kept

LEMMA RemoveServerStep ==
  ASSUME IInv, NEW i \in Ids, RemoveServer(i)
  PROVE  IInv' /\ Kept
  <1> DEFINE list == [store.rawServers EXCEPT ![i] = None]
  <1>1. store.rawServers \in Lists
    BY DEF IInv, TypeOK, Store
  <1>2. list \in Lists
    BY <1>1 DEF Lists
  <1>4. Listed(store.rawServers) \ {i} \subseteq Listed(list)
    BY <1>1 DEF Lists, Listed
  <1>5. CommitServers(list) /\ UNCHANGED <<world, settingsFile, up, edits>> /\ calls' \in 0..MaxCalls
        /\ meant' \in SUBSET Ids /\ i \notin meant'
    BY ConfigAssumption DEF RemoveServer, Called, IInv, TypeOK
  <1> HIDE DEF list
  <1>6. meant' \cap Listed(store.rawServers) \subseteq Listed(list)
    BY <1>4, <1>5
  <1>7. /\ store' \in Store /\ ReadIsLive(store') /\ LiveIsApplied(store') /\ store'.lastServers = list
        /\ meant' \cap Listed(store.servers) \subseteq Listed(store'.servers)
    BY <1>2, <1>5, <1>6, CommitServersFits
  <1>8. serversFile' = list
    BY <1>5 DEF CommitServers
  <1>9. TypeOK'
    BY <1>2, <1>5, <1>7, <1>8 DEF IInv, TypeOK
  <1>10. FilesThere' /\ UnreadIsMeant'
    BY <1>2, <1>5, <1>7, <1>8, ConfigAssumption DEF IInv, FilesThere, UnreadIsMeant, Unusable
  <1> QED BY <1>7, <1>9, <1>10 DEF IInv, Kept

LEMMA SaveSettingsStep ==
  ASSUME IInv, NEW text \in Defaults, SaveSettings(text)
  PROVE  IInv' /\ Kept
  <1> DEFINE mid == [store EXCEPT !.lastSettings = text, !.liveSettings = text, !.settingsParse = FALSE]
  <1>1. store \in Store /\ LiveIsApplied(store) /\ ReadIsLive(store)
    BY DEF IInv, TypeOK
  <1>2. /\ mid \in Store /\ mid.lastSettings = text /\ mid.liveSettings = text
        /\ mid.lastServers = store.lastServers /\ mid.liveServers = store.liveServers
        /\ mid.servers = store.servers /\ mid.rawServers = store.rawServers
    BY <1>1 DEF Store
  <1>3. /\ store' = Apply(mid) /\ settingsFile' = text
        /\ UNCHANGED <<world, serversFile, up, meant, edits>> /\ calls' \in 0..MaxCalls
    BY ConfigAssumption DEF SaveSettings, CommitSettings, Called, IInv, TypeOK
  <1> HIDE DEF mid
  <1>4. Listed(mid.servers) = Listed(mid.rawServers) /\ ReadIsLive(mid)
    BY <1>1, <1>2 DEF LiveIsApplied, ReadIsLive
  <1>5. store' \in Store /\ ReadIsLive(store') /\ LiveIsApplied(store') /\ store'.lastServers = store.lastServers
    BY <1>2, <1>3, <1>4, ApplyFits, ApplyFields
  <1>6. \A i \in Ids : i \in Listed(store.servers) => i \in Listed(Apply(mid).servers)
    BY <1>1, <1>2, ApplyKeepsEntries
  <1>7. TypeOK'
    BY <1>3, <1>5 DEF IInv, TypeOK
  <1>8. FilesThere' /\ UnreadIsMeant'
    BY <1>3, <1>5, ConfigAssumption DEF IInv, FilesThere, UnreadIsMeant, Unusable
  <1>9. Kept
    BY <1>3, <1>6 DEF Kept, Listed
  <1> QED BY <1>5, <1>7, <1>8, <1>9 DEF IInv

\* A servers file that was not read yet lists what is meant, and one that was is what runs.
LEMMA FileKeeps ==
  ASSUME IInv, up, serversFile \in Lists
  PROVE  meant \cap Listed(store.servers) \subseteq Listed(serversFile)
  <1>1. CASE serversFile # store.lastServers
    BY <1>1 DEF IInv, UnreadIsMeant
  <1>2. CASE serversFile = store.lastServers
    <2>1. Listed(store.servers) = Listed(serversFile)
      BY <1>2, ResolveLists, BaseType DEF IInv, TypeOK, ReadIsLive, LiveIsApplied
    <2> QED BY <2>1
  <1> QED BY <1>1, <1>2

LEMMA PollStep ==
  ASSUME IInv, Poll
  PROVE  IInv' /\ Kept
  <1>1. /\ store' = ReloadFromDisk(store) /\ up /\ UNCHANGED <<world, settingsFile, serversFile, up, meant, edits, calls>>
        /\ store \in Store /\ LiveIsApplied(store) /\ ReadIsLive(store)
    BY DEF Poll, Rests, files, IInv, TypeOK
  <1>2. store' \in Store /\ ReadIsLive(store') /\ LiveIsApplied(store')
    BY <1>1, ReloadFits DEF IInv
  <1>3. /\ store'.lastServers \in {store.lastServers, serversFile}
        /\ meant \cap Listed(store.servers) \subseteq Listed(store'.servers)
    <2>1. CASE Missing \in {settingsFile, serversFile}
      BY <1>1, <2>1, MarkGoneFields DEF ReloadFromDisk
    <2>2. CASE Missing \notin {settingsFile, serversFile} /\ (Unread(store) \/ HasError(store))
      <3> DEFINE mid == ReadServers(ReadSettings(store))
      <3>1. store' = Apply(mid)
        BY <1>1, <2>2 DEF ReloadFromDisk
      <3>2. /\ mid \in Store /\ mid.lastServers = serversFile /\ mid.servers = store.servers
            /\ mid.liveServers = IF serversFile \notin {Broken, store.lastServers} THEN serversFile
                                 ELSE store.liveServers
        BY <1>1, <2>2, ReadFields DEF IInv
      <3> HIDE DEF mid
      <3>3. mid.liveServers \in Lists => \/ mid.liveServers = store.liveServers
                                         \/ meant \cap Listed(store.servers) \subseteq Listed(mid.liveServers)
        BY <1>1, <3>2, FileKeeps
      <3>4. \A i \in meant : i \in Listed(store.servers) => i \in Listed(Apply(mid).servers)
        BY <1>1, <3>2, <3>3, ApplyKeepsEntries
      <3>5. Apply(mid).lastServers = serversFile
        BY <3>2, ApplyFields
      <3> QED BY <3>1, <3>4, <3>5
    <2>3. CASE Missing \notin {settingsFile, serversFile} /\ ~(Unread(store) \/ HasError(store))
      BY <1>1, <2>3 DEF ReloadFromDisk
    <2> QED BY <2>1, <2>2, <2>3
  <1>4. TypeOK'
    BY <1>1, <1>2 DEF IInv, TypeOK
  <1>5. FilesThere' /\ UnreadIsMeant'
    BY <1>1, <1>3 DEF IInv, FilesThere, UnreadIsMeant
  <1> QED BY <1>1, <1>2, <1>3, <1>4, <1>5 DEF IInv, Kept

LEMMA ReloadAllStep ==
  ASSUME IInv, ReloadAll
  PROVE  IInv' /\ Kept
  <1> DEFINE settings == Seeded(settingsFile, Schema)
             servers  == Seeded(serversFile, Empty)
  <1>1. /\ settingsFile' = settings /\ serversFile' = servers /\ store' = Load(store, settings, servers)
        /\ up /\ UNCHANGED <<world, up, meant, edits>> /\ calls' \in 0..MaxCalls
        /\ store \in Store /\ LiveIsApplied(store)
    BY ConfigAssumption DEF ReloadAll, Called, IInv, TypeOK
  <1>2. settings \in Defaults \cup {Refused, Broken} /\ servers \in Lists \cup {Refused, Broken}
    BY SeededText DEF IInv
  <1>3. ~world.vanish => servers = serversFile
    BY <1>1 DEF IInv, FilesThere, Seeded
  <1> HIDE DEF settings, servers
  <1>4. /\ store' \in Store /\ ReadIsLive(store') /\ LiveIsApplied(store')
        /\ store'.lastServers = servers
        /\ \A kept : (servers \in Lists => kept \cap Listed(store.servers) \subseteq Listed(servers))
                     => kept \cap Listed(store.servers) \subseteq Listed(store'.servers)
    BY <1>1, <1>2, LoadFits
  <1>5. ~world.vanish => (servers \in Lists => meant \cap Listed(store.servers) \subseteq Listed(servers))
    BY <1>1, <1>3, FileKeeps
  <1>6. Kept
    BY <1>1, <1>4, <1>5 DEF Kept
  <1>7. TypeOK'
    BY <1>1, <1>2, <1>4 DEF IInv, TypeOK, Unusable
  <1>8. FilesThere' /\ UnreadIsMeant'
    BY <1>1, <1>2, <1>4, ConfigAssumption DEF FilesThere, UnreadIsMeant, Unusable
  <1> QED BY <1>4, <1>6, <1>7, <1>8 DEF IInv

LEMMA BootsStep ==
  ASSUME IInv, Boots
  PROVE  IInv' /\ Kept
  <1> DEFINE settings == Seeded(settingsFile, Schema)
             servers  == Seeded(serversFile, Empty)
             st       == Load(NewStore, settings, servers)
  <1>1. /\ settingsFile' = settings /\ serversFile' = servers
        /\ up' = ~HasError(st) /\ store' = IF up' THEN st ELSE NewStore
        /\ ~up /\ UNCHANGED <<world, meant, edits, calls>>
    BY DEF Boots
  <1>2. settings \in Defaults \cup {Refused, Broken} /\ servers \in Lists \cup {Refused, Broken}
    BY SeededText DEF IInv
  <1> HIDE DEF settings, servers
  <1>3. st \in Store /\ ReadIsLive(st) /\ LiveIsApplied(st) /\ st.lastServers = servers
    BY <1>2, NewStoreFits, LoadFits
  <1> HIDE DEF st
  <1>4. /\ store' \in Store /\ ReadIsLive(store') /\ LiveIsApplied(store')
        /\ up' => store'.lastServers = servers
    BY <1>1, <1>3, NewStoreFits
  <1>5. up' \in BOOLEAN
    BY <1>1, Zenon
  <1>6. TypeOK'
    BY <1>1, <1>2, <1>4, <1>5 DEF IInv, TypeOK, Unusable
  <1>7. FilesThere' /\ UnreadIsMeant'
    BY <1>1, <1>2, <1>4, ConfigAssumption DEF FilesThere, UnreadIsMeant, Unusable
  <1> QED BY <1>1, <1>4, <1>6, <1>7 DEF IInv, Kept

LEMMA GoesDownStep ==
  ASSUME IInv, GoesDown
  PROVE  IInv' /\ Kept
  <1>1. /\ up' = FALSE /\ store' = NewStore /\ calls' \in 0..MaxCalls
        /\ UNCHANGED <<world, settingsFile, serversFile, meant, edits>>
    BY ConfigAssumption DEF GoesDown, Called, files, IInv, TypeOK
  <1>2. TypeOK'
    BY <1>1, NewStoreFits DEF IInv, TypeOK
  <1>3. FilesThere' /\ UnreadIsMeant' /\ Kept
    BY <1>1 DEF FilesThere, UnreadIsMeant, Kept
  <1> QED BY <1>1, <1>2, <1>3, NewStoreFits DEF IInv

LEMMA NextStep ==
  ASSUME IInv, [Next]_vars
  PROVE  IInv' /\ Kept
  <1>1. CASE UNCHANGED vars
    BY <1>1 DEF IInv, TypeOK, ReadIsLive, LiveIsApplied, FilesThere, UnreadIsMeant, Base, vars, files, Kept
  <1>2. CASE Save
    BY <1>2, SaveServerStep, RemoveServerStep, SaveSettingsStep DEF Save
  <1> QED BY <1>1, <1>2, EditStep, PollStep, ReloadAllStep, BootsStep, GoesDownStep DEF Next

-----------------------------------------------------------------------------
(* Theorems. *)

\* What is read is live, what is live is applied, and a servers file not read yet lists what
\* a person last asked for (store.ts: the baseline, the live side and apply).
THEOREM Invariance == Spec => []IInv
  <1>1. IInv /\ [Next]_vars => IInv'
    BY NextStep
  <1> QED BY InitInv, <1>1, PTL DEF Spec

\* Files, store and history keep their types.
THEOREM TypeCorrect == Spec => []TypeOK
  <1>1. IInv => TypeOK
    BY DEF IInv
  <1> QED BY Invariance, <1>1, PTL

\* Bytes the store takes for read are in force (ReadIsInForce), for any ids and defaults and
\* any number of edits, saves and restarts.
THEOREM ReadMeansInForce == Spec => []ReadIsInForce
  <1>1. IInv => ReadIsInForce
    BY DEF IInv, ReadIsInForce, UsableFiles, Unread, Followed, ReadIsLive, LiveIsApplied, Base
  <1> QED BY Invariance, <1>1, PTL

\* A file that cannot be used costs no entry (RemovalIsMeant).
THEOREM UnusableCostsNothing == Spec => RemovalIsMeant
  <1>1. ASSUME IInv, [Next]_vars
        PROVE  [~world.vanish /\ up /\ up' =>
                 \A i \in meant' : store.servers[i] # None => store'.servers[i] # None]_vars
    <2>1. Kept /\ meant' \subseteq Ids
      BY <1>1, NextStep DEF IInv, TypeOK
    <2> QED BY <2>1 DEF Kept, Listed
  <1> QED BY Invariance, <1>1, PTL DEF Spec, RemovalIsMeant
=============================================================================
