----------------------------- MODULE MCPlanning -----------------------------
(* An instance of Planning for TLC: components of a few files each.        *)
EXTENDS Planning

File(path, size, mtime) == [path |-> path, size |-> size, mtime |-> mtime, healthy |-> TRUE]
Home(rest) == <<"backup", "home">> \o rest
Srv(rest) == <<"backup", "srv">> \o rest

(* Albums and a cache in a declared directory, one of which is declared      *)
(* again; equally old files, plumbing, a dump beside it.                     *)
Photos ==
    [kind |-> "app", id |-> "photos", manifest |-> "photos", described |-> TRUE,
     declared |-> {Home(<<>>), Home(<<"x">>)}, files |->
        {File(Home(<<"x", "1">>), 2, 1), File(Home(<<"x", "2">>), 2, 3),
         File(Home(<<"x", "3">>), 2, 3), File(Home(<<"y", "1">>), 2, 2),
         File(Home(<<"cache", "1">>), 2, 9), File(Home(<<"1">>), 1, 2),
         File(Home(<<"backups", "s">>), 2, 0), File(<<"backup", "db.sql">>, 2, 5)}]

(* Two roots with repositories and plumbing.                                 *)
Forge ==
    [kind |-> "app", id |-> "forge", manifest |-> "forge", described |-> TRUE,
     declared |-> {Home(<<>>), Srv(<<>>)}, files |->
        {File(Home(<<"r", ".git", "HEAD">>), 1, 2), File(Home(<<"r", ".git", "refs", "m">>), 1, 4),
         File(Srv(<<"r", ".git", "HEAD">>), 1, 3), File(Srv(<<"q", ".git", "HEAD">>), 1, 1),
         File(Home(<<"r", "a">>), 3, 3), File(Home(<<"conf", "c">>), 1, 0)}]

(* More plumbing than may be kept, and a hidden marker.                      *)
Cloud ==
    [kind |-> "app", id |-> "cloud", manifest |-> "cloud", described |-> TRUE,
     declared |-> {Home(<<>>)}, files |->
        {File(Home(<<"r", "a">>), 3, 3), File(Home(<<"r", ".ok">>), 1, 0),
         File(Home(<<"conf", "big">>), 5, 0), File(Home(<<"conf", "c">>), 1, 0),
         File(Home(<<"db", "d">>), 3, 0)}]

(* Much is kept of its directory, and little sampled.                        *)
Notes ==
    [kind |-> "app", id |-> "notes", manifest |-> "notes", described |-> TRUE,
     declared |-> {Home(<<>>)}, files |->
        {File(Home(<<"a">>), 1, 9), File(Home(<<"conf", "c">>), 1, 5),
         File(Home(<<"db", "d">>), 3, 0), File(<<"settings">>, 1, 1)}]

(* An application that declares nothing, and whose bulk the heuristic finds. *)
Unknown ==
    [kind |-> "app", id |-> "unknown", manifest |-> "unknown", described |-> TRUE,
     declared |-> {}, files |->
        {File(Home(<<"p", "1">>), 5, 1), File(Home(<<"p", "2">>), 5, 2),
         File(Home(<<"p", "backups", "s">>), 2, 0), File(Home(<<"p", "db", "d">>), 3, 0),
         File(Home(<<"d", "1">>), 4, 1), File(<<"backup", "lib", "1">>, 3, 1),
         File(<<"settings">>, 1, 1)}]

Mail ==
    [kind |-> "system_data", id |-> "mail", manifest |-> "mail", described |-> TRUE,
     declared |-> {}, files |->
        {File(<<"u", "1">>, 2, 1), File(<<"u", "2">>, 2, 2), File(<<"v", "1">>, 2, 1),
         [File(<<"v", "2">>, 2, 3) EXCEPT !.healthy = FALSE]}]

(* A second copy of an application, one without settings, configuration.     *)
Wiki(described) ==
    [kind |-> "app", id |-> "wiki__2", manifest |-> "wiki", described |-> described,
     declared |-> {Home(<<"w">>)}, files |->
        {File(Home(<<"w", "1">>), 9, 1), File(<<"settings">>, 1, 1)}]
Conf(id) ==
    [kind |-> "system_conf", id |-> id, manifest |-> id, described |-> TRUE,
     declared |-> {}, files |-> {File(<<"slapd">>, 2, 1)}]

(* Most of it is code and a database, which go to the boot disk.             *)
Site ==
    [kind |-> "app", id |-> "site", manifest |-> "site", described |-> TRUE,
     declared |-> {}, files |->
        {File(<<"backup", "lib", "1">>, 8, 1), File(<<"backup", "db.sql">>, 7, 1)}]

OneSite == {Site}

AllComponents ==
    {Photos, Forge, Cloud, Notes, Unknown, Mail, Wiki(TRUE), Wiki(FALSE), Conf("ldap"), Conf("modified")}

(* Settings. The large components are checked with the usual ones, of a      *)
(* second one all names that may select or exclude it and all kinds of       *)
(* server are tried, of another one all checks.                              *)
Usual ==
    [selected |-> {"all"}, never |-> {}, level |-> "off", deep_check |-> "off",
     mode |-> "sampled", restore_volume |-> "auto", preferred |-> "auto"]
With(volume) == {[Usual EXCEPT !.restore_volume = volume]}
Names(c) ==
    {[Usual EXCEPT !.selected = s, !.never = n] :
        s \in {{"all"}, {c.id}, {c.manifest}, {"system"}}, n \in {{}, {c.id}, {c.manifest}}}
Servers ==
    {[Usual EXCEPT !.mode = m, !.restore_volume = v, !.preferred = p] :
        m \in {"sampled", "full"}, v \in {"always", "auto", "never"}, p \in {"auto", "small"}}
Checks ==
    {[Usual EXCEPT !.level = l, !.deep_check = d] :
        l \in {"off", "archives", "repository"}, d \in {"off", "sampled_dry_run", "full_dry_run"}}

SettingsOf ==
    [c \in AllComponents \cup {Site} |->
        CASE c = Photos -> With("never")
          [] c \in {Forge, Cloud} -> With("always")
          [] c \in {Notes, Unknown, Site} -> With("auto")
          [] c = Mail -> Checks
          [] OTHER -> Names(c) \cup Servers \cup Checks]

PlumbingNames == <<"backups", "conf", "db">>
WwwRoot == {<<"var", "www">>}

(* Fine, warnings, an error, locked, not reached, killed. *)
SomeExits == {0, 105, 13, 73, 80, -9}

MachineSizes ==
    {[name |-> "small", disk |-> 22, memory |-> 4, price |-> 1],
     [name |-> "weak", disk |-> 160, memory |-> 2, price |-> 2],
     [name |-> "large", disk |-> 80, memory |-> 8, price |-> 3]}

(* The estimate covers the metadata of these repositories. *)
ASSUME SmallMetadata == MetadataFits
=============================================================================
