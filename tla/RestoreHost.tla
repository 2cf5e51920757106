---------------------------- MODULE RestoreHost ----------------------------
(***************************************************************************)
(* The temporary server a check run restores on, and what each command of  *)
(* restore/host_helper.py does to it.  The server is a record; a command    *)
(* maps it to the set of answers and servers it may end with.  Every        *)
(* application has one domain, named like the application; every component  *)
(* has at most one large root.  The parts of the system configuration are   *)
(* one component, "system".                                                 *)
(***************************************************************************)
EXTENDS Naturals, Sequences

CONSTANTS
    Apps,          \* the applications of the plan, in the order of their restore
    DataParts,     \* the system data parts of the plan (mail, homes, ...)
    MainDomain,    \* the archive's main domain, as a set of at most one
    OtherDomains,  \* domains of the archived system that no application uses
    ThirdParty,    \* applications whose restore adds a third-party apt source
    MayFail,       \* commands that may answer that they failed
    MayRaise       \* commands that may end in an exception

AppSet == {Apps[i] : i \in DOMAIN Apps}

Parts == AppSet \cup {DataParts[i] : i \in DOMAIN DataParts}

ASSUME PlanAssumption ==
    /\ Apps \in Seq(AppSet)
    /\ DataParts \in Seq(Parts)
    /\ "system" \notin Parts

Domains == AppSet \cup MainDomain \cup OtherDomains

(* The domain of the placeholder postinstall. *)
FirstDomain ==
    IF MainDomain # {} \/ Apps = <<>> THEN MainDomain ELSE {Apps[1]}

(* The server `cloud-init` leaves: plain Debian. *)
FreshHost ==
    [yunohost |-> "absent",
     blocked  |-> FALSE,    \* is dyndns.yunohost.org mapped to the server itself?
     mapped   |-> {},       \* the other domains that are
     keys     |-> FALSE,    \* are the production system's DynDNS keys here?
     sink     |-> FALSE,    \* is outbound mail disabled?
     domains  |-> {},       \* what `yunohost domain list` says
     sources  |-> {},       \* components that left an apt source
     restored |-> {},       \* components YunoHost restored
     placed   |-> {}]       \* components whose large data was extracted

HostType ==
    [yunohost : {"absent", "installed", "ready"},
     blocked : BOOLEAN, keys : BOOLEAN, sink : BOOLEAN,
     mapped : SUBSET Domains, domains : SUBSET Domains,
     sources : SUBSET AppSet,
     restored : SUBSET (AppSet \cup {"system"}),
     placed : SUBSET Parts]

-----------------------------------------------------------------------------
(* cmd_quarantine, step by step: an exception may stop it in between. *)
HostsWritten(h, ds) == [h EXCEPT !.blocked = TRUE, !.mapped = ds]
KeysRemoved(h, ds) == [HostsWritten(h, ds) EXCEPT !.keys = FALSE]
Quarantined(h, ds) == [KeysRemoved(h, ds) EXCEPT !.sink = TRUE]

(* What a system restore brings back, whether or not it succeeds: the DynDNS *)
(* keys and domains of production, and a regenerated mail configuration.     *)
Unpacked(h) ==
    [h EXCEPT !.yunohost = "ready", !.keys = TRUE, !.sink = FALSE,
              !.domains = @ \cup AppSet \cup MainDomain \cup OtherDomains]

WithSources(h, app) == [h EXCEPT !.sources = @ \cup ({app} \cap ThirdParty)]

(* Bug: what a failed restore added to the apt sources stays. *)
NotReverted(h, before) == h

(* revert_apt_sources: back to the snapshot taken before the restore. *)
Reverted(h, before) == [h EXCEPT !.sources = before]

(* The server after `backup restore` of s.of succeeded, and after it failed. *)
CoreRestored(s, h) ==
    IF s.of = "system"
    THEN [Unpacked(h) EXCEPT !.restored = @ \cup {"system"}]
    ELSE [WithSources(h, s.of) EXCEPT !.restored = @ \cup {s.of}]

CoreLeftovers(s, h) ==
    {h, IF s.of = "system" THEN Unpacked(h) ELSE WithSources(h, s.of)}

(* An application cannot be restored before YunoHost is post-installed. *)
Restorable(s, h) == s.of = "system" \/ h.yunohost = "ready"

(* The server after the command did what it is for. *)
Done(s, h, ds) ==
    CASE s.cmd = "install-yunohost" -> [h EXCEPT !.yunohost = "installed"]
      [] s.cmd = "postinstall" ->
            [h EXCEPT !.yunohost = "ready", !.domains = @ \cup FirstDomain]
      [] s.cmd = "add-domain" -> [h EXCEPT !.domains = @ \cup {s.of}]
      [] s.cmd = "quarantine" -> Quarantined(h, ds)
      [] s.cmd = "restore-core" -> CoreRestored(s, h)
      [] s.cmd = "extract-payload" -> [h EXCEPT !.placed = @ \cup {s.of}]
      [] OTHER -> h

(* The servers a command that reports a failure may leave. *)
Undone(s, h) ==
    IF s.cmd = "restore-core"
    THEN {Reverted(g, h.sources) : g \in CoreLeftovers(s, h)}
    ELSE {h}

(* The servers a command that ends in an exception may leave: `main` answers *)
(* {"ok": false} and nothing is undone.                                      *)
Halfway(s, h, ds) ==
    CASE s.cmd = "restore-core" -> CoreLeftovers(s, h) \cup {CoreRestored(s, h)}
      [] s.cmd = "quarantine" ->
            {h, HostsWritten(h, ds), KeysRemoved(h, ds), Quarantined(h, ds)}
      [] OTHER -> {h, Done(s, h, ds)}

(* What a command that worked has to say. *)
Answers(s, h) ==
    CASE s.cmd = "restore-core" -> IF Restorable(s, h) THEN {"ok", "warning"} ELSE {}
      [] s.cmd = "describe" ->
            IF s.of \in h.placed THEN {"ok", "alarm", "some", "unreadable"}
                                 ELSE {"unreadable"}
      [] s.cmd = "health" -> {"ok", "http", "broken"}
      [] s.cmd = "mail-verify" -> {"ok", "unconfirmed"}
      [] OTHER -> {"ok"}

Fails(s, h) ==
    s.cmd \in MayFail \/ (s.cmd = "restore-core" /\ ~Restorable(s, h))

(* How the helper process for step s, called for the domains ds, may end. *)
Outcomes(s, h, ds) ==
    [says : Answers(s, h), host : {Done(s, h, ds)}]
      \cup [says : {"failed"}, host : IF Fails(s, h) THEN Undone(s, h) ELSE {}]
      \cup [says : {"raised"},
            host : IF s.cmd \in MayRaise THEN Halfway(s, h, ds) ELSE {}]
=============================================================================
