-------------------------- MODULE MCRestoreSession --------------------------
(* Plans for RestoreSession. *)
EXTENDS RestoreSession

CONSTANTS a1, a2, d1, x

OneApp == <<a1>>
TwoApps == <<a1, a2>>
NoPart == <<>>
OnePart == <<d1>>

AllCommands == {Script[i].cmd : i \in Steps}

(* The `echo` of wait_ready cannot fail. *)
HelperCommands == AllCommands \ {"wait-ready"}

(* The commands an exception of which the orchestrator notices. *)
NoticedCommands == HelperCommands \ {"quarantine", "domains"}

(* Those after an exception of which a full check judges the next            *)
(* application and the large data rightly.                                   *)
TidyCommands == NoticedCommands \ {"restore-core", "extract-payload"}

(* The commands a failure of which the orchestrator notices. *)
FailingCommands == HelperCommands \ {"quarantine", "domains"}
=============================================================================
