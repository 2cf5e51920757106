------------------------------ MODULE BorgClient ------------------------------
(* The wrapper around the `borg` command (S/borg/client.py): a command that  *)
(* runs to its end and is repeated when the repository was locked or could   *)
(* not be reached, and the listing of an archive, which is read line by line *)
(* from a pipe while Borg writes it.                                         *)
EXTENDS Integers, FiniteSets

CONSTANTS
    Retries,        \* BorgClient.retries
    ExitCodes,      \* those Borg ends with; negative: killed, or timed out
    Complaints,     \* at most so many lines of Borg on its stderr
    OutCapacity, ErrCapacity    \* of the two pipes, in lines

VARIABLES
    client,         \* "idle", "waiting", "sleeping", "reading"
    attempt,        \* local variable of `run`
    result,         \* of the last call: "none", "ok", "failed"
    borg,           \* the process of the listing: "none", "running", "ended"
    code,           \* the exit code of that process
    unsent, out,    \* lines Borg has yet to write, lines in its stdout
    unsaid, err,    \* how many lines it has yet to write to stderr, has there
    part, listing   \* the .part file, the cached listing

listVars == <<borg, code, unsent, out, unsaid, err, part, listing>>
clientVars == <<client, attempt, result, borg, code, unsent, out, unsaid, err, part, listing>>

ClientInit ==
    /\ client = "idle" /\ attempt = 0 /\ result = "none"
    /\ borg = "none" /\ code = 0
    /\ unsent = {} /\ out = {} /\ unsaid = 0 /\ err = 0
    /\ part = {} /\ listing = {}

(* exit_code_category. The families that are treated alike are one.          *)
Category(rc) ==
    CASE rc = 0 -> "ok"
      [] rc = 1 \/ rc \in 100 .. 127 -> "warning"
      [] rc \in 70 .. 75 -> "lock"
      [] rc \in 80 .. 87 -> "connection"
      [] OTHER -> "error"

Fine(rc) == Category(rc) \in {"ok", "warning"}
Retryable(rc) == Category(rc) \in {"lock", "connection"}

-----------------------------------------------------------------------------
(* run                                                                     *)

Call ==
    /\ client = "idle"
    /\ client' = "waiting" /\ attempt' = 1 /\ result' = "none"
    /\ UNCHANGED listVars

(* Borg ended with rc; `capture_output` reads both pipes meanwhile.          *)
Returns(rc) ==
    /\ client = "waiting"
    /\ IF Retryable(rc) /\ attempt <= Retries
       THEN client' = "sleeping" /\ UNCHANGED <<attempt, result>>
       ELSE /\ client' = "idle" /\ attempt' = 0
            /\ result' = IF Fine(rc) THEN "ok" ELSE "failed"
    /\ UNCHANGED listVars

(* Bug: the attempts are not counted. *)
AgainUncounted ==
    /\ client = "sleeping" /\ client' = "waiting"
    /\ UNCHANGED <<attempt, result, listVars>>

Again ==
    /\ client = "sleeping" /\ client' = "waiting"
    /\ attempt' = attempt + 1
    /\ UNCHANGED <<result, listVars>>

-----------------------------------------------------------------------------
(* cache_listing and iter_items                                            *)

(* `items` is what the archive holds.                                        *)
List(items) ==
    /\ client = "idle" /\ client' = "reading" /\ result' = "none"
    /\ borg' = "running" /\ unsent' = items
    /\ out' = {} /\ unsaid' \in 0 .. Complaints /\ err' = 0 /\ part' = {}
    /\ UNCHANGED <<attempt, code, listing>>

(* Borg blocks when the pipe it writes to is full.                           *)
BorgWrites(i) ==
    /\ borg = "running" /\ i \in unsent /\ Cardinality(out) < OutCapacity
    /\ unsent' = unsent \ {i} /\ out' = out \cup {i}
    /\ UNCHANGED <<client, attempt, result, borg, code, unsaid, err, part, listing>>

BorgComplains ==
    /\ borg = "running" /\ unsaid > 0 /\ err < ErrCapacity
    /\ unsaid' = unsaid - 1 /\ err' = err + 1
    /\ UNCHANGED <<client, attempt, result, borg, code, unsent, out, part, listing>>

(* A Borg that succeeds has listed everything; one that fails says why. What *)
(* is in the pipes stays there.                                              *)
BorgEnds(rc) ==
    /\ borg = "running" /\ borg' = "ended" /\ code' = rc
    /\ IF Fine(rc)
       THEN unsent = {} /\ unsaid = 0 /\ UNCHANGED err
       ELSE err < ErrCapacity /\ err' = err + 1
    /\ UNCHANGED <<client, attempt, result, unsent, out, unsaid, part, listing>>

ReadsLine(i) ==
    /\ client = "reading" /\ i \in out
    /\ out' = out \ {i} /\ part' = part \cup {i}
    /\ UNCHANGED <<client, attempt, result, borg, code, unsent, unsaid, err, listing>>

(* Bug: what was read of a listing that broke off is kept as the listing. *)
EndOfListingUnseen ==
    /\ client = "reading" /\ borg = "ended" /\ out = {}
    /\ client' = "idle" /\ borg' = "none" /\ code' = 0 /\ unsaid' = 0 /\ err' = 0
    /\ result' = "ok" /\ listing' = part /\ part' = {}
    /\ UNCHANGED <<attempt, unsent, out>>

(* End of stdout; `communicate` reads stderr and waits, then the .part file  *)
(* gets its name, or stays behind.                                           *)
EndOfListing ==
    /\ client = "reading" /\ borg = "ended" /\ out = {}
    /\ client' = "idle" /\ borg' = "none" /\ code' = 0 /\ unsaid' = 0 /\ err' = 0
    /\ IF Fine(code)
       THEN result' = "ok" /\ listing' = part /\ part' = {}
       ELSE result' = "failed" /\ UNCHANGED <<part, listing>>
    /\ UNCHANGED <<attempt, unsent, out>>

(* A line that was read, or the end of the .part file, cannot be written;    *)
(* closing the generator reads both pipes until Borg ends.                   *)
WriteFails ==
    /\ client = "reading" /\ (out # {} \/ borg = "ended")
    /\ client' = "idle" /\ result' = "failed"
    /\ borg' = "none" /\ code' = 0 /\ unsent' = {} /\ out' = {} /\ unsaid' = 0 /\ err' = 0
    /\ UNCHANGED <<attempt, part, listing>>

(* What goes on by itself once a command or a listing was started.           *)
ClientStep ==
    \/ \E rc \in ExitCodes : Returns(rc) \/ BorgEnds(rc)
    \/ Again \/ BorgComplains \/ EndOfListing \/ WriteFails
    \/ \E i \in unsent : BorgWrites(i)
    \/ \E i \in out : ReadsLine(i)
=============================================================================
