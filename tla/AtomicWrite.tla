----------------------------- MODULE AtomicWrite -----------------------------
(***************************************************************************)
(* atomicWriteFile of src/src/core/chat/atomic-write.ts, on one target     *)
(* file, and the startup sweep of src/src/server/startup-sweep.ts, which   *)
(* runs beside the server's first requests.                                *)
(*                                                                         *)
(* Every write has its own temporary file.  The process may die at any     *)
(* step, and the machine may lose power: what has not been synced is then  *)
(* lost or torn, and the last renames may be undone.                       *)
(***************************************************************************)
EXTENDS Naturals, Sequences, SequencesExt

CONSTANTS
    Writes,      \* calls of atomicWriteFile on the target; each is made once
    MaxCrashes   \* bound on crashes

VARIABLES
    stage,        \* where the call is suspended
    tmp,       \* the temporary file of the call
    targets,   \* contents the target may have after a power loss; the last
               \* is the one it has now
    up,        \* the process runs
    crashes,
    sweep,     \* phase of the startup sweep
    listed,    \* temporary files it has found and not yet looked at
    sweepError \* it met an error: "some stale tmp files may remain"

writeVars == <<stage, tmp, targets, up, crashes, sweep, listed, sweepError>>
sweepVars == <<sweep, listed, sweepError>>

Stage == {"idle", "writing", "written", "synced", "failing", "ok", "threw", "dead"}
Live == {"writing", "written", "synced", "failing"}
Data == {"partial", "cached", "whole"}   \* cached: written, not yet synced
Content == [by: SUBSET Writes, data: Data]  \* by: its writer, or {} at first

target == Last(targets)
Exists(w) == tmp[w] # "absent"

WriteInit ==
    /\ stage = [w \in Writes |-> "idle"]
    /\ tmp = [w \in Writes |-> "absent"]
    /\ targets = <<[by |-> {}, data |-> "whole"]>>
    /\ up = TRUE
    /\ crashes = 0
    /\ sweep = "idle" /\ listed = {} /\ sweepError = FALSE

-----------------------------------------------------------------------------
(* atomicWriteFile.                                                        *)

Step(w, from, to) == up /\ stage[w] = from /\ stage' = [stage EXCEPT ![w] = to]

StartWrite(w) ==
    /\ Step(w, "idle", "writing")
    /\ tmp' = [tmp EXCEPT ![w] = "partial"]
    /\ UNCHANGED <<targets, up, crashes, sweepVars>>

\* bug: the file is not synced before it replaces the target
Bug_NoSync(w) ==
    /\ Step(w, "writing", "synced")
    /\ tmp' = [tmp EXCEPT ![w] = IF Exists(w) THEN "cached" ELSE "absent"]
    /\ UNCHANGED <<targets, up, crashes, sweepVars>>

\* fs.writeFile holds the file open: an unlink does not make it fail
FinishWrite(w) ==
    /\ Step(w, "writing", "written")
    /\ tmp' = [tmp EXCEPT ![w] = IF Exists(w) THEN "cached" ELSE "absent"]
    /\ UNCHANGED <<targets, up, crashes, sweepVars>>

Sync(w) ==
    /\ Exists(w)
    /\ Step(w, "written", "synced")
    /\ tmp' = [tmp EXCEPT ![w] = "whole"]
    /\ UNCHANGED <<targets, up, crashes, sweepVars>>

Rename(w) ==
    /\ Exists(w)
    /\ Step(w, "synced", "ok")
    /\ targets' = Append(targets, [by |-> {w}, data |-> tmp[w]])
    /\ tmp' = [tmp EXCEPT ![w] = "absent"]
    /\ UNCHANGED <<up, crashes, sweepVars>>

\* any step may fail; open and rename must when the file is gone
Fail(w) ==
    /\ \E from \in {"idle", "writing", "written", "synced"}: Step(w, from, "failing")
    /\ UNCHANGED <<tmp, targets, up, crashes, sweepVars>>

\* the catch clause: unlink, whose own failure is ignored, then rethrow
Cleanup(w) ==
    /\ Step(w, "failing", "threw")
    /\ tmp' \in {tmp, [tmp EXCEPT ![w] = "absent"]}
    /\ UNCHANGED <<targets, up, crashes, sweepVars>>

-----------------------------------------------------------------------------
(* The sweep of a start-up.                                                *)

SweepList ==
    /\ up /\ sweep = "idle"
    /\ sweep' = "unlinking"
    /\ listed' = {w \in Writes: Exists(w)}
    /\ UNCHANGED <<stage, tmp, targets, up, crashes, sweepError>>

SweepUnlink(w) ==
    /\ up /\ sweep = "unlinking" /\ w \in listed
    /\ listed' = listed \ {w}
    /\ \/ tmp' = [tmp EXCEPT ![w] = "absent"] /\ sweepError' = (sweepError \/ ~Exists(w))
       \/ tmp' = tmp /\ sweepError' = TRUE
    /\ UNCHANGED <<stage, targets, up, crashes, sweep>>

-----------------------------------------------------------------------------
(* Crashes.  What the file system keeps is external.                       *)

Died == [w \in Writes |-> IF stage[w] \in Live THEN "dead" ELSE stage[w]]

ProcessDies ==
    /\ up /\ crashes < MaxCrashes
    /\ up' = FALSE
    /\ crashes' = crashes + 1
    /\ stage' = Died
    /\ UNCHANGED <<tmp, targets, sweepVars>>

\* A directory entry need not be on disk when rename returns; synced data is.
PowerLoss ==
    /\ up /\ crashes < MaxCrashes
    /\ up' = FALSE
    /\ crashes' = crashes + 1
    /\ stage' = Died
    /\ \E i \in 1..Len(targets), kept \in {"partial", "whole"}:
          targets' = <<[by |-> targets[i].by,
                        data |-> IF targets[i].data = "cached"
                                 THEN kept ELSE targets[i].data]>>
    /\ \E left \in [Writes -> {"absent", "partial", "whole"}]:
          tmp' = [w \in Writes |-> IF stage[w] = "idle" THEN "absent" ELSE left[w]]
    /\ UNCHANGED sweepVars

Flush ==
    /\ Len(targets) > 1
    /\ targets' = <<target>>
    /\ UNCHANGED <<stage, tmp, up, crashes, sweepVars>>

Restart ==
    /\ ~up
    /\ up' = TRUE
    /\ sweep' = "idle" /\ listed' = {} /\ sweepError' = FALSE
    /\ UNCHANGED <<stage, tmp, targets, crashes>>

Write(w) ==
    \/ StartWrite(w) \/ FinishWrite(w) \/ Sync(w) \/ Rename(w) \/ Fail(w) \/ Cleanup(w)

WriteNext ==
    \/ \E w \in Writes: Write(w) \/ SweepUnlink(w)
    \/ SweepList \/ ProcessDies \/ PowerLoss \/ Flush \/ Restart

WriteSpec == WriteInit /\ [][WriteNext]_writeVars

-----------------------------------------------------------------------------
WriteTypeOK ==
    /\ stage \in [Writes -> Stage]
    /\ tmp \in [Writes -> Data \cup {"absent"}]
    /\ targets \in Seq(Content) /\ targets # <<>>
    /\ up \in BOOLEAN
    /\ crashes \in Nat
    /\ sweep \in {"idle", "unlinking"}
    /\ listed \subseteq Writes
    /\ sweepError \in BOOLEAN

(***************************************************************************)
(* A reader never finds a half-written target, whichever step a crash or a *)
(* loss of power interrupts.                                               *)
(***************************************************************************)
NeverTorn == target.data # "partial"

(***************************************************************************)
(* A write whose caller saw an error is not in the file, not even after a  *)
(* crash: the caller may retry or report it.                               *)
(***************************************************************************)
FailedIsInvisible == \A w \in target.by: stage[w] # "threw"
=============================================================================
