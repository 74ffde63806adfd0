------------------------------- MODULE Legacy -------------------------------
(***************************************************************************)
(* The legacy import.  A behaviour is either that of the staging of        *)
(* exports, statement by statement, or that of the commands that take what *)
(* has been staged on to the canonical tables, for which a staging is one  *)
(* step; the other part rests in its first state.                          *)
(***************************************************************************)
EXTENDS LegacyPipeline

CONSTANTS
    Process,                            \* the staging commands running
    Manifest, TableSelection, Source,   \* as in LegacyStaging
    Broken, Keys, Refs, MaxAttempts

VARIABLES part,
          runs, stored, sPc, sJob, drops, todo, sMine, staged   \* staging

Staging == INSTANCE LegacyStaging WITH
    Selection <- TableSelection,
    raw <- stored, pc <- sPc, job <- sJob, mine <- sMine

ASSUME LegacyAssumption == Staging!StagingAssumption

staging == <<runs, stored, sPc, sJob, drops, todo, sMine, staged>>
legacy == <<part, vars, staging>>

LegacyInit == part \in {"staging", "pipeline"} /\ Init /\ Staging!Init

StagingSteps == part = "staging" /\ Staging!Next /\ UNCHANGED <<part, vars>>
PipelineSteps == part = "pipeline" /\ Next /\ UNCHANGED <<part, staging>>
LegacyNext == StagingSteps \/ PipelineSteps

LegacySpec == LegacyInit /\ [][LegacyNext]_legacy
-----------------------------------------------------------------------------
(* Properties: those of LegacyPipeline, and of LegacyStaging as they are here. *)

\* The tables of the last completed staging of a batch stand, whatever fails,
\* waits or is killed, and every process's tables are those of its run.
LastRunStands == Staging!TypeOK /\ Staging!LastRunStands

\* An export is refused over dangling references only if it has them.
OnlyOrphansAreRefused == Staging!OnlyOrphansAreRefused
=============================================================================
