------------------------------ MODULE WriteAhead ------------------------------
(***************************************************************************)
(* What the task runtime promises about its effects, with none of its      *)
(* machinery: accepting an event makes a new revision, revisions reach the *)
(* disk in order, a command starts only when the revision that issued it   *)
(* is on disk, and reopening a task goes back to what is on disk.          *)
(* TaskRuntime implements it.                                              *)
(***************************************************************************)
EXTENDS Naturals

CONSTANT Commands      \* records with at least the fields rev and hydrated

VARIABLES accepted,    \* the newest revision accepted in memory
          landed,      \* the newest revision on disk
          started      \* the commands whose effect has been started

waVars == <<accepted, landed, started>>

WAInit == accepted = 0 /\ landed = 0 /\ started = {}

Accept == accepted' = accepted + 1 /\ UNCHANGED <<landed, started>>

Land == /\ landed' \in (landed + 1)..accepted
        /\ UNCHANGED <<accepted, started>>

\* A command derived again while reopening belongs to the revision the
\* reopened state got, the one after the snapshot on disk.
MayStart(c) == c.rev <= landed \/ (c.hydrated /\ c.rev <= landed + 1)

Start(c) == /\ MayStart(c)
            /\ started' = started \cup {c}
            /\ UNCHANGED <<accepted, landed>>

Reopen == accepted' = landed + 1 /\ UNCHANGED <<landed, started>>

WANext == Accept \/ Land \/ Reopen \/ \E c \in Commands : Start(c)

WASpec == WAInit /\ [][WANext]_waVars
===============================================================================
