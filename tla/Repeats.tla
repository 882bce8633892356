---------------------------------- MODULE Repeats ----------------------------------
(***************************************************************************)
(* Three things that are asked for again and should be done once: a call   *)
(* of the API repeated under one idempotency key, the reading of a         *)
(* channel's mail by several requests, and the notices of crons that come  *)
(* round again.  They share no row: a behaviour moves one of them, the     *)
(* scene, and leaves the others as they began.                             *)
(***************************************************************************)
EXTENDS ApiIdempotency

CONSTANTS Staff, Tabs, Ingests, MaxAuths, MaxTokens,
          Assignee, Admins, Newcomers, Runs, MaxWeek, MaxMoves

VARIABLES scene,
          kind, rotates, auth, status, grant, mail, copies, tab, ingest, mailFaults, excused,
          matter, lockOn, week, member, signal, draft, alerted, rows, mailed, again, call,
          failed, lost, dead

C == INSTANCE Channels WITH faults <- mailFaults

OfC == <<kind, rotates, auth, status, grant, mail, copies, tab, ingest, mailFaults, excused>>

N == INSTANCE Notifications WITH Calls <- Runs

OfN == <<matter, lockOn, week, member, signal, draft, alerted, rows, mailed, again, call, failed, lost, dead>>

RepeatsInit == /\ scene \in {"calls", "mail", "notices"} /\ Init /\ C!Init /\ N!Init
               /\ (kind = "OAUTH" /\ rotates) \/ scene = "mail"
               /\ (matter = {"draft_stale"} /\ lockOn) \/ scene = "notices"

RepeatsNext == /\ UNCHANGED scene
               /\ \/ scene = "calls" /\ Next /\ UNCHANGED <<OfC, OfN>>
                  \/ scene = "mail" /\ C!Next /\ UNCHANGED <<vars, OfN>>
                  \/ scene = "notices" /\ N!Next /\ UNCHANGED <<vars, OfC>>

RepeatsSpec == RepeatsInit /\ [][RepeatsNext]_<<scene, vars, OfC, OfN>>
-----------------------------------------------------------------------------
\* Channels.tla and Notifications.tla state these, each of its scene.
MailInv == scene = "mail" => C!MailInv
HealthyAuthKept == C!HealthyAuthKept
TellInv == scene = "notices" => N!TellInv
BadNewsArrives == scene = "notices" => N!BadNewsArrives
=============================================================================
