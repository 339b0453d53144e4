----------------------------- MODULE Operations -----------------------------
(***************************************************************************)
(* The Droplet's database, releases and containers, under the deploy       *)
(* script, the backup cron job and the restore script.                     *)
(*                                                                         *)
(* CI runs one deploy at a time and the operator one database command at a *)
(* time; the two interleave.  A script stops at its first failing command  *)
(* and leaves what it did.  Release r is the r-th commit of main; its      *)
(* migrations end at revision HeadRev[r], and are additive and transactional. *)
(* Of a database's contents only the revision is kept; a database has an   *)
(* identity of its own, which a rename does not change.                    *)
(***************************************************************************)
EXTENDS Integers, Sequences, FiniteSets

CONSTANTS HeadRev,         \* the schema revision each release's migrations end at
          Stamps,        \* names a database that was live may be kept under
          MaxDatabases,  \* bound on databases created
          MaxDeploys,    \* bound on deploys
          MaxFaults      \* bound on failing commands

ASSUME HeadRevAssumption == /\ HeadRev \in Seq(Nat \ {0}) /\ HeadRev # <<>>
                         /\ \A r \in 2 .. Len(HeadRev) : HeadRev[r - 1] <= HeadRev[r]

VARIABLES dbs,        \* the database of each name
          running,    \* the release each container runs, 0 when it is stopped
          checkout,   \* the release checked out in ~/app
          merged,     \* the newest release on main
          deploy,     \* the deploy script
          operator,   \* db-restore.sh, or the operator following the runbook
          backups,    \* the revisions of the dumps that can be restored
          created,    \* databases created so far
          deploys,    \* deploys started so far
          faults,     \* commands that have failed
          served,     \* history: databases a health check has passed on
          discarded,  \* history: databases the operator has given up by hand
          matched     \* history: the last start followed the schema (see below)

vars == <<dbs, running, checkout, merged, deploy, operator, backups, created,
          deploys, faults, served, discarded, matched>>

Live == "live"
Staging == "live_restoring"
Scratch == "scratch"
Names == {Live, Staging, Scratch} \cup Stamps
ASSUME StampsAssumption == Stamps \cap {Live, Staging, Scratch} = {}
NoDb == [id |-> 0, rev |-> 0]
Exists(n) == dbs[n].id # 0
Services == {"api", "worker"}
Stopped == [s \in Services |-> 0]
All(r) == [s \in Services |-> r]
Releases == 1 .. merged
NoDeploy == [pc |-> "idle", sha |-> 0, previous |-> 0, swapped |-> FALSE]
NoCommand == [pc |-> "idle", into |-> Scratch, tag |-> 0, rev |-> 0, kept |-> Scratch]

Init == /\ dbs = [n \in Names |-> IF n = Live THEN [id |-> 1, rev |-> HeadRev[1]] ELSE NoDb]
        /\ running = All(1) /\ checkout = 1 /\ merged = 1
        /\ deploy = NoDeploy /\ operator = NoCommand
        /\ backups = {} /\ created = 1 /\ deploys = 0 /\ faults = 0
        /\ served = {1} /\ discarded = {} /\ matched = TRUE

Fault == faults < MaxFaults /\ faults' = faults + 1

\* ALTER DATABASE and DROP DATABASE fail while a client is connected.
Connected(n) == n = Live /\ running # Stopped

(***************************************************************************)
(* droplet-deploy.sh, for a push to main or for an older release's sha.    *)
(***************************************************************************)
Merge == /\ merged < Len(HeadRev) /\ merged' = merged + 1
         /\ UNCHANGED <<dbs, running, checkout, deploy, operator, backups, created,
                        deploys, faults, served, discarded, matched>>

Deploying == UNCHANGED <<merged, operator, backups, created, discarded>>

StartDeploy == \E sha \in Releases :
  /\ deploy.pc = "idle" /\ deploys < MaxDeploys /\ deploys' = deploys + 1
  /\ deploy' = [pc |-> "pull", sha |-> sha, previous |-> checkout, swapped |-> FALSE]
  /\ checkout' = sha
  /\ Deploying /\ UNCHANGED <<dbs, running, faults, served, matched>>

Pull == /\ deploy.pc = "pull"
        /\ \/ deploy' = [deploy EXCEPT !.pc = "migrate"] /\ UNCHANGED <<checkout, faults>>
           \/ Fault /\ deploy' = NoDeploy /\ checkout' = deploy.previous
        /\ Deploying /\ UNCHANGED <<dbs, running, deploys, served, matched>>

\* The live database's revision, or 0 when the query fails.
Readable == IF faults < MaxFaults THEN {0, dbs[Live].rev} ELSE {dbs[Live].rev}

\* The revision read is one this image's migrations do not have.
SkipsMigrationUnread(read, r) == read = 0 \/ read > HeadRev[r]
SkipsMigration(read, r) == read # 0 /\ read > HeadRev[r]

\* `alembic upgrade head` needs the live database, at a revision it knows.
Upgradable(r) == Exists(Live) /\ dbs[Live].rev <= HeadRev[r]
Upgraded(r) == dbs' = [dbs EXCEPT ![Live].rev = HeadRev[r]]

Migrate == \E read \in Readable :
  /\ deploy.pc = "migrate"
  /\ faults' = IF read = dbs[Live].rev THEN faults ELSE faults + 1
  /\ \/ SkipsMigration(read, deploy.sha)
        /\ deploy' = [deploy EXCEPT !.pc = "up"] /\ UNCHANGED dbs
     \/ ~SkipsMigration(read, deploy.sha) /\ Upgradable(deploy.sha)
        /\ Upgraded(deploy.sha) /\ deploy' = [deploy EXCEPT !.pc = "up"]
     \/ ~SkipsMigration(read, deploy.sha) /\ ~Upgradable(deploy.sha)
        /\ deploy' = NoDeploy /\ UNCHANGED dbs
  /\ Deploying /\ UNCHANGED <<running, checkout, deploys, served, matched>>

\* `up` recreates both containers, or fails after the api's.
DeployUp ==
  /\ deploy.pc = "up"
  /\ \/ running' = All(deploy.sha) /\ deploy' = [deploy EXCEPT !.pc = "health"]
        /\ matched' = ~deploy.swapped /\ UNCHANGED faults
     \/ Fault /\ running' = [running EXCEPT !["api"] = deploy.sha] /\ deploy' = NoDeploy
        /\ matched' = (matched /\ ~deploy.swapped)
  /\ Deploying /\ UNCHANGED <<dbs, checkout, deploys, served>>

\* The health check may pass only while there is an api, and data to serve.
Healthy == running["api"] # 0 /\ Exists(Live) /\ served' = served \cup {dbs[Live].id}

DeployHealth == /\ deploy.pc = "health"
                /\ deploy' = NoDeploy
                /\ \/ running["worker"] # 0 /\ Healthy
                   \/ UNCHANGED served
                /\ Deploying /\ UNCHANGED <<dbs, running, checkout, deploys, faults, matched>>

\* The connection drops, or a command fails: what was done stays done.
DeployDies == /\ deploy.pc \in {"migrate", "up"} /\ Fault /\ deploy' = NoDeploy
              /\ Deploying /\ UNCHANGED <<dbs, running, checkout, deploys, served, matched>>

(***************************************************************************)
(* db-backup.sh: what it wrote can be restored later.                      *)
(***************************************************************************)
Backup == /\ Exists(Live) /\ backups' = backups \cup {dbs[Live].rev}
          /\ UNCHANGED <<dbs, running, checkout, merged, deploy, operator, created,
                         deploys, faults, served, discarded, matched>>

(***************************************************************************)
(* db-restore.sh.  The operator may name any database.                     *)
(***************************************************************************)
Commanding == UNCHANGED <<checkout, merged, deploys, backups>>
At(pc) == operator.pc = pc
Go(pc) == operator' = [operator EXCEPT !.pc = pc]

CheckNameNot(n) == n \in Names
CheckName(n) == n # Live

\* DROP DATABASE IF EXISTS: who names a kept database gives it up.
Dropped(n) ==
  /\ CheckName(n) /\ ~Connected(n)
  /\ dbs' = [dbs EXCEPT ![n] = NoDb]
  /\ discarded' = IF n \in Stamps THEN discarded \cup {dbs[n].id} ELSE discarded

Drop == \E n \in Names :
  /\ At("idle") /\ Exists(n) /\ Dropped(n)
  /\ Commanding /\ UNCHANGED <<running, deploy, operator, created, faults, served, matched>>

\* A rehearsal under a name of the operator's choice, a kept one included, or
\* --replace-live under the staging name: restore_into drops what has that name,
RestoreInto == \E n \in Names, rev \in backups :
  /\ At("idle") /\ created < MaxDatabases /\ Dropped(n)
  /\ operator' = [pc |-> "create", into |-> n, tag |-> checkout, rev |-> rev, kept |-> Scratch]
  /\ Commanding /\ UNCHANGED <<running, deploy, created, faults, served, matched>>

\* and then creates it anew.
Create == /\ At("create") /\ Go("fill") /\ created' = created + 1
          /\ dbs' = [dbs EXCEPT ![operator.into] = [id |-> created', rev |-> 0]]
          /\ Commanding /\ UNCHANGED <<running, deploy, faults, served, discarded, matched>>

\* pg_restore into it; only --replace-live goes on.
Fill == /\ At("fill")
        /\ dbs' = [dbs EXCEPT ![operator.into].rev = operator.rev]
        /\ \/ operator.into = Staging /\ Go("stop")
           \/ operator' = NoCommand
        /\ Commanding /\ UNCHANGED <<running, deploy, created, faults, served, discarded, matched>>

Stop == /\ At("stop") /\ Go("keep") /\ running' = Stopped
        /\ Commanding /\ UNCHANGED <<dbs, deploy, created, faults, served, discarded, matched>>

Renamed(from, to) == dbs' = [dbs EXCEPT ![to] = dbs[from], ![from] = NoDb]
CanRename(from, to) == Exists(from) /\ ~Exists(to) /\ ~Connected(from)

\* A deploy that has migrated and not yet started is about to meet another
\* schema, and so is a container that a deploy has started since the stop.
SwapSeen == /\ deploy' = [deploy EXCEPT !.swapped = @ \/ deploy.pc = "up"]
            /\ matched' = (matched /\ running = Stopped)

Keep == /\ At("keep")
        /\ \E k \in Stamps :
             \/ CanRename(Live, k) /\ Renamed(Live, k)
                /\ operator' = [operator EXCEPT !.pc = "swap", !.kept = k]
             \/ ~CanRename(Live, k) /\ operator' = NoCommand /\ UNCHANGED dbs
        /\ Commanding /\ UNCHANGED <<running, deploy, created, faults, served, discarded, matched>>

Swap == /\ At("swap") /\ CanRename(Staging, Live)
        /\ Renamed(Staging, Live) /\ Go("migrate") /\ SwapSeen
        /\ Commanding /\ UNCHANGED <<running, created, faults, served, discarded>>

\* The release that was checked out when the command began migrates and starts.
RestoreMigrate ==
  /\ At("migrate")
  /\ \/ Upgradable(operator.tag) /\ Upgraded(operator.tag) /\ Go("up")
     \/ ~Upgradable(operator.tag) /\ Go("failed") /\ UNCHANGED dbs
  /\ Commanding /\ UNCHANGED <<running, deploy, created, faults, served, discarded, matched>>

RestoreUp == /\ At("up") /\ Go("health") /\ running' = All(operator.tag) /\ matched' = TRUE
             /\ Commanding /\ UNCHANGED <<dbs, deploy, created, faults, served, discarded>>

RestoreHealth == /\ At("health")
                 /\ \/ Healthy /\ operator' = NoCommand
                    \/ Go("failed") /\ UNCHANGED served
                 /\ Commanding /\ UNCHANGED <<dbs, running, deploy, created, faults, discarded, matched>>

(***************************************************************************)
(* The runbook's undo of a restore that failed after the swap: the operator *)
(* types its commands one by one, and may leave it at any of them.         *)
(***************************************************************************)
UndoStop == /\ At("failed") /\ Go("aside") /\ running' = Stopped
            /\ Commanding /\ UNCHANGED <<dbs, deploy, created, faults, served, discarded, matched>>

\* Under the staging name the next --replace-live will drop it.
UndoAside == /\ At("aside") /\ CanRename(Live, Staging)
             /\ Renamed(Live, Staging) /\ Go("back")
             /\ discarded' = discarded \cup {dbs[Live].id}
             /\ Commanding /\ UNCHANGED <<running, deploy, created, faults, served, matched>>

UndoBack == /\ At("back") /\ CanRename(operator.kept, Live)
            /\ Renamed(operator.kept, Live) /\ Go("again") /\ SwapSeen
            /\ Commanding /\ UNCHANGED <<running, created, faults, served, discarded>>

\* `dc up -d` of what is checked out, with no migration.
UndoUp == /\ At("again") /\ operator' = NoCommand
          /\ running' = All(checkout) /\ matched' = FALSE
          /\ Commanding /\ UNCHANGED <<dbs, deploy, created, faults, served, discarded>>

ByHand == {"failed", "aside", "back", "again"}

GiveUp == /\ operator.pc \in ByHand /\ operator' = NoCommand
          /\ Commanding /\ UNCHANGED <<dbs, running, deploy, created, faults, served, discarded, matched>>

\* The connection drops, or a command fails; after the swap, it can be undone.
CommandDies ==
  /\ operator.pc \notin {"idle"} \cup ByHand /\ Fault
  /\ IF operator.pc \in {"migrate", "up", "health"} THEN Go("failed") ELSE operator' = NoCommand
  /\ Commanding /\ UNCHANGED <<dbs, running, deploy, created, served, discarded, matched>>

Next == \/ Merge \/ StartDeploy \/ Pull \/ Migrate \/ DeployUp \/ DeployHealth \/ DeployDies
        \/ Backup \/ Drop \/ RestoreInto \/ Create \/ Fill \/ Stop \/ Keep \/ Swap
        \/ RestoreMigrate \/ RestoreUp \/ RestoreHealth \/ CommandDies
        \/ UndoStop \/ UndoAside \/ UndoBack \/ UndoUp \/ GiveUp

Spec == Init /\ [][Next]_vars

(***************************************************************************)
(* Properties.                                                             *)
(***************************************************************************)

\* Whatever fails, wherever a script stops and whatever deploys come between,
\* every database the site has passed a health check on is live or kept aside
\* (db-restore.sh: "the old database is kept"), until the operator gives it up:
\* names it, as a kept one, to --drop or to a rehearsal, or undoes the restore
\* that brought it.
ServedDataKept == served \ discarded \subseteq {dbs[n].id : n \in {Live} \cup Stamps}

\* New code never runs against an old schema (droplet-deploy.sh:49, db-restore.sh:112):
\* a container is behind a live database's schema, or level with it, unless that
\* database was swapped in between a deploy's migration and its start, or an undo
\* started the checked-out release by hand, and no start has put it right since.
NewCodeNeedsNewSchema ==
  matched /\ Exists(Live) => \A s \in Services : running[s] > 0 => HeadRev[running[s]] <= dbs[Live].rev
=============================================================================
