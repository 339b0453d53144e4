------------------------- MODULE OperationsProofs -------------------------
(***************************************************************************)
(* ServedDataKept and NewCodeNeedsNewSchema are invariants of Operations,  *)
(* for any releases, names, deploys, restores and failures.                *)
(***************************************************************************)
EXTENDS Operations, TLAPS

AnyRelease == 1 .. Len(HeadRev)

DeployPCs == {"idle", "pull", "migrate", "up", "health"}
CommandPCs == {"idle", "create", "fill", "stop", "keep", "swap", "migrate", "up", "health"}
                \cup ByHand

DeployRec == [pc : DeployPCs, sha : {0} \cup AnyRelease,
              previous : {0} \cup AnyRelease, swapped : BOOLEAN]
CommandRec == [pc : CommandPCs, into : Names \ {Live}, tag : {0} \cup AnyRelease,
               rev : Nat, kept : Names]

(* What a command holds: a restore never has the live database to fill,    *)
(* and only a script under way has a release to start.                     *)
Types ==
  /\ dbs \in [Names -> [id : Nat, rev : Nat]]
  /\ running \in [Services -> {0} \cup AnyRelease]
  /\ checkout \in AnyRelease /\ merged \in AnyRelease
  /\ deploy \in DeployRec
  /\ deploy.pc # "idle" => deploy.sha # 0 /\ deploy.previous # 0
  /\ operator \in CommandRec
  /\ operator.pc # "idle" => operator.tag # 0
  /\ backups \subseteq Nat /\ created \in Nat /\ matched \in BOOLEAN
  /\ 0 \notin served

(* A database that has served is the live one or kept aside, unless it was *)
(* given up: never a staging or scratch one, which the scripts drop; and   *)
(* what a restore is about to create replaces nothing.                     *)
Safe(d) == \E n \in {Live} \cup Stamps : dbs[n].id = d
SafelyNamed == /\ \A d \in served \ discarded : Safe(d)
               /\ operator.pc = "create" => dbs[operator.into].id = 0

Follows(r) == HeadRev[r] <= dbs[Live].rev

(* What a script has migrated, it starts on a schema that still follows,   *)
(* unless another live database was swapped in between.                    *)
MigratedFirst ==
  /\ deploy.pc = "up" /\ ~deploy.swapped /\ Exists(Live) => Follows(deploy.sha)
  /\ operator.pc = "up" => Exists(Live) /\ Follows(operator.tag)

OpsInv == Types /\ SafelyNamed /\ MigratedFirst /\ NewCodeNeedsNewSchema

LEMMA HeadRevs == \A r \in AnyRelease : HeadRev[r] \in Nat
  BY HeadRevAssumption DEF AnyRelease

LEMMA InitOps == Init => OpsInv
<1> SUFFICES ASSUME Init PROVE OpsInv
  OBVIOUS
<1>1. 1 \in AnyRelease /\ HeadRev[1] \in Nat
  BY HeadRevAssumption, HeadRevs DEF AnyRelease
<1>2. dbs \in [Names -> [id : Nat, rev : Nat]] /\ running \in [Services -> {0} \cup AnyRelease]
  BY <1>1 DEF Init, NoDb, All
<1>3. /\ deploy \in DeployRec
      /\ deploy.pc = "idle"
  BY <1>1 DEF Init, NoDeploy, DeployPCs, DeployRec
<1>4. /\ operator \in CommandRec
      /\ operator.pc = "idle"
  BY <1>1 DEF Init, NoCommand, Names, CommandPCs, ByHand, CommandRec, Live, Scratch
<1>5. Types
  BY <1>1, <1>2, <1>3, <1>4 DEF Init, Types
<1>6. SafelyNamed /\ MigratedFirst /\ NewCodeNeedsNewSchema
  BY <1>1, <1>3, <1>4 DEF Init, SafelyNamed, Safe, Names, MigratedFirst, NewCodeNeedsNewSchema,
              All, Services, Live
<1> QED
  BY <1>5, <1>6 DEF OpsInv

LEMMA OpsImplies == OpsInv => ServedDataKept /\ NewCodeNeedsNewSchema
  BY DEF OpsInv, SafelyNamed, Safe, ServedDataKept, Names

(* A step that renames nothing, and leaves no creation to begin on another *)
(* name, keeps what has served under a safe name.                          *)
LEMMA NamesStay ==
  ASSUME OpsInv, UNCHANGED <<served, discarded>>,
         \A n \in Names : dbs'[n].id = dbs[n].id,
         operator' = operator \/ operator'.pc # "create"
  PROVE  SafelyNamed'
<1>1. operator.into \in Names /\ {Live} \cup Stamps \subseteq Names
  BY DEF OpsInv, Types, CommandRec, Names
<1>2. \A d \in served \ discarded : Safe(d)'
  BY <1>1 DEF OpsInv, SafelyNamed, Safe
<1>3. operator'.pc = "create" => dbs'[operator'.into].id = 0
  BY <1>1 DEF OpsInv, SafelyNamed
<1> QED
  BY <1>2, <1>3 DEF SafelyNamed

LEMMA MergeOps == OpsInv /\ Merge => OpsInv'
<1> SUFFICES ASSUME OpsInv, Merge PROVE OpsInv'
  OBVIOUS
<1> USE DEF OpsInv, Merge
<1>1. Types'
  <2>1. merged' \in AnyRelease
    BY HeadRevAssumption DEF Types, AnyRelease
  <2> QED
    BY <2>1 DEF Types
<1>2. SafelyNamed'
  BY DEF SafelyNamed, Safe
<1>3. MigratedFirst'
  BY DEF MigratedFirst, Follows, Exists
<1>4. NewCodeNeedsNewSchema'
  BY DEF NewCodeNeedsNewSchema, Exists
<1> QED
  BY <1>1, <1>2, <1>3, <1>4

LEMMA StartDeployOps == OpsInv /\ StartDeploy => OpsInv'
<1> SUFFICES ASSUME OpsInv, NEW sha \in Releases,
                    deploy' = [pc |-> "pull", sha |-> sha, previous |-> checkout, swapped |-> FALSE],
                    checkout' = sha, Deploying, UNCHANGED <<dbs, running, faults, served, matched>>
             PROVE  OpsInv'
  BY DEF StartDeploy
<1> USE DEF OpsInv, Deploying
<1>1. Types'
  <2>1. sha \in AnyRelease /\ sha # 0
    BY HeadRevAssumption DEF Types, AnyRelease, Releases
  <2>2. checkout \in AnyRelease /\ checkout # 0
    BY HeadRevAssumption DEF Types, AnyRelease
  <2> QED
    BY <2>1, <2>2 DEF Types, DeployPCs, DeployRec
<1>2. SafelyNamed'
  BY DEF SafelyNamed, Safe
<1>3. MigratedFirst'
  BY DEF MigratedFirst, Follows, Exists
<1>4. NewCodeNeedsNewSchema'
  BY DEF NewCodeNeedsNewSchema, Exists
<1> QED
  BY <1>1, <1>2, <1>3, <1>4

LEMMA PullOps == OpsInv /\ Pull => OpsInv'
<1> SUFFICES ASSUME OpsInv, Pull PROVE OpsInv'
  OBVIOUS
<1> USE DEF OpsInv, Deploying, Pull
<1>1. Types'
  <2>1. CASE deploy' = [deploy EXCEPT !.pc = "migrate"] /\ UNCHANGED checkout
    BY <2>1 DEF Types, DeployPCs, DeployRec
  <2>2. CASE deploy' = NoDeploy /\ checkout' = deploy.previous
    BY <2>2 DEF Types, NoDeploy, DeployPCs, DeployRec
  <2> QED
    BY <2>1, <2>2
<1>2. SafelyNamed'
  BY DEF SafelyNamed, Safe
<1>3. MigratedFirst'
  BY DEF MigratedFirst, Follows, Exists, NoDeploy, Types, DeployRec, CommandRec
<1>4. NewCodeNeedsNewSchema'
  BY DEF NewCodeNeedsNewSchema, Exists
<1> QED
  BY <1>1, <1>2, <1>3, <1>4

(* An upgrade keeps every database's name and only moves the schema on.    *)
LEMMA UpgradeOps ==
  ASSUME OpsInv, NEW r \in AnyRelease, Upgradable(r), Upgraded(r)
  PROVE  /\ dbs' \in [Names -> [id : Nat, rev : Nat]]
         /\ \A n \in Names : dbs'[n].id = dbs[n].id
         /\ dbs'[Live].rev = HeadRev[r] /\ dbs[Live].rev <= HeadRev[r]
<1>1. HeadRev[r] \in Nat /\ dbs \in [Names -> [id : Nat, rev : Nat]] /\ Live \in Names
  BY HeadRevs DEF OpsInv, Types, Names
<1> QED
  BY <1>1 DEF Upgradable, Upgraded

LEMMA MigrateOps == OpsInv /\ Migrate => OpsInv'
<1> SUFFICES ASSUME OpsInv, Migrate PROVE OpsInv'
  OBVIOUS
<1> DEFINE sha == deploy.sha
<1>1. PICK read \in Readable :
        /\ \/ SkipsMigration(read, sha) /\ deploy' = [deploy EXCEPT !.pc = "up"] /\ UNCHANGED dbs
           \/ ~SkipsMigration(read, sha) /\ Upgradable(sha)
                /\ Upgraded(sha) /\ deploy' = [deploy EXCEPT !.pc = "up"]
           \/ deploy' = NoDeploy /\ UNCHANGED dbs
        /\ deploy.pc = "migrate"
        /\ Deploying /\ UNCHANGED <<running, checkout, deploys, served, matched>>
  BY DEF Migrate
<1>2. /\ sha \in AnyRelease /\ HeadRev[sha] \in Nat /\ Live \in Names /\ dbs[Live].rev \in Nat
      /\ {Live} \cup Stamps \subseteq Names
  BY <1>1, HeadRevs DEF OpsInv, Types, Names, DeployRec, CommandRec
<1>3. \A r \in AnyRelease : HeadRev[r] \in Nat
  BY HeadRevs
<1>4. CASE UNCHANGED dbs /\ deploy' = [deploy EXCEPT !.pc = "up"] /\ SkipsMigration(read, sha)
  <2>1. Follows(sha)
    BY <1>2, <1>4 DEF SkipsMigration, Readable, Follows
  <2> QED
    BY <1>1, <1>2, <1>4, <2>1 DEF OpsInv, Deploying, Types, DeployPCs, DeployRec, SafelyNamed, Safe, MigratedFirst,
       Follows, Exists, NewCodeNeedsNewSchema
<1>5. CASE Upgradable(sha) /\ Upgraded(sha) /\ deploy' = [deploy EXCEPT !.pc = "up"]
  <2>1. /\ dbs' \in [Names -> [id : Nat, rev : Nat]]
        /\ \A n \in Names : dbs'[n].id = dbs[n].id
        /\ dbs'[Live].rev = HeadRev[sha] /\ dbs[Live].rev <= HeadRev[sha]
    BY <1>2, <1>5, UpgradeOps
  <2>2. Types' /\ SafelyNamed'
    <3>1. Types'
      BY <1>1, <1>2, <1>5, <2>1 DEF OpsInv, Deploying, Types, DeployPCs, DeployRec
    <3>2. SafelyNamed'
      BY <1>1, <2>1, NamesStay DEF Deploying
    <3> QED
      BY <3>1, <3>2
  <2>3. MigratedFirst'
    <3>1. Follows(sha)'
      BY <1>2, <1>5, <2>1 DEF Follows, OpsInv, Types
    <3>2. operator.pc = "up" => (Exists(Live) /\ Follows(operator.tag))'
      BY <1>1, <1>2, <1>3, <2>1 DEF Follows, OpsInv, Types, MigratedFirst, Exists, Deploying, DeployRec, CommandRec
    <3> QED
      BY <1>1, <1>5, <3>1, <3>2 DEF MigratedFirst, OpsInv, Types, Deploying, Follows
  <2>4. NewCodeNeedsNewSchema'
    <3>1. SUFFICES ASSUME matched, Exists(Live), NEW s \in Services, running[s] > 0
                   PROVE  HeadRev[running[s]] <= dbs'[Live].rev
      BY <1>1, <1>2, <2>1 DEF NewCodeNeedsNewSchema, Exists
    <3>2. HeadRev[running[s]] <= dbs[Live].rev /\ running[s] \in AnyRelease
      BY <3>1 DEF OpsInv, NewCodeNeedsNewSchema, Types
    <3> QED
      BY <1>2, <1>3, <2>1, <3>2
  <2> QED
    BY <2>2, <2>3, <2>4 DEF OpsInv
<1>6. CASE deploy' = NoDeploy /\ UNCHANGED dbs
  BY <1>1, <1>6 DEF OpsInv, Deploying, NoDeploy, DeployPCs, DeployRec, Types, SafelyNamed, Safe, MigratedFirst, Follows,
     Exists, NewCodeNeedsNewSchema
<1> QED
  BY <1>1, <1>4, <1>5, <1>6

LEMMA DeployUpOps == OpsInv /\ DeployUp => OpsInv'
<1> SUFFICES ASSUME OpsInv, DeployUp PROVE OpsInv'
  OBVIOUS
<1> USE DEF OpsInv, Deploying, DeployUp
<1>1. Types'
  <2>1. /\ deploy' \in DeployRec
        /\ deploy'.pc # "idle" => deploy'.sha # 0 /\ deploy'.previous # 0
    <3>1. CASE deploy' = [deploy EXCEPT !.pc = "health"]
      BY <3>1 DEF Types, DeployPCs, DeployRec
    <3>2. CASE deploy' = NoDeploy
      BY <3>2 DEF DeployPCs, DeployRec, NoDeploy
    <3> QED
      BY <3>1, <3>2
  <2>2. running' \in [Services -> {0} \cup AnyRelease]
    BY DEF Types, All, Services, DeployRec, CommandRec
  <2>3. matched' \in BOOLEAN
    BY DEF Types
  <2> QED
    BY <2>1, <2>2, <2>3 DEF Types
<1>2. SafelyNamed'
  BY DEF SafelyNamed, Safe
<1>3. MigratedFirst'
  BY DEF MigratedFirst, Follows, Exists, NoDeploy, Types, DeployPCs, DeployRec
<1>4. NewCodeNeedsNewSchema'
  BY DEF NewCodeNeedsNewSchema, Exists, MigratedFirst, Follows, All, Services, NoDeploy, Types
<1> QED
  BY <1>1, <1>2, <1>3, <1>4

LEMMA DeployHealthOps == OpsInv /\ DeployHealth => OpsInv'
<1> SUFFICES ASSUME OpsInv, DeployHealth PROVE OpsInv'
  OBVIOUS
<1> USE DEF OpsInv, Deploying, Healthy, Exists, DeployHealth
<1>1. Types'
  BY DEF Types, DeployPCs, DeployRec, NoDeploy
<1>2. SafelyNamed'
  BY DEF SafelyNamed, Safe, Types
<1>3. MigratedFirst'
  BY DEF MigratedFirst, Follows, Exists, NoDeploy, Types, DeployPCs, DeployRec
<1>4. NewCodeNeedsNewSchema'
  BY DEF NewCodeNeedsNewSchema, Exists
<1> QED
  BY <1>1, <1>2, <1>3, <1>4

LEMMA DeployDiesOps == OpsInv /\ DeployDies => OpsInv'
<1> SUFFICES ASSUME OpsInv, DeployDies PROVE OpsInv'
  OBVIOUS
<1> USE DEF OpsInv, Deploying, DeployDies
<1>1. Types'
  BY DEF Types, DeployPCs, DeployRec, NoDeploy
<1>2. SafelyNamed'
  BY DEF SafelyNamed, Safe
<1>3. MigratedFirst'
  BY DEF MigratedFirst, Follows, Exists, NoDeploy, Types, DeployPCs, DeployRec
<1>4. NewCodeNeedsNewSchema'
  BY DEF NewCodeNeedsNewSchema, Exists
<1> QED
  BY <1>1, <1>2, <1>3, <1>4

LEMMA BackupOps == OpsInv /\ Backup => OpsInv'
<1> SUFFICES ASSUME OpsInv, Backup PROVE OpsInv'
  OBVIOUS
<1> USE DEF OpsInv, Exists, Backup
<1>1. Types'
  BY DEF Types, Names
<1>2. SafelyNamed'
  BY DEF SafelyNamed, Safe
<1>3. MigratedFirst'
  BY DEF MigratedFirst, Follows, Exists
<1>4. NewCodeNeedsNewSchema'
  BY DEF NewCodeNeedsNewSchema, Exists
<1> QED
  BY <1>1, <1>2, <1>3, <1>4

LEMMA DropOps == OpsInv /\ Drop => OpsInv'
<1> SUFFICES ASSUME OpsInv, Drop PROVE OpsInv'
  OBVIOUS
<1> USE DEF OpsInv, Commanding, At, Go, Dropped, CheckName, Drop
<1>1. Types'
  BY DEF Types, Names, NoDb
<1>2. SafelyNamed'
  BY DEF SafelyNamed, Safe, Types, Names, NoDb
<1>3. MigratedFirst'
  BY DEF MigratedFirst, Follows, Exists, Types, Names
<1>4. NewCodeNeedsNewSchema'
  BY DEF NewCodeNeedsNewSchema, Exists, Types, Names
<1> QED
  BY <1>1, <1>2, <1>3, <1>4

LEMMA RestoreIntoOps == OpsInv /\ RestoreInto => OpsInv'
<1> SUFFICES ASSUME OpsInv, NEW n \in Names, NEW rev \in backups, Dropped(n),
                    operator' = [pc |-> "create", into |-> n, tag |-> checkout, rev |-> rev,
                                 kept |-> Scratch],
                    Commanding, UNCHANGED <<running, deploy, created, faults, served, matched>>
             PROVE  OpsInv'
  BY DEF RestoreInto
<1> USE DEF OpsInv, Commanding, Dropped, CheckName
<1>1. Types'
  <2>1. checkout \in AnyRelease /\ checkout # 0 /\ rev \in Nat /\ Scratch \in Names
    BY DEF Types, AnyRelease, Names
  <2>2. /\ operator' \in CommandRec
        /\ operator'.pc # "idle" => operator'.tag # 0
    BY <2>1 DEF CommandPCs, ByHand, CommandRec
  <2> QED
    BY <2>2 DEF Types, NoDb
<1>2. SafelyNamed'
  BY DEF SafelyNamed, Safe, Types, NoDb
<1>3. MigratedFirst'
  BY DEF MigratedFirst, Follows, Exists, Types, Names
<1>4. NewCodeNeedsNewSchema'
  BY DEF NewCodeNeedsNewSchema, Exists, Types, Names
<1> QED
  BY <1>1, <1>2, <1>3, <1>4

LEMMA CreateOps == OpsInv /\ Create => OpsInv'
<1> SUFFICES ASSUME OpsInv, Create PROVE OpsInv'
  OBVIOUS
<1> DEFINE n == operator.into
<1>1. /\ n \in Names \ {Live} /\ dbs[n].id = 0 /\ created' \in Nat
      /\ dbs' = [dbs EXCEPT ![n] = [id |-> created', rev |-> 0]]
  BY DEF OpsInv, Create, At, Types, SafelyNamed, CommandRec
<1>2. [id |-> created', rev |-> 0] \in [id : Nat, rev : Nat]
  BY <1>1
<1> HIDE DEF n
<1>3. dbs' \in [Names -> [id : Nat, rev : Nat]]
  BY <1>1, <1>2 DEF OpsInv, Types
<1>4. dbs'[Live] = dbs[Live] /\ \A m \in Names : dbs[m].id # 0 => dbs'[m].id = dbs[m].id
  BY <1>1 DEF OpsInv, Types
<1>5. Types'
  <2>1. operator \in CommandRec /\ operator.tag # 0
    BY DEF OpsInv, Create, At, Types
  <2>2. operator' \in CommandRec /\ operator'.tag # 0
    BY <2>1 DEF Create, Go, CommandPCs, ByHand, CommandRec
  <2> QED
    BY <1>1, <1>3, <2>2 DEF OpsInv, Create, Commanding, Types
<1>6. SafelyNamed'
  BY <1>4 DEF OpsInv, Create, Commanding, Go, SafelyNamed, Safe, Types, CommandRec, Names
<1>7. MigratedFirst'
  BY <1>4 DEF OpsInv, Create, Commanding, Go, MigratedFirst, Follows, Exists, Types, CommandRec
<1>8. NewCodeNeedsNewSchema'
  BY <1>4 DEF OpsInv, Create, Commanding, NewCodeNeedsNewSchema, Exists
<1> QED
  BY <1>5, <1>6, <1>7, <1>8 DEF OpsInv

LEMMA FillOps == OpsInv /\ Fill => OpsInv'
<1> SUFFICES ASSUME OpsInv, Fill PROVE OpsInv'
  OBVIOUS
<1> USE DEF OpsInv, Commanding, At, Go, Fill
<1>1. Types'
  BY DEF Types, Names, CommandPCs, ByHand, CommandRec, NoCommand, Live, Scratch
<1>2. SafelyNamed'
  BY DEF SafelyNamed, Safe, Types, Names, NoCommand, CommandRec
<1>3. MigratedFirst'
  BY DEF MigratedFirst, Follows, Exists, Types, Names, NoCommand, Live, Staging, Scratch, DeployRec, CommandRec
<1>4. NewCodeNeedsNewSchema'
  BY DEF NewCodeNeedsNewSchema, Exists, Types, Names, Live, Staging, Scratch, DeployRec, CommandRec
<1> QED
  BY <1>1, <1>2, <1>3, <1>4

LEMMA StopOps == OpsInv /\ Stop => OpsInv'
<1> SUFFICES ASSUME OpsInv, Stop PROVE OpsInv'
  OBVIOUS
<1> USE DEF OpsInv, Commanding, At, Go, Stopped, Stop
<1>1. Types'
  BY DEF Types, CommandPCs, ByHand, CommandRec, Services
<1>2. SafelyNamed'
  BY DEF SafelyNamed, Safe
<1>3. MigratedFirst'
  BY DEF MigratedFirst, Follows, Exists, Types, CommandPCs, ByHand, CommandRec
<1>4. NewCodeNeedsNewSchema'
  BY DEF NewCodeNeedsNewSchema, Exists, Services
<1> QED
  BY <1>1, <1>2, <1>3, <1>4

LEMMA KeepOps == OpsInv /\ Keep => OpsInv'
<1> SUFFICES ASSUME OpsInv, Keep PROVE OpsInv'
  OBVIOUS
<1> USE DEF OpsInv, Commanding, At, Go, CanRename, Renamed, Keep
<1>0. \/ \E k \in Stamps : operator' = [operator EXCEPT !.pc = "swap", !.kept = k]
      \/ operator' = NoCommand
  OBVIOUS
<1>1. Types'
  <2>1. dbs' \in [Names -> [id : Nat, rev : Nat]]
    BY DEF Types, Names, NoDb
  <2>2. /\ operator' \in CommandRec
        /\ operator'.pc # "idle" => operator'.tag # 0
    <3>1. operator \in CommandRec
          /\ operator.pc # "idle" /\ (operator.pc # "idle" => operator.tag # 0)
      BY DEF Types
    <3> HIDE DEF OpsInv, Keep, Commanding
    <3>2. CASE \E k \in Stamps : operator' = [operator EXCEPT !.pc = "swap", !.kept = k]
      BY <3>1, <3>2 DEF Names, CommandPCs, ByHand, CommandRec
    <3>3. CASE operator' = NoCommand
      BY <3>3 DEF Names, CommandPCs, ByHand, CommandRec, NoCommand, Live, Scratch
    <3> QED
      BY <1>0, <3>2, <3>3
  <2> QED
    BY <2>1, <2>2 DEF Types
<1>2. SafelyNamed'
  <2>1. operator'.pc # "create"
    <3>1. operator \in CommandRec
      BY DEF Types
    <3> HIDE DEF OpsInv, Keep, Commanding
    <3>2. ASSUME NEW k \in Stamps, operator' = [operator EXCEPT !.pc = "swap", !.kept = k]
          PROVE  operator'.pc = "swap"
      BY <3>1, <3>2 DEF CommandRec
    <3>3. CASE operator' = NoCommand
      BY <3>3 DEF NoCommand
    <3> QED
      BY <1>0, <3>2, <3>3
  <2>2. \A d \in served \ discarded : Safe(d)'
    BY DEF SafelyNamed, Safe, Types, Names, NoDb, Exists
  <2> QED
    BY <2>1, <2>2 DEF SafelyNamed
<1>3. MigratedFirst'
  <2>1. operator'.pc # "up"
    <3>1. operator \in CommandRec
      BY DEF Types
    <3> HIDE DEF OpsInv, Keep, Commanding
    <3>2. ASSUME NEW k \in Stamps, operator' = [operator EXCEPT !.pc = "swap", !.kept = k]
          PROVE  operator'.pc = "swap"
      BY <3>1, <3>2
    <3>3. CASE operator' = NoCommand
      BY <3>3 DEF NoCommand
    <3> QED
      BY <1>0, <3>2, <3>3
  <2>2. UNCHANGED dbs \/ ~Exists(Live)'
    BY StampsAssumption DEF Types, Exists, Names, NoDb
  <2> QED
    BY <2>1, <2>2 DEF MigratedFirst, Follows, Exists
<1>4. NewCodeNeedsNewSchema'
  BY DEF NewCodeNeedsNewSchema, Exists, Types, Names, NoDb, Live
<1> QED
  BY <1>1, <1>2, <1>3, <1>4

LEMMA SwapOps == OpsInv /\ Swap => OpsInv'
<1> SUFFICES ASSUME OpsInv, Swap PROVE OpsInv'
  OBVIOUS
<1> USE DEF OpsInv, Commanding, At, Go, CanRename, Renamed, SwapSeen, Swap
<1>1. Types'
  BY DEF Types, Names, CommandPCs, ByHand, CommandRec, DeployPCs, DeployRec, NoDb
<1>2. SafelyNamed'
  BY DEF SafelyNamed, Safe, Types, Names, NoDb, Exists
<1>3. MigratedFirst'
  BY DEF MigratedFirst, Follows, Exists, Types, CommandPCs, ByHand, CommandRec, DeployPCs, DeployRec
<1>4. NewCodeNeedsNewSchema'
  <2>1. matched' = (matched /\ running = Stopped) /\ running' = running
    OBVIOUS
  <2>2. \A s \in Services : Stopped[s] = 0
    BY DEF Stopped, Services
  <2> HIDE DEF OpsInv, Swap, SwapSeen, Renamed, Commanding
  <2>3. ASSUME matched', NEW s \in Services PROVE ~(running'[s] > 0)
    <3>1. running' = Stopped
      BY <2>1, <2>3
    <3> QED
      BY <2>2, <3>1
  <2> QED
    BY <2>3 DEF NewCodeNeedsNewSchema
<1> QED
  BY <1>1, <1>2, <1>3, <1>4

LEMMA RestoreUpOps == OpsInv /\ RestoreUp => OpsInv'
<1> SUFFICES ASSUME OpsInv, RestoreUp PROVE OpsInv'
  OBVIOUS
<1> USE DEF OpsInv, Commanding, At, Go, RestoreUp
<1>1. Types'
  BY DEF Types, CommandPCs, ByHand, CommandRec, All, Services
<1>2. SafelyNamed'
  BY DEF SafelyNamed, Safe
<1>3. MigratedFirst'
  BY DEF MigratedFirst, Follows, Exists, Types, CommandPCs, ByHand, CommandRec
<1>4. NewCodeNeedsNewSchema'
  BY DEF NewCodeNeedsNewSchema, Exists, MigratedFirst, Follows, All, Services, Types
<1> QED
  BY <1>1, <1>2, <1>3, <1>4

LEMMA RestoreHealthOps == OpsInv /\ RestoreHealth => OpsInv'
<1> SUFFICES ASSUME OpsInv, RestoreHealth PROVE OpsInv'
  OBVIOUS
<1> USE DEF OpsInv, Commanding, At, Go, Healthy, Exists, RestoreHealth
<1>1. Types'
  BY DEF Types, CommandPCs, ByHand, CommandRec, NoCommand, Names, Live, Scratch
<1>2. SafelyNamed'
  <2>1. operator'.pc # "create"
    BY DEF Types, CommandRec, NoCommand
  <2>2. \A d \in served' \ discarded' : Safe(d)'
    BY DEF SafelyNamed, Safe
  <2> QED
    BY <2>1, <2>2 DEF SafelyNamed
<1>3. MigratedFirst'
  BY DEF MigratedFirst, Follows, Exists, NoCommand, Types, CommandPCs, ByHand, CommandRec
<1>4. NewCodeNeedsNewSchema'
  BY DEF NewCodeNeedsNewSchema, Exists
<1> QED
  BY <1>1, <1>2, <1>3, <1>4

LEMMA UndoStopOps == OpsInv /\ UndoStop => OpsInv'
<1> SUFFICES ASSUME OpsInv, UndoStop PROVE OpsInv'
  OBVIOUS
<1> USE DEF OpsInv, Commanding, At, Go, UndoStop
<1>1. Types'
  BY DEF Types, CommandPCs, ByHand, CommandRec, Services, Stopped
<1>2. SafelyNamed'
  BY DEF SafelyNamed, Safe, Types, CommandRec
<1>3. MigratedFirst'
  BY DEF MigratedFirst, Follows, Exists, Types, CommandRec
<1>4. NewCodeNeedsNewSchema'
  BY DEF NewCodeNeedsNewSchema, Exists, Services, Stopped
<1> QED
  BY <1>1, <1>2, <1>3, <1>4

LEMMA UndoAsideOps == OpsInv /\ UndoAside => OpsInv'
<1> SUFFICES ASSUME OpsInv, UndoAside PROVE OpsInv'
  OBVIOUS
<1> USE DEF OpsInv, Commanding, At, Go, UndoAside
<1>1. Types'
  BY DEF Types, CommandPCs, ByHand, CommandRec, Names, NoDb, CanRename, Renamed
<1>2. SafelyNamed'
  <2>1. operator'.pc # "create"
    BY DEF Types, CommandRec
  <2>2. \A n \in Stamps : dbs'[n] = dbs[n]
    BY StampsAssumption DEF Types, Names, Renamed
  <2>3. discarded' = discarded \cup {dbs[Live].id} /\ served' = served
    OBVIOUS
  <2>4. \A d \in served' \ discarded' : Safe(d)'
    BY <2>2, <2>3 DEF SafelyNamed, Safe
  <2> QED
    BY <2>1, <2>4 DEF SafelyNamed
<1>3. MigratedFirst'
  BY DEF MigratedFirst, Follows, Exists, Types, CommandRec, Names, NoDb, CanRename, Renamed, Live, Staging
<1>4. NewCodeNeedsNewSchema'
  BY DEF NewCodeNeedsNewSchema, Exists, Types, Names, NoDb, CanRename, Renamed, Live, Staging
<1> QED
  BY <1>1, <1>2, <1>3, <1>4

LEMMA UndoBackOps == OpsInv /\ UndoBack => OpsInv'
<1> SUFFICES ASSUME OpsInv, UndoBack PROVE OpsInv'
  OBVIOUS
<1> USE DEF OpsInv, Commanding, At, Go, CanRename, Renamed, SwapSeen, UndoBack
<1>1. Types'
  BY DEF Types, Names, CommandPCs, ByHand, CommandRec, DeployPCs, DeployRec, NoDb
<1>2. SafelyNamed'
  BY DEF SafelyNamed, Safe, Types, Names, NoDb, Exists
<1>3. MigratedFirst'
  BY DEF MigratedFirst, Follows, Exists, Types, CommandPCs, ByHand, CommandRec, DeployPCs, DeployRec
<1>4. NewCodeNeedsNewSchema'
  <2>1. matched' = (matched /\ running = Stopped) /\ running' = running
    OBVIOUS
  <2>2. \A s \in Services : Stopped[s] = 0
    BY DEF Stopped, Services
  <2> HIDE DEF OpsInv, UndoBack, SwapSeen, Renamed, Commanding
  <2>3. ASSUME matched', NEW s \in Services PROVE ~(running'[s] > 0)
    <3>1. running' = Stopped
      BY <2>1, <2>3
    <3> QED
      BY <2>2, <3>1
  <2> QED
    BY <2>3 DEF NewCodeNeedsNewSchema
<1> QED
  BY <1>1, <1>2, <1>3, <1>4

LEMMA UndoUpOps == OpsInv /\ UndoUp => OpsInv'
<1> SUFFICES ASSUME OpsInv, UndoUp PROVE OpsInv'
  OBVIOUS
<1> USE DEF OpsInv, Commanding, At, Go, UndoUp
<1>1. Types'
  BY DEF Types, CommandPCs, ByHand, CommandRec, Services, All, NoCommand, Names, Live, Scratch
<1>2. SafelyNamed'
  BY DEF SafelyNamed, Safe, NoCommand
<1>3. MigratedFirst'
  BY DEF MigratedFirst, Follows, Exists, NoCommand, Types
<1>4. NewCodeNeedsNewSchema'
  BY DEF NewCodeNeedsNewSchema, Exists, Services
<1> QED
  BY <1>1, <1>2, <1>3, <1>4

LEMMA GiveUpOps == OpsInv /\ GiveUp => OpsInv'
<1> SUFFICES ASSUME OpsInv, GiveUp PROVE OpsInv'
  OBVIOUS
<1> USE DEF OpsInv, Commanding, At, Go, GiveUp
<1>1. Types'
  BY DEF Types, CommandPCs, ByHand, CommandRec, NoCommand, Names, Live, Scratch
<1>2. SafelyNamed'
  BY DEF SafelyNamed, Safe, NoCommand
<1>3. MigratedFirst'
  BY DEF MigratedFirst, Follows, Exists, NoCommand
<1>4. NewCodeNeedsNewSchema'
  BY DEF NewCodeNeedsNewSchema, Exists
<1> QED
  BY <1>1, <1>2, <1>3, <1>4

LEMMA CommandDiesOps == OpsInv /\ CommandDies => OpsInv'
<1> SUFFICES ASSUME OpsInv, CommandDies PROVE OpsInv'
  OBVIOUS
<1> USE DEF OpsInv, Commanding, At, Go, CommandDies
<1>1. Types'
  BY DEF Types, CommandPCs, ByHand, CommandRec, NoCommand, Names, Live, Scratch
<1>2. SafelyNamed'
  BY DEF SafelyNamed, Safe, Types, CommandRec, CommandPCs, ByHand, NoCommand
<1>3. MigratedFirst'
  <2>1. operator'.pc # "up"
    BY DEF Types, CommandRec, NoCommand
  <2> QED
    BY <2>1 DEF MigratedFirst, Follows, Exists
<1>4. NewCodeNeedsNewSchema'
  BY DEF NewCodeNeedsNewSchema, Exists
<1> QED
  BY <1>1, <1>2, <1>3, <1>4

LEMMA RestoreMigrateOps == OpsInv /\ RestoreMigrate => OpsInv'
<1> SUFFICES ASSUME OpsInv, RestoreMigrate PROVE OpsInv'
  OBVIOUS
<1> DEFINE tag == operator.tag
<1>1. /\ tag \in AnyRelease /\ HeadRev[tag] \in Nat /\ Live \in Names /\ dbs[Live].rev \in Nat
      /\ {Live} \cup Stamps \subseteq Names /\ operator \in CommandRec
  BY HeadRevs DEF RestoreMigrate, At, OpsInv, Types, Names, CommandRec
<1>2. UNCHANGED <<running, checkout, merged, deploy, deploys, backups, created, faults, served,
                  discarded, matched>>
  BY DEF RestoreMigrate, Commanding
<1>3. CASE Upgradable(tag) /\ Upgraded(tag) /\ operator' = [operator EXCEPT !.pc = "up"]
  <2>1. /\ dbs' \in [Names -> [id : Nat, rev : Nat]]
        /\ \A n \in Names : dbs'[n].id = dbs[n].id
        /\ dbs'[Live].rev = HeadRev[tag] /\ dbs[Live].rev <= HeadRev[tag]
    BY <1>1, <1>3, UpgradeOps
  <2>2. operator' \in CommandRec /\ operator'.tag = tag /\ tag # 0
    BY <1>1, <1>3 DEF CommandRec, CommandPCs, ByHand, AnyRelease
  <2>3. Types' /\ SafelyNamed'
    <3>1. Types'
      BY <1>1, <1>2, <2>1, <2>2 DEF OpsInv, Types
    <3>2. operator'.pc # "create"
      BY <1>1, <1>3 DEF CommandRec
    <3>3. SafelyNamed'
      BY <1>2, <2>1, <3>2, NamesStay
    <3> QED
      BY <3>1, <3>3
  <2>4. MigratedFirst'
    <3>1. (Exists(Live) /\ Follows(tag))'
      BY <1>1, <1>3, <2>1, <2>2 DEF Upgradable, Exists, Follows
    <3>2. ASSUME deploy.pc = "up", ~deploy.swapped, Exists(Live) PROVE Follows(deploy.sha)'
      <4>1. deploy.sha \in AnyRelease /\ HeadRev[deploy.sha] <= dbs[Live].rev
        BY <3>2 DEF OpsInv, Types, DeployRec, MigratedFirst, Follows
      <4> QED
        BY <1>1, <1>2, <2>1, <4>1, HeadRevs DEF Follows
    <3> QED
      BY <1>1, <1>2, <1>3, <2>1, <2>2, <3>1, <3>2 DEF MigratedFirst, Exists, Follows
  <2>5. NewCodeNeedsNewSchema'
    <3>1. SUFFICES ASSUME matched, Exists(Live), NEW s \in Services, running[s] > 0
                   PROVE  HeadRev[running[s]] <= dbs'[Live].rev
      BY <1>1, <1>2, <2>1 DEF NewCodeNeedsNewSchema, Exists
    <3>2. HeadRev[running[s]] <= dbs[Live].rev /\ running[s] \in AnyRelease
      BY <3>1 DEF OpsInv, NewCodeNeedsNewSchema, Types
    <3> QED
      BY <1>1, <2>1, <3>2, HeadRevs
  <2> QED
    BY <2>3, <2>4, <2>5 DEF OpsInv
<1>4. CASE operator' = [operator EXCEPT !.pc = "failed"] /\ UNCHANGED dbs
  <2>1. operator' \in CommandRec /\ operator'.pc = "failed" /\ operator'.tag # 0
    BY <1>1, <1>4 DEF CommandRec, CommandPCs, ByHand, AnyRelease
  <2>2. Types'
    BY <1>2, <1>4, <2>1 DEF OpsInv, Types
  <2> QED
    BY <1>2, <1>4, <2>1, <2>2 DEF OpsInv, SafelyNamed, Safe, MigratedFirst, Follows, Exists,
       NewCodeNeedsNewSchema
<1> QED
  BY <1>3, <1>4 DEF RestoreMigrate, Go

LEMMA NextOps == OpsInv /\ [Next]_vars => OpsInv'
<1> SUFFICES ASSUME OpsInv, [Next]_vars PROVE OpsInv'
  OBVIOUS
<1>1. CASE Merge \/ StartDeploy \/ Pull \/ Migrate \/ DeployUp \/ DeployHealth \/ DeployDies \/ Backup
  BY <1>1, MergeOps, StartDeployOps, PullOps, MigrateOps, DeployUpOps, DeployHealthOps,
     DeployDiesOps, BackupOps
<1>2. CASE Drop \/ RestoreInto \/ Create \/ Fill \/ Stop \/ Keep \/ Swap \/ RestoreMigrate
  BY <1>2, DropOps, RestoreIntoOps, CreateOps, FillOps, StopOps, KeepOps, SwapOps, RestoreMigrateOps
<1>3. CASE RestoreUp \/ RestoreHealth \/ GiveUp \/ CommandDies
               \/ UndoStop \/ UndoAside \/ UndoBack \/ UndoUp
  BY <1>3, RestoreUpOps, RestoreHealthOps, GiveUpOps, CommandDiesOps, UndoStopOps,
     UndoAsideOps, UndoBackOps, UndoUpOps
<1>4. CASE UNCHANGED vars
  BY <1>4 DEF vars, OpsInv, Types, SafelyNamed, Safe, MigratedFirst, Follows, Exists,
     NewCodeNeedsNewSchema
<1> QED
  BY <1>1, <1>2, <1>3, <1>4 DEF Next

(* A database the site has served from is live or kept aside, until the    *)
(* operator names it, as a kept one, to --drop or to a rehearsal, or undoes *)
(* the restore that brought it (db-restore.sh:46-153).                     *)
THEOREM ServedDataIsKept == Spec => []ServedDataKept
<1>1. Spec => []OpsInv
  BY InitOps, NextOps, PTL DEF Spec
<1> QED
  BY <1>1, OpsImplies, PTL

(* No script starts code on a schema older than the code's, unless a swap  *)
(* of the live database came between its migration and its start           *)
(* (droplet-deploy.sh:49-74, db-restore.sh:103-119).                       *)
THEOREM NewCodeHasNewSchema == Spec => []NewCodeNeedsNewSchema
<1>1. Spec => []OpsInv
  BY InitOps, NextOps, PTL DEF Spec
<1> QED
  BY <1>1, OpsImplies, PTL
=============================================================================
