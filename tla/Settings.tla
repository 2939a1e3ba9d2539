------------------------------ MODULE Settings ------------------------------
(***************************************************************************)
(* The configuration: what the loader makes of a file                      *)
(* (infrastructure/config/settings.py, PoolSpec.__post_init__), how a      *)
(* daemon is built from it (composition.py) and how a SIGHUP puts an       *)
(* edited file in force beside what was built (daemon.py, replace_pools).  *)
(*                                                                         *)
(* A TOML table is a function from the keys that are written to their      *)
(* values, so that "key in table" is k \in DOMAIN t.  Each key has a few   *)
(* values that the loader tells apart, given by the constants.             *)
(***************************************************************************)
EXTENDS ScalingPolicy, Sequences, SequencesExt

CONSTANTS
  Bases,            (* the files an operator starts from                   *)
  PoolValues,       (* per key of a [[pool]]: what may be written          *)
  CredentialValues, (* per key of a [[github.credentials]]                 *)
  SectionValues,    (* per section, per key: what may be written           *)
  HostCores,        (* host_cores()                                        *)
  MaxEdits          (* bound on the changes to the file                    *)

(* What may stand where a number belongs, besides numbers: a word, the     *)
(* empty string, and "unlimited".  Of the numbers, -1 is any below zero.   *)
Junk == -9
Blank == -8
Unlimited == -7

Numbers == Nat \cup {-1, Junk, Blank, Unlimited}

(* A limit that is not set.                                                *)
Unset == -1

(* A word that is written and says nothing.                                *)
Empty == ""

(* What stands where a table belongs and is none.                          *)
Scalar == [scalar |-> TRUE]

Sections == {"daemon", "housekeeping", "capacity"}

(* The keys of a [[pool]] and of its container that a check looks at, or   *)
(* that may be written in two ways.  Memory, network and docker_socket go  *)
(* through as they are; a key the loader does not know is not looked at.   *)
Numbered ==
  {"min_idle", "max_idle", "max_runners", "max_launch_per_tick", "priority",
   "idle_timeout", "max_job_duration"}

PoolKeys ==
  Numbered \cup
  {"name", "repository", "organization", "repositories", "discover_repositories",
   "runner_group", "credential", "labels", "requires_labels", "pm", "image", "cpus", "gpus",
   "environment", "volumes"}

Elements(s) == {s[i] : i \in DOMAIN s}

IsPoolTable(t) ==
  \/ t = Scalar
  \/ DOMAIN t \subseteq PoolKeys /\ \A k \in DOMAIN t \cap Numbered : t[k] \in Numbers

(* What stands in a file under [[pool]].                                   *)
ArePools(ts) == ts \in Seq(Elements(ts)) /\ \A t \in Elements(ts) : IsPoolTable(t)

IsCapacity(t) == "max_containers" \in DOMAIN t => t["max_containers"] \in Numbers

IsDropin(d) == DOMAIN d = {"parses", "global", "pools"} /\ ArePools(d.pools)

(* A file, however wrong it may be.                                        *)
IsFile(f) ==
  /\ DOMAIN f = Sections \cup {"parses", "legacy", "credentials", "include", "pools", "dropins"}
  /\ ArePools(f.pools)
  /\ f.dropins \in Seq(Elements(f.dropins)) /\ \A d \in Elements(f.dropins) : IsDropin(d)
  /\ IsCapacity(f.capacity)

ASSUME SettingsAssumption ==
  /\ HostCores \in Nat \ {0}
  /\ MaxEdits \in Nat
  /\ \A f \in Bases : IsFile(f)
  /\ DOMAIN PoolValues \subseteq PoolKeys
  /\ \A k \in DOMAIN PoolValues \cap Numbered : PoolValues[k] \subseteq Numbers
  /\ DOMAIN SectionValues = Sections
  /\ "max_containers" \in DOMAIN SectionValues.capacity
       => SectionValues.capacity.max_containers \subseteq Numbers

VARIABLES
  file,        (* the configuration file and those it includes             *)
  edits,       (* changes made to it                                       *)
  phase,       (* of the daemon: "off", "running", "crashed"               *)
  built,       (* Application.credentials: those that have a client        *)
  settings,    (* Application.settings: pools and capacity                 *)
  reconciler,  (* ReconciliationService._pools and ._capacity              *)
  answer       (* what the journal says of the last reload                 *)

vars == <<file, edits, phase, built, settings, reconciler, answer>>

Get(t, k, default) == IF k \in DOMAIN t THEN t[k] ELSE default

Put(t, k, v) == [x \in DOMAIN t \cup {k} |-> IF x = k THEN v ELSE t[x]]

Drop(t, k) == [x \in DOMAIN t \ {k} |-> t[x]]

(* A load is a chain of checks; the first that fails decides how it ends:  *)
(* with a ConfigError, or with an exception nobody translates.             *)
Verdict == {"accepted", "refused", "raised"}

FirstFailure(verdicts) ==
  LET bad == {i \in DOMAIN verdicts : verdicts[i] # "accepted"} IN
  IF bad = {} THEN "accepted" ELSE verdicts[CHOOSE i \in bad : \A k \in bad : i <= k]

Unless(wrong, verdict) == IF wrong THEN verdict ELSE "accepted"

-----------------------------------------------------------------------------
(* Values.                                                                 *)

(* parse_duration: a number of seconds, which may be negative, or text.    *)
IsDuration(v) == v \notin {Junk, Blank}

(* int(value), which is not asked of a key that was left out.              *)
IsNumber(v) == v \notin {Junk, Blank, Unlimited}

(* parse_size: a number and its unit.                                      *)
IsSize(v) == v \notin {Junk, Unlimited}

(* RepositoryTarget.parse, OrganizationTarget: what GitHub could have      *)
(* named so; LabelSet.from_iterable: labels that GitHub would take.        *)
IsTarget(v) == v # "malformed"
IsLabelSet(v) == v # "malformed"

-----------------------------------------------------------------------------
(* [[github.credentials]]: _github, _one_credential.                       *)

CredentialIsSound(c) ==
  /\ c # Scalar
  /\ Get(c, "name", Empty) # Empty
  /\ IsNumber(Get(c, "installation_id", 0))
  /\ Get(c, "private_key_file", FALSE) => Get(c, "app_id", FALSE)
  /\ IsDuration(Get(c, "request_timeout", 20))

Names(credentials) == {credentials[i].name : i \in DOMAIN credentials}

GitHubVerdict(f) ==
  Unless(\/ f.legacy
         \/ f.credentials = <<>>
         \/ \E c \in Elements(f.credentials) : ~CredentialIsSound(c)
         \/ Cardinality(Names(f.credentials)) # Len(f.credentials),
         "refused")

-----------------------------------------------------------------------------
(* [daemon] and [housekeeping].                                            *)

(* "never", false and nothing switch an age off.                           *)
IsAge(v) == IsDuration(v) \/ v = Blank

DaemonVerdict(t) ==
  Unless(\/ t = Scalar
         \/ Get(t, "log_format", "auto") \notin {"auto", "console", "json"}
         \/ Get(t, "host", "box") = "blank"
         \/ \E k \in {"poll_interval", "stop_timeout"} : ~IsDuration(Get(t, k, 15)),
         "refused")

HousekeepingVerdict(t) ==
  Unless(\/ t = Scalar
         \/ ~IsDuration(Get(t, "every", 1))
         \/ ~IsAge(Get(t, "containers_older_than", 1))
         \/ ~IsAge(Get(t, "images_older_than", 24))
         \/ ~IsAge(Get(t, "build_cache_older_than", 24)),
         "refused")

-----------------------------------------------------------------------------
(* [capacity]: _capacity.  Only the number of containers is read outside   *)
(* the try that turns a word into a ConfigError.                           *)

HighWater == {"cpu_high_water", "memory_high_water", "disk_high_water", "io_high_water"}

Limit(t, k) == IF Get(t, k, Blank) = Blank THEN Unset ELSE t[k]

CapacityVerdict(t) ==
  IF t = Scalar THEN "refused" ELSE
  FirstFailure(<<
    Unless(~IsSize(Get(t, "max_memory", Blank)), "refused"),
    Unless(Get(t, "max_containers", Blank) = Junk, "raised"),
    Unless(Get(t, "max_containers", Blank) \in {-1, 0}, "refused"),
    Unless(\/ Get(t, "max_cpus", Blank) \in {Junk, Unlimited, -1, 0}
           \/ \E k \in HighWater :
                Get(t, k, Blank) # Blank /\ Get(t, k, Blank) \notin 1..100,
           "refused")>>)

(* One runner per core, unless told otherwise.                             *)
MaxContainers(t) ==
  LET written == Get(t, "max_containers", Blank) IN
  CASE written = Blank     -> HostCores
    [] written = Unlimited -> Unset
    [] OTHER               -> written

Capacity(t) ==
  [containers |-> MaxContainers(t), cpus |-> Limit(t, "max_cpus"),
   memory |-> Limit(t, "max_memory"),
   mark |-> [k \in HighWater |-> Limit(t, k)]]

-----------------------------------------------------------------------------
(* [[pool]]: _pool and its helpers, and the checks of PoolSpec itself.     *)

Mode(t) == IF Get(t, "pm", Empty) = Empty THEN "dynamic" ELSE t["pm"]

(* _process_manager: the knobs that do nothing under a mode.               *)
IdleKnobs(mode) ==
  CASE mode = "static"   -> {"min_idle", "max_idle", "idle_timeout"}
    [] mode = "ondemand" -> {"min_idle", "max_idle"}
    [] OTHER             -> {}

MinIdle(t) == IF Mode(t) = "dynamic" THEN Get(t, "min_idle", 0) ELSE 0

MaxIdle(t) ==
  IF Mode(t) = "dynamic" /\ Get(t, "max_idle", Blank) # Blank THEN t["max_idle"] ELSE NoCeiling

(* As a bug would have it: knobs that do nothing are let through.          *)
LaxModeIsSound(t) ==
  /\ Mode(t) \in ProcessManager
  /\ Mode(t) = "dynamic" =>
       /\ IsNumber(Get(t, "min_idle", 0))
       /\ Get(t, "max_idle", Blank) # Blank => IsNumber(t["max_idle"]) /\ MaxIdle(t) >= MinIdle(t)

ModeIsSound(t) ==
  /\ Mode(t) \in ProcessManager
  /\ IdleKnobs(Mode(t)) \cap DOMAIN t = {}
  /\ Mode(t) = "dynamic" =>
       /\ IsNumber(Get(t, "min_idle", 0))
       /\ Get(t, "max_idle", Blank) # Blank => IsNumber(t["max_idle"]) /\ MaxIdle(t) >= MinIdle(t)

Repository(t) == Get(t, "repository", Empty)
Organization(t) == Get(t, "organization", Empty)

(* _target: exactly one of the two, and well-formed.                       *)
TargetIsSound(t) ==
  /\ (Repository(t) = Empty) # (Organization(t) = Empty)
  /\ IsTarget(Repository(t)) /\ IsTarget(Organization(t))

(* _priority: a weight, from 1.                                            *)
Priority(t) == IF Get(t, "priority", Blank) = Blank THEN 1 ELSE t["priority"]

(* _pool_credential: what a pool that names none uses.                     *)
Credential(t) == IF Get(t, "credential", Empty) = Empty THEN "default" ELSE t["credential"]

CredentialIsKnown(t, names) == Credential(t) \in names

(* _repositories, _required_labels: an empty one is none.                  *)
Watched(t) == Get(t, "repositories", Empty)
Required(t) == Get(t, "requires_labels", Empty)

SpecOf(t) ==
  [name |-> t["name"], pm |-> Mode(t), min_idle |-> MinIdle(t), max_idle |-> MaxIdle(t),
   max_runners |-> Get(t, "max_runners", 2),
   max_launch_per_tick |-> Get(t, "max_launch_per_tick", 2),
   idle_timeout |-> Get(t, "idle_timeout", 600),
   max_job_duration |-> Get(t, "max_job_duration", 7200),
   priority |-> Priority(t), requires |-> Required(t),
   repository |-> Repository(t), organization |-> Organization(t),
   repositories |-> Watched(t), discover |-> Get(t, "discover_repositories", FALSE),
   group |-> Get(t, "runner_group", Empty)]

(* What the constructor is given can be read.                              *)
ArgumentsAreSound(t) ==
  /\ Get(t, "name", Empty) # Empty
  /\ Get(t, "labels", "none") # "none" /\ IsLabelSet(t["labels"])
  /\ Get(t, "image", Empty) # Empty
  /\ \A k \in {"max_runners", "max_launch_per_tick"} : IsNumber(Get(t, k, 2))
  /\ \A k \in {"idle_timeout", "max_job_duration"} : IsDuration(Get(t, k, 1))
  /\ IsNumber(Priority(t)) /\ Priority(t) >= 1
  /\ Required(t) # "scalar" /\ IsLabelSet(Required(t))
  /\ Watched(t) # "scalar" /\ IsTarget(Watched(t))

(* PoolSpec.__post_init__.                                                 *)
SpecIsSound(s) ==
  /\ s.name # "Malformed"
  /\ 0 <= s.min_idle /\ s.min_idle <= s.max_runners
  /\ 1 <= s.max_runners
  /\ 0 < s.idle_timeout
  /\ 0 < s.max_job_duration
  /\ 1 <= s.max_launch_per_tick
  /\ s.requires # "not carried"
  /\ IF s.organization = Empty
       THEN s.repositories = Empty /\ ~s.discover /\ s.group = Empty
       ELSE (s.repositories = Empty) = s.discover /\ s.repositories # "foreign"

(* _gpus: zero is found in (None, False, ""), for 0 = False in Python, and *)
(* so never reaches the check that a count starts at 1.                    *)
Gpus(t) == IF Get(t, "gpus", Blank) = 0 THEN Blank ELSE Get(t, "gpus", Blank)

(* _template: environment, volumes, then gpus, and at last cpus, whose     *)
(* float() nobody guards.                                                  *)
TemplateVerdict(t) ==
  FirstFailure(<<
    Unless(Get(t, "volumes", "table") # "table", "refused"),
    Unless(Get(t, "environment", "plain") # "plain", "refused"),
    Unless(Get(t, "gpus", Blank) \in {Junk, -1}, "refused"),
    Unless("cpus" \in DOMAIN t /\ Get(t, "cpus", 1) \in {Junk, Blank}, "raised")>>)

PoolVerdict(t, names) ==
  IF t = Scalar THEN "raised" ELSE
  FirstFailure(<<
    Unless(~(/\ ArgumentsAreSound(t) /\ TargetIsSound(t) /\ CredentialIsKnown(t, names)
             /\ ModeIsSound(t) /\ SpecIsSound(SpecOf(t))), "refused"),
    TemplateVerdict(t)>>)

(* PoolConfiguration.                                                      *)
Pool(t) ==
  [spec |-> SpecOf(t), credential |-> Credential(t),
   template |-> [image |-> t["image"], cpus |-> Get(t, "cpus", Blank),
                 gpus |-> Gpus(t)]]

-----------------------------------------------------------------------------
(* A file: _include, from_mapping.                                         *)

(* An include written below a [section] is found out; below a [[table]] it *)
(* belongs to an entry of a list, where nobody looks.                      *)
IncludeVerdict(f) ==
  FirstFailure(<<
    Unless(f.include \in {"malformed", "section"}, "refused"),
    Unless(f.include = "top" /\ \E d \in Elements(f.dropins) :
             \/ ~d.parses
             \/ d.global \in {"github", "daemon", "housekeeping", "include"}
             \/ d.pools = <<>>,
           "refused")>>)

Tables(f) ==
  IF f.include = "top" THEN f.pools \o FlattenSeq([i \in DOMAIN f.dropins |-> f.dropins[i].pools])
                       ELSE f.pools

PoolNames(tables) == {tables[i]["name"] : i \in DOMAIN tables}

(* As a bug would have it: names are compared within a file only.          *)
NamesDifferInFile(f) == Cardinality(PoolNames(f.pools)) = Len(f.pools)

NamesDiffer(f) == Cardinality(PoolNames(Tables(f))) = Len(Tables(f))

(* Names are compared once every pool is a pool.                           *)
PoolsVerdict(f) ==
  LET each == FirstFailure([i \in DOMAIN Tables(f) |->
                              PoolVerdict(Tables(f)[i], Names(f.credentials))])
  IN  IF each # "accepted" THEN each ELSE Unless(~NamesDiffer(f), "refused")

Load(f) ==
  IF ~f.parses THEN "refused" ELSE
  IF IncludeVerdict(f) # "accepted" THEN "refused" ELSE
  IF GitHubVerdict(f) # "accepted" THEN "refused" ELSE
  FirstFailure(<<
    DaemonVerdict(f.daemon), HousekeepingVerdict(f.housekeeping),
    Unless(Tables(f) = <<>>, "refused"),
    PoolsVerdict(f), CapacityVerdict(f.capacity)>>)

SettingsOf(f) ==
  [pools |-> [i \in DOMAIN Tables(f) |-> Pool(Tables(f)[i])], capacity |-> Capacity(f.capacity)]

-----------------------------------------------------------------------------
(* The process: build, and Daemon._reload.                                 *)

(* resolve_token, resolve_private_key; and what ReclaimHostSpace is given, *)
(* which the loader leaves unread.  A reload looks at neither.             *)
CanBeBuilt(f) ==
  /\ \A c \in Elements(f.credentials) : Get(c, "secret", FALSE)
  /\ Get(f.housekeeping, "keep_build_cache", Blank) # Junk

Init ==
  /\ file \in Bases
  /\ edits = 0
  /\ phase = "off"
  /\ built = {}
  /\ settings = [pools |-> <<>>, capacity |-> Capacity(<<>>)]
  /\ reconciler = settings
  /\ answer = "none"

Start ==
  /\ phase # "running"
  /\ Load(file) = "accepted"
  /\ CanBeBuilt(file)
  /\ phase' = "running"
  /\ built' = Names(file.credentials)
  /\ settings' = SettingsOf(file)
  /\ reconciler' = settings'
  /\ answer' = "none"
  /\ UNCHANGED <<file, edits>>

Stop ==
  /\ phase = "running"
  /\ phase' = "off"
  /\ UNCHANGED <<file, edits, built, settings, reconciler, answer>>

(* As a bug would have it: a credential that has no client is let in.      *)
AnyRoute(pools) == TRUE

(* replace_pools refuses a pool of a credential that has no client.        *)
HasRoutes(pools) == \A i \in DOMAIN pools : pools[i].credential \in built

ReloadApplied ==
  /\ phase = "running"
  /\ Load(file) = "accepted"
  /\ HasRoutes(SettingsOf(file).pools)
  /\ reconciler' = SettingsOf(file)
  /\ settings' = SettingsOf(file)
  /\ answer' = "applied"
  /\ UNCHANGED <<file, edits, phase, built>>

ReloadRejected ==
  /\ phase = "running"
  /\ \/ Load(file) = "refused"
     \/ Load(file) = "accepted" /\ ~HasRoutes(SettingsOf(file).pools)
  /\ answer' = "rejected"
  /\ UNCHANGED <<file, edits, phase, built, settings, reconciler>>

(* Only GhSpotError and OSError are caught: the loop ends, and the fleet   *)
(* is not retired.                                                         *)
ReloadRaises ==
  /\ phase = "running"
  /\ Load(file) = "raised"
  /\ phase' = "crashed"
  /\ UNCHANGED <<file, edits, built, settings, reconciler, answer>>

-----------------------------------------------------------------------------
(* The operator, who writes, changes and drops one key at a time.          *)

Changes(t, values) ==
  {Drop(t, k) : k \in DOMAIN t} \cup {Scalar}
    \cup UNION {{Put(IF t = Scalar THEN <<>> ELSE t, k, v) : v \in values[k]} : k \in DOMAIN values}

ChangesAt(tables, values) ==
  {RemoveAt(tables, i) : i \in DOMAIN tables}
    \cup {Append(tables, tables[i]) : i \in DOMAIN tables}
    \cup UNION {{[tables EXCEPT ![i] = t] : t \in Changes(tables[i], values)} : i \in DOMAIN tables}

DropinChanges(d) ==
  {[d EXCEPT !.parses = FALSE], [d EXCEPT !.pools = <<>>]}
    \cup {[d EXCEPT !.global = k] : k \in Sections \cup {"none", "github", "include"}}
    \cup {[d EXCEPT !.pools = ts] : ts \in ChangesAt(d.pools, PoolValues)}

EditPools == \E ts \in ChangesAt(file.pools, PoolValues) : file' = [file EXCEPT !.pools = ts]

EditCredentials ==
  \E cs \in ChangesAt(file.credentials, CredentialValues) : file' = [file EXCEPT !.credentials = cs]

EditSection ==
  \E k \in Sections : \E t \in Changes(file[k], SectionValues[k]) : file' = [file EXCEPT ![k] = t]

EditInclude ==
  \/ \E i \in DOMAIN file.dropins : \E d \in DropinChanges(file.dropins[i]) :
       file' = [file EXCEPT !.dropins[i] = d]
  \/ \E where \in {"none", "top", "section", "table", "malformed"} :
       file' = [file EXCEPT !.include = where]

EditRest == file' \in {[file EXCEPT !.parses = FALSE], [file EXCEPT !.legacy = TRUE]}

Edit ==
  /\ edits < MaxEdits
  /\ edits' = edits + 1
  /\ EditPools \/ EditCredentials \/ EditSection \/ EditInclude \/ EditRest
  /\ UNCHANGED <<phase, built, settings, reconciler, answer>>

Next == Start \/ Stop \/ ReloadApplied \/ ReloadRejected \/ ReloadRaises \/ Edit

Spec == Init /\ [][Next]_vars

-----------------------------------------------------------------------------

Running == phase = "running"

PoolsInForce == Elements(reconciler.pools)

(* Whatever is written, and whichever checks are left to the parser and    *)
(* whichever to PoolSpec: a pool in force is one the policies are made     *)
(* for.  It is what plan_scaling is proved for; its warm floor is below    *)
(* its warm ceiling, so that no tick reaps what the last one started; it   *)
(* has one way to learn of its queue; its weight is one that admit does    *)
(* not have to mend; no two have one name, and the ceilings can be met.    *)
SpecsAreUsable ==
  Running =>
    /\ \A p \in PoolsInForce :
         /\ IsPoolSpec(p.spec)
         /\ WarmCeiling(p.spec) # NoCeiling => Floor(p.spec) <= WarmCeiling(p.spec)
         /\ p.spec.organization # Empty => (p.spec.repositories = Empty) = p.spec.discover
         /\ p.spec.priority >= 1
    /\ Cardinality({p.spec.name : p \in PoolsInForce}) = Len(reconciler.pools)
    /\ reconciler.pools # <<>>
    /\ reconciler.capacity.containers \in {Unset} \cup (Nat \ {0})

(* However often the file is edited, refused and put in force: every pool  *)
(* that a tick goes over has a client, which a tick takes for granted, and *)
(* the retirement of a runner looks its pool up in the same pools          *)
(* (ReconciliationService._group, Application._credential_name_for).       *)
RoutesExist ==
  Running => (\A p \in PoolsInForce : p.credential \in built) /\ settings = reconciler

(* "A setting that is quietly doing nothing is worse than one that will    *)
(* not load" (_process_manager): of a pool that is accepted, a key of      *)
(* PoolKeys that is written changes what is loaded, or says what is the    *)
(* default.                                                                *)
Default ==
  [pm |-> {Empty, "dynamic"}, min_idle |-> {0}, max_idle |-> {Blank}, max_runners |-> {2},
   max_launch_per_tick |-> {2}, idle_timeout |-> {600}, max_job_duration |-> {7200},
   priority |-> {Blank, 1}, credential |-> {Empty, "default"}, requires_labels |-> {Empty},
   repository |-> {Empty}, organization |-> {Empty}, repositories |-> {Empty},
   discover_repositories |-> {FALSE}, runner_group |-> {Empty}, gpus |-> {Blank, 0},
   environment |-> {"plain"}, volumes |-> {"table"}]

NothingWrittenIsIdle ==
  Load(file) = "accepted" =>
    \A t \in Elements(Tables(file)) : \A k \in DOMAIN t :
      LET without == Drop(t, k) IN
      \/ PoolVerdict(without, Names(file.credentials)) # "accepted"
      \/ Pool(without) # Pool(t)
      \/ k \in DOMAIN Default /\ t[k] \in Default[k]
=============================================================================
