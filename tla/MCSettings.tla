----------------------------- MODULE MCSettings -----------------------------
(* Instances of Settings for TLC: files with a pool of each kind, and for  *)
(* every key one value of each sort that the loader tells apart.           *)
EXTENDS Settings

Default1 == [name |-> "default", secret |-> TRUE]
Other1 == [name |-> "other", app_id |-> TRUE, private_key_file |-> TRUE, secret |-> TRUE]

Dynamic ==
  [name |-> "a", repository |-> "o/r", labels |-> "some", image |-> "i", min_idle |-> 1]
OnDemand ==
  [name |-> "b", organization |-> "o", repositories |-> "ours", labels |-> "some",
   image |-> "i", pm |-> "ondemand", credential |-> "other"]
Static ==
  [name |-> "c", repository |-> "o/r", labels |-> "some", image |-> "i", pm |-> "static"]

OneOf(pools, dropins) ==
  [parses |-> TRUE, legacy |-> FALSE, credentials |-> <<Default1, Other1>>,
   daemon |-> <<>>, housekeeping |-> <<>>, capacity |-> <<>>,
   include |-> IF dropins = <<>> THEN "none" ELSE "top",
   pools |-> pools, dropins |-> dropins]

SomeBases ==
  {OneOf(<<Dynamic>>, <<[parses |-> TRUE, global |-> "none", pools |-> <<OnDemand>>]>>),
   OneOf(<<Static>>, <<>>)}

Counts == {Junk, Blank, -1, 0, 1, 2, 3}
Durations == {Junk, -1, 0, 1}

ValuesOfPools ==
  [name |-> {Empty, "Malformed", "b"}, repository |-> {Empty, "malformed", "o/r"},
   organization |-> {Empty, "malformed", "o"},
   repositories |-> {Empty, "malformed", "scalar", "foreign", "ours"},
   discover_repositories |-> BOOLEAN, runner_group |-> {Empty, "g"},
   credential |-> {Empty, "other", "third"}, labels |-> {"none", "malformed"},
   requires_labels |-> {Empty, "malformed", "scalar", "carried", "not carried"},
   pm |-> {Empty, "static", "dynamic", "ondemand", "sometimes"},
   min_idle |-> Counts, max_idle |-> Counts, max_runners |-> Counts,
   max_launch_per_tick |-> Counts, priority |-> Counts,
   idle_timeout |-> Durations, max_job_duration |-> Durations,
   image |-> {Empty}, cpus |-> {Junk, Blank, 1}, gpus |-> {Junk, Blank, 0, 1},
   environment |-> {"plain", "secret", "scalar"}, volumes |-> {"table", "scalar"}]

ValuesOfCredentials ==
  [name |-> {Empty, "default", "other", "third"}, app_id |-> BOOLEAN, private_key_file |-> BOOLEAN,
   installation_id |-> {Junk, 1}, request_timeout |-> Durations, secret |-> BOOLEAN]

ValuesOfSections ==
  [daemon |-> [log_format |-> {"json", "loud"}, host |-> {"box", "blank"},
               poll_interval |-> Durations, stop_timeout |-> Durations],
   housekeeping |-> [every |-> Durations, containers_older_than |-> Durations \cup {Blank},
                     images_older_than |-> {Junk}, build_cache_older_than |-> {Junk},
                     keep_build_cache |-> {Junk, Blank, 1}],
   capacity |-> [max_containers |-> {Junk, Blank, Unlimited, 0, 1},
                 max_cpus |-> {Junk, Blank, Unlimited, 0, 1},
                 max_memory |-> {Junk, Blank, 0, 1},
                 cpu_high_water |-> {Junk, Blank, 0, 1, 101}, io_high_water |-> {0, 100}]]
=============================================================================
