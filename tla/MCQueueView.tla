---------------------------- MODULE MCQueueView ----------------------------
(* An instance of QueueView for TLC: a plain pool, and a second one that   *)
(* is picky or wide, over the queues of two repositories of one owner.     *)
EXTENDS QueueView

PoolOf(target, watches, requires, priority, max, floor) ==
  [ pm |-> "dynamic", max_runners |-> max, min_idle |-> floor, max_idle |-> Plan!NoCeiling,
    max_launch_per_tick |-> 1, idle_timeout |-> 1, max_job_duration |-> 1,
    priority |-> priority, cpus |-> 0, labels |-> {"linux"} \cup requires,
    target |-> target, watches |-> watches, requires |-> requires ]

Both == {"site", "tool"}

FirstSpecs ==
  {PoolOf({"site"}, {"site"}, {}, 2, max, floor) : max \in {1, 3}, floor \in {0, 1}}

SecondSpecs ==
  { PoolOf({"site"}, {"site"}, {}, 2, 2, 0),
    PoolOf({"site"}, {"site"}, {"gpu"}, 1, 2, 0),
    PoolOf(Both, Both, {}, 5, 2, 0),
    PoolOf(Both, {"tool"}, {}, 5, 2, 0) }

View(states, a) ==
  [state |-> states, age |-> [r \in DOMAIN states |-> a]]

FirstViews == {View(<<>>, 0), View(<<"idle">>, 0), View(<<"busy">>, 0), View(<<"busy">>, 2)}
SecondViews == {View(<<>>, 0), View(<<"idle">>, 2), View(<<"busy", "starting">>, 0)}

SomeFleets ==
  { <<[spec |-> s, view |-> v, outcome |-> "planned"],
      [spec |-> t, view |-> w, outcome |-> o]>> :
    s \in FirstSpecs, v \in FirstViews, t \in SecondSpecs, w \in SecondViews, o \in Outcome }
  \cup
  { <<[spec |-> s, view |-> View(<<>>, 0), outcome |-> o],
      [spec |-> t, view |-> View(<<>>, 0), outcome |-> n]>> :
    s \in FirstSpecs, t \in SecondSpecs, o \in {"unread", "raised"}, n \in Outcome }

Job(repository, labels, event, default, draft, at) ==
  [ repository |-> repository, labels |-> labels, event |-> event, default |-> default,
    draft |-> draft, at |-> at ]

Plain == {"linux"}

SomeQueues ==
  { <<>>,
    <<Job("tool", Plain, "push", FALSE, FALSE, 0)>>,
    <<Job("site", Plain, "push", FALSE, FALSE, 0), Job("site", Plain, "push", FALSE, FALSE, 0)>>,
    <<Job("site", Plain, "pull_request", FALSE, TRUE, 0), Job("site", Plain, "push", TRUE, FALSE, 2),
      Job("site", Plain, "workflow_dispatch", FALSE, FALSE, 1)>>,
    <<Job("site", {"linux", "gpu"}, "schedule", TRUE, FALSE, 0), Job("site", {"gpu"}, "push", FALSE, FALSE, 0),
      Job("tool", Plain, "pull_request", FALSE, FALSE, 1), Job("site", Plain, "push", FALSE, FALSE, 1)>> }

SomeLimits ==
  { [containers |-> Unset, cpus |-> Unset, memory |-> Unset, mark |-> [g \in Gauge |-> Unset]],
    [containers |-> 2, cpus |-> Unset, memory |-> Unset, mark |-> [g \in Gauge |-> 1]] }

SomeLoads == {[g \in Gauge |-> IF g = "cpu" THEN n ELSE Unknown] : n \in {0, 1}}

NoRequests == {}
=============================================================================
