---------------------------- MODULE MCScheduler ----------------------------
(* Values for the constants of Scheduler in the runs of TLC. *)
EXTENDS Implementation, Claims, TLC

CONSTANTS w1, w2, g1

Start(class, provider, gpu) ==
  [op |-> "start", class |-> class, provider |-> provider, gpu |-> gpu,
   target |-> NoTask]

Stop(provider, target) ==
  [op |-> "stop", class |-> "fast", provider |-> provider, gpu |-> FALSE,
   target |-> target]

Fast == Start("fast", "docker", FALSE)
Slow == Start("slow", "docker", FALSE)
Gpu  == Start("fast", "docker", TRUE)
Stub == Start("", "k8s", FALSE)

TwoTasks   == 1 .. 2
ThreeTasks == 1 .. 3
FourTasks  == 1 .. 4

StartMix  == {Fast, Slow, Gpu, Stub}
SlowFast  == {Fast, Slow}
SlowGpu   == {Slow, Gpu}
FastOnly  == {Fast}
GpuOnly   == {Gpu}

\* Stops of the right task and of the wrong kind, provider or id.
StopMix == {Fast, Stop("docker", 1), Stop("docker", 2), Stop("k8s", 1),
            Stop("docker", UnknownTask)}

AnyProvider == [w \in Workers |-> {}]
OneDevice   == [w \in Workers |-> <<g1>>]

SymmetricWorkers == Permutations(Workers)
=============================================================================
