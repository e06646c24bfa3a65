--------------------------- MODULE ResourceSampler ---------------------------
(***************************************************************************)
(* RealResourceSampler: rates from the kernel's cumulative counters.  Its  *)
(* two meters, the CPU time of the VEE cgroup and the bytes of the network *)
(* interfaces, share nothing, so one of them, named by `meter`, stands for *)
(* both.  A rate is represented by its product with the interval it covers.*)
(***************************************************************************)
EXTENDS Naturals

CONSTANTS MaxUsed, MaxWall     \* bounds of the kernel's counter and the clock
VARIABLES
  meter,             \* "cpu" or "net"
  counter, wall,     \* the kernel's counter, time.monotonic()
  prev, prevWall,    \* _prev_cpu_usage_usec or _prev_net_*, _prev_*_wall_s
  used, charged,     \* history: what was really used, what the samples say
  gaps               \* history: a counter went back, or a read came too early

samplerVars == <<meter, counter, wall, prev, prevWall, used, charged, gaps>>

\* __init__: the counters start at 0 here, but not in the kernel.
SamplerInit ==
  /\ meter \in {"cpu", "net"}
  /\ counter \in {0, 1} \cap 0 .. MaxUsed /\ used = counter
  /\ wall = 0 /\ prev = 0 /\ prevWall = 0 /\ charged = 0 /\ gaps = FALSE

Less(a, b) == IF a < b THEN a ELSE b
\* max(0, usage - prev)
Delta == IF counter > prev THEN counter - prev ELSE 0

\* min(delta / wall, 1.0) for the CPU, nothing for an empty interval.
Charge_Unclamped(delta, interval) == IF interval = 0 THEN 0 ELSE delta
Charge(delta, interval) ==
  IF interval = 0 THEN 0
  ELSE IF meter = "cpu" THEN Less(delta, interval) ELSE delta

\* _cpu_utilization(), _network(): the file was read.
SampleRead_NoPrev ==
  /\ charged' = charged + Charge(Delta, wall - prevWall)
  /\ prevWall' = wall
  /\ gaps' = (gaps \/ counter < prev \/ wall = prevWall)
  /\ UNCHANGED <<meter, counter, wall, used, prev>>
SampleRead ==
  /\ charged' = charged + Charge(Delta, wall - prevWall)
  /\ prev' = counter /\ prevWall' = wall
  /\ gaps' = (gaps \/ counter < prev \/ wall = prevWall)
  /\ UNCHANGED <<meter, counter, wall, used>>

\* except Exception: a sample of 0, and the interval stays open.
SampleFails_Forgets ==
  /\ prev' = counter
  /\ UNCHANGED <<meter, counter, wall, prevWall, used, charged, gaps>>
SampleFails == UNCHANGED samplerVars

Sample == SampleRead \/ SampleFails

\* The kernel (external): work is done, time passes, and the counter goes back
\* when the cgroup is made anew, or by what one of the interfaces had counted
\* when that one goes away.
Kernel_Uses ==
  /\ used < MaxUsed
  /\ used' = used + 1 /\ counter' = counter + 1
  /\ UNCHANGED <<meter, wall, prev, prevWall, charged, gaps>>
Kernel_Elapses ==
  /\ wall < MaxWall
  /\ wall' = wall + 1
  /\ UNCHANGED <<meter, counter, prev, prevWall, used, charged, gaps>>
Kernel_Resets ==
  /\ \E left \in 0 .. counter : left < counter /\ counter' = left
  /\ gaps' = TRUE
  /\ UNCHANGED <<meter, wall, prev, prevWall, used, charged>>
KernelNext == Kernel_Uses \/ Kernel_Elapses \/ Kernel_Resets

\* The samples of a run account for what was used: nothing is charged twice,
\* whatever reads fail and counters go back; the CPU is never charged beyond
\* the time that passed; and while no counter went back and no two reads fell on
\* one instant, the network samples add up to the counter at the last read, so
\* that a failed read only moves bytes to the next sample.
SamplesAccount ==
  /\ charged <= used
  /\ meter = "cpu" => charged <= prevWall
  /\ meter = "net" /\ ~gaps => charged = prev
=============================================================================
