------------------------------ MODULE MCStorage ------------------------------
(* Four disks: a and b are of equal size, d is the preferred single disk.  The *)
(* jobs are the configurations whose storage steps differ.                     *)
EXTENDS Storage

MCOrder == <<"a", "b", "c", "d">>
MCPair == <<"a", "b">>
MCRaids == <<[name |-> "md0", members |-> {"a", "b"}], [name |-> "md3", members |-> {"c", "d"}]>>

Plain == [mode |-> "provision", device |-> "none", create |-> "none", mirror |-> FALSE,
          boot |-> FALSE, lvm |-> FALSE, wipeAll |-> FALSE, secure |-> FALSE,
          fallback |-> FALSE, quick |-> FALSE, clearAll |-> FALSE, resume |-> FALSE]
Hard == [Plain EXCEPT !.mode = "hard"]

MCJobs ==
    {[Plain EXCEPT !.mirror = TRUE, !.boot = TRUE, !.resume = TRUE],
     [Plain EXCEPT !.mirror = TRUE, !.quick = TRUE],
     [Plain EXCEPT !.wipeAll = TRUE, !.quick = TRUE, !.clearAll = TRUE],
     [Plain EXCEPT !.lvm = TRUE, !.secure = TRUE, !.fallback = TRUE],
     [Plain EXCEPT !.create = "raid", !.device = "md0"],
     [Plain EXCEPT !.create = "raid", !.device = "md0", !.quick = TRUE],
     [Plain EXCEPT !.create = "nvme"],
     [Hard EXCEPT !.device = "a", !.mirror = TRUE],
     [Hard EXCEPT !.secure = TRUE, !.fallback = TRUE],
     [Plain EXCEPT !.mode = "decommission"],
     [Plain EXCEPT !.mode = "decommission", !.quick = TRUE]}

NoLabels == [d \in {"a", "b", "c", "d"} |-> {}]
MCLabels ==
    {NoLabels,
     [NoLabels EXCEPT !["a"] = {"md2"}, !["b"] = {"md2"}, !["d"] = {"md2", "vg"}]}
=============================================================================
