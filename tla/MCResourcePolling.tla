------------------------- MODULE MCResourcePolling -------------------------
(* ResourcePolling on small instances.                                     *)
EXTENDS ResourcePolling, TLC

\* One VM takes 120 GB, 4000 MHz and 4096 MB by default, another 80 GB,
\* 2000 MHz and 8192 MB.
Small == [disk |-> 80, cpus |-> 1, memory |-> 8192]
Usual == [disk |-> 0, cpus |-> 0, memory |-> 0]

InCluster == [vm |-> Usual, named |-> {"cluster"}, effective |-> FALSE,
              maxVms |-> 1, softMaxVms |-> Unset]

InPool == [vm |-> Small, named |-> {"cluster", "resourcePool", "folder"},
           effective |-> TRUE, maxVms |-> Unset, softMaxVms |-> 2]

SomeSpecs == {InCluster, InPool}

EffectiveSpecs == {[InCluster EXCEPT !.effective = TRUE]}

\* Enough for two VMs of the usual size in the cluster, and for one small one in
\* the pool.
Wide ==
  [present |-> {"datacenter", "datastore", "network", "cluster", "resourcePool"},
   disk |-> 300,
   cluster |-> [cpu    |-> [total |-> 20000, effective |-> 16000, used |-> 8000],
                memory |-> [total |-> 65536, effective |-> 32768, used |-> 16384]],
   pool |-> [cpu |-> [limit |-> 6000, used |-> 2000],
             memory |-> [limit |-> 24576, used |-> 16384]]]

\* Network and pool are gone, and more of the cluster is used than there
\* nominally is.
Narrow ==
  [Wide EXCEPT !.cluster.cpu.used = 21000, !.present = @ \ {"network", "resourcePool"}]

SomeScenes == {Wide, Narrow}

AllKinds == {"connect", "query", "poolRead", "annotationWrite", "list", "statusWrite",
             "crash", "edit", "scale", "scene", "loseVM"}
=============================================================================
