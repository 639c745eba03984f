----------------------------- MODULE MCDriverPods -----------------------------
\* DriverPods on a small instance: see the .cfg file.
EXTENDS DriverPods

Plain == [log |-> Unset, encryption |-> Unset, liveness |-> Unset, addons |-> Unset, omap |-> Unset,
          snapshots |-> Unset, ctrl |-> Unset, node |-> Unset, imageSet |-> FALSE, condition |-> ""]

TlsKey == [volume |-> "tls-key", mount |-> "tls-key"]
OwnSockets == [volume |-> "socket-dir", mount |-> ""]
MoreConfig == [volume |-> "", mount |-> "ceph-csi-config"]

\* Everything on, on the host network or off it, with volumes of the user's.
Full == [Plain EXCEPT !.log = "both", !.encryption = TRUE, !.liveness = 9090, !.addons = TRUE,
                      !.omap = TRUE, !.snapshots = "volumeGroupSnapshot", !.imageSet = TRUE,
                      !.condition = "true",
                      !.ctrl = [hostNetwork |-> FALSE, volumes |-> {TlsKey, MoreConfig}, replicas |-> 3,
                                strategy |-> "RollingUpdate"],
                      !.node = [seLinux |-> TRUE, volumes |-> {OwnSockets}, kubelet |-> "/data/kubelet",
                                topology |-> "labels"]]
OnHost == [Plain EXCEPT !.log = "plain", !.addons = TRUE, !.snapshots = "none",
                        !.ctrl = [hostNetwork |-> TRUE, volumes |-> Unset, replicas |-> Unset,
                                  strategy |-> Unset],
                        !.node = [seLinux |-> Unset, volumes |-> Unset, kubelet |-> Unset,
                                  topology |-> "empty"]]
\* Two reconcilers reject this one.
Mistaken == [Plain EXCEPT !.log = "period", !.liveness = 8081, !.addons = FALSE, !.condition = "invalid"]

UserSpecs == {Plain, Full, OnHost, Mistaken}
DefaultSpecs == {[Full EXCEPT !.log = "size", !.ctrl.hostNetwork = TRUE]}

ASSUME UsersAssumption == UsersMountVolumes /\ UsersKeepDirs
=============================================================================
