------------------------------ MODULE DriverPods ------------------------------
(***************************************************************************)
(* What the Driver controller composes: the workloads, network policies,   *)
(* Service and ConfigMap of one Driver as functions of the Driver's type   *)
(* and spec, the spec merged with the driver defaults first.  An iteration *)
(* runs one reconciler for each object; each may fail on its own.  They    *)
(* write different objects and take what they compose from the spec loaded *)
(* at the start, so that an iteration is one step here; Driver.tla is about*)
(* the calls they make and who comes in between.                           *)
(*                                                                         *)
(* Arguments are those that name a socket, a path, a log file, a variable  *)
(* of the environment or a feature another object has to match.  A path is *)
(* the name of the volume that is mounted or shared there; only those that *)
(* several volumes or several pods have in common are told apart.  Labels, *)
(* resources, timeouts and verbosity are left out.                         *)
(***************************************************************************)
EXTENDS Naturals, FiniteSets

CONSTANTS
    Types,       \* the driver types: "rbd", "cephfs", "nfs", "nvmeof"
    Specs,       \* specs users give to the Driver
    Defaults,    \* specs the OperatorConfig gives as driver defaults
    Unset,       \* a field that is not set, or no defaults
    Absent,      \* an object that does not exist
    Nodes,       \* numbers of nodes the cluster may have
    MaxEdits,    \* bound: edits of the spec, the defaults, the nodes or the image set
    MaxFaults    \* bound: calls that fail

Opt(S) == S \cup {Unset}

\* A volume with a mount the user adds to the pods; either name may be empty.
UserVolume == [volume: STRING, mount: STRING]

\* "plain" when only the verbosity is set, else what rotation goes by.
LogSpec == {"plain", "size", "period", "both"}
SnapshotPolicyType == {"none", "volumeSnapshot", "volumeGroupSnapshot"}

ControllerPluginSpec == [hostNetwork: Opt(BOOLEAN), volumes: Opt(SUBSET UserVolume), replicas: Opt(Nat),
                         strategy: Opt({"RollingUpdate"})]
NodePluginSpec == [seLinux: Opt(BOOLEAN), volumes: Opt(SUBSET UserVolume), kubelet: Opt(STRING),
                   topology: Opt({"empty", "labels"})]

\* liveness is the metrics port; topology is whether the list of domain labels, which
\* nothing requires to have an element, has one;
\* imageSet is whether an image set ConfigMap is named; condition is the annotation
\* for the volume condition feature of CSI-Addons.
DriverSpec == [log: Opt(LogSpec), encryption: Opt({TRUE}), liveness: Opt(Nat), addons: Opt(BOOLEAN),
               omap: Opt(BOOLEAN), imageSet: BOOLEAN, snapshots: Opt(SnapshotPolicyType),
               ctrl: Opt(ControllerPluginSpec), node: Opt(NodePluginSpec),
               condition: {"", "true", "invalid"}]

ASSUME TypesAssumption == Types \subseteq {"rbd", "cephfs", "nfs", "nvmeof"}
ASSUME SpecsAssumption == Specs \cup Defaults \subseteq DriverSpec
ASSUME NodesAssumption == Nodes \subseteq Nat
ASSUME BoundsAssumption == MaxEdits \in Nat /\ MaxFaults \in Nat

VARIABLES
    type,       \* the driver's type, part of its name
    spec,       \* the Driver's spec
    defaults,   \* the driver defaults of the OperatorConfig
    nodes,      \* how many nodes there are; no watch reports them
    imageSet,   \* the keys of the image set ConfigMap; no watch reports them
    queued,     \* the Driver is in the workqueue
    objs,       \* object -> what is stored
    left        \* what remains of the bounds

config == <<type, spec, defaults, nodes, imageSet>>
vars == <<config, queued, objs, left>>

Objects == {"deployment", "ctrlPolicy", "daemonSet", "addonsDaemonSet", "addonsPolicy",
            "service", "logRotateConfig"}

-----------------------------------------------------------------------------
(* mergeDriverSpecs *)

Or(v, default) == IF v = Unset THEN default ELSE v

\* Fields of a plugin spec are filled in one by one, but not HostNetwork and
\* DeploymentStrategy of the controller plugin and Topology of the node plugin.
MergeCtrl(dest, src) ==
    IF src = Unset THEN dest ELSE IF dest = Unset THEN src
    ELSE [dest EXCEPT !.volumes = Or(@, src.volumes), !.replicas = Or(@, src.replicas)]

MergeNode(dest, src) ==
    IF src = Unset THEN dest ELSE IF dest = Unset THEN src
    ELSE [dest EXCEPT !.seLinux = Or(@, src.seLinux), !.volumes = Or(@, src.volumes),
                      !.kubelet = Or(@, src.kubelet)]

\* The annotation is the Driver's own; image sets are overlaid, not merged.
Merge(dest, src) ==
    IF src = Unset THEN dest
    ELSE [dest EXCEPT !.log = Or(@, src.log), !.encryption = Or(@, src.encryption),
                      !.liveness = Or(@, src.liveness), !.addons = Or(@, src.addons),
                      !.omap = Or(@, src.omap), !.snapshots = Or(@, src.snapshots),
                      !.ctrl = MergeCtrl(@, src.ctrl), !.node = MergeNode(@, src.node)]

imageDefaults == {"provisioner", "attacher", "resizer", "snapshotter", "registrar", "snapshot-metadata",
                  "plugin", "addons"}

\* The keys with an image: the built-in ones, overlaid with the image set the
\* defaults name and the one the Driver names.
LoadImages(s, d, set) ==
    imageDefaults \cup IF s.imageSet \/ (d # Unset /\ d.imageSet) THEN set ELSE {}

-----------------------------------------------------------------------------
(* The effective options of a spec *)

defaultKubeletDirPath == "/var/lib/kubelet"
defaultControllerPluginReplicas == 2
defaultDeploymentStrategy == "Recreate"

Rotates(s) == s.log \in {"size", "period", "both"}
Encrypts(s) == s.encryption = TRUE
Metrics(s) == s.liveness # Unset
Addons(s) == Or(s.addons, FALSE)
CtrlSpec(s) == Or(s.ctrl, [hostNetwork |-> Unset, volumes |-> Unset, replicas |-> Unset, strategy |-> Unset])
NodeSpec(s) == Or(s.node, [seLinux |-> Unset, volumes |-> Unset, kubelet |-> Unset, topology |-> Unset])
HostNetwork(s) == Or(CtrlSpec(s).hostNetwork, FALSE)
CtrlVolumes(s) == Or(CtrlSpec(s).volumes, {})
NodeVolumes(s) == Or(NodeSpec(s).volumes, {})
KubeletDir(s) == Or(NodeSpec(s).kubelet, defaultKubeletDirPath)

isRbdOrNvmeof(t) == t \in {"rbd", "nvmeof"}

\* The sidecar for snapshot metadata is asked for by a volume with the TLS key.
TlsConfigured(t, s) == t = "rbd" /\ \E v \in CtrlVolumes(s) : v.volume = "tls-key"
Topology(t, s) == t = "rbd" /\ NodeSpec(s).topology # Unset
DomainLabels(s) == NodeSpec(s).topology = "labels"

When(cond, S) == IF cond THEN S ELSE {}

-----------------------------------------------------------------------------
(* Arguments, mounts and volumes *)

\* An argument is its flag and the socket, variable, file, directory or port it names.
EndpointArg == <<"endpoint", "csi.sock">>
CsiAddressArg == <<"csi-address", "csi.sock">>
CsiAddonsEndpointArg == <<"csi-addons-endpoint", "csi-addons.sock">>
CsiAddonsAddressArg == <<"csi-addons-address", "csi-addons.sock">>
LivenessArg == <<"type", "liveness">>
MetricsPortArg(port) == <<"metricsport", port>>
NodeIdArg == <<"nodeid", "NODE_ID">>
CsiAddonsPodArgs == {<<"node-id", "NODE_ID">>, <<"pod", "POD_NAME">>, <<"pod-uid", "POD_UID">>,
                     <<"namespace", "POD_NAMESPACE">>}
DriverNamespaceArg == <<"drivernamespace", "DRIVER_NAMESPACE">>
LogFileArg(container) == <<"log_file", container>>
RegistrationPathArg(kubelet) == <<"kubelet-registration-path", kubelet>>
TopologyArg == <<"feature-gates", "Topology">>
DomainLabelsArg == <<"domainlabels", "nodes">>

\* MapMergeByKey, by name: what users define replaces what is built in.
WithUsers(names, users) == names \cup (users \ {""})

\* Mounts, by volume.  The directories of the sockets are both mounted at /csi, the
\* others, and users' mounts, at a path of their own.
Mounts(names, users) ==
    [n \in WithUsers(names, users) |->
        IF n \in {"socket-dir", "plugin-dir"} \ users THEN "/csi" ELSE n]

\* Fault: the pods of a driver share the directory of their logs.
VolumesSharingLogs(names, users, kubelet, pod) ==
    [n \in WithUsers(names, users) |->
        IF n \in users THEN <<"user", n>>
        ELSE IF n = "plugin-dir" THEN <<"host", kubelet>>
        ELSE IF n = "logs-dir" THEN <<"host", "logs">> ELSE <<pod, n>>]

\* Volumes, with their sources: the driver's directory below the kubelet's and the
\* directory of the logs of these pods are on the host, the others of no concern.
Volumes(names, users, kubelet, pod) ==
    [n \in WithUsers(names, users) |->
        IF n \in users THEN <<"user", n>>
        ELSE IF n = "plugin-dir" THEN <<"host", kubelet>>
        ELSE IF n = "logs-dir" THEN <<"logs", pod>> ELSE <<pod, n>>]

Container(name, image, args, env, mounts, ports) ==
    [name |-> name, image |-> image, args |-> args, env |-> env, mounts |-> mounts, ports |-> ports]

-----------------------------------------------------------------------------
(* The controller plugin *)

\* The cephfs and the rbd driver need different ports on a host network.
csiAddonsPort(t) == IF t = "cephfs" THEN 9080 ELSE 9070
nodeAddonsPort == 9071
snapshotMetadataPort == 50051

logRotator == Container("log-rotator", "plugin", {}, {}, Mounts({"logs-dir", "log-rotate-dir"}, {}), {})

CtrlPlugin(t, s) ==
    Container("csi-plugin", "plugin",
              {EndpointArg, NodeIdArg} \cup When(Addons(s), {CsiAddonsEndpointArg})
                \cup When(Rotates(s), {LogFileArg("csi-plugin")}),
              {"POD_IP", "NODE_ID", "POD_NAMESPACE"},
              Mounts({"socket-dir", "host-dev", "host-sys", "lib-modules", "keys-tmp-dir", "ceph-csi-config"}
                       \cup When(Encrypts(s), {"ceph-csi-kms-config"})
                       \cup When(t = "rbd", {"oidc-token"})
                       \cup When(Rotates(s), {"logs-dir"}),
                     {v.mount : v \in CtrlVolumes(s)}),
              {})

\* A sidecar that talks to the plugin over the CSI socket and needs nothing else.
Sidecar(name, image, args) ==
    Container(name, image, {CsiAddressArg} \cup args, {}, Mounts({"socket-dir"}, {}), {})

SnapshotContainers(t, s, imgs) ==
    LET policy == Or(s.snapshots, "volumeSnapshot")
    IN  When(policy # "none", {Sidecar("csi-snapshotter", "snapshotter", {})})
        \cup When("ex-snapshotter" \in imgs /\ policy # "none" /\ t = "cephfs",
                  {Sidecar("ex-csi-snapshotter", "ex-snapshotter", {})})

\* The sidecar of CSI-Addons in the pods of either plugin; more are mounts of the
\* node's only.
AddonsContainer(s, socketDir, port, more) ==
    Container("csi-addons", "addons",
              {CsiAddonsAddressArg} \cup CsiAddonsPodArgs \cup When(Rotates(s), {LogFileArg("csi-addons")}),
              {"NODE_ID", "POD_UID", "POD_NAME", "POD_NAMESPACE"},
              Mounts({socketDir} \cup When(Rotates(s), {"logs-dir"}) \cup more, {}),
              {port})

\* Fault: the variable its argument names is not in the environment.
OMapContainerBare ==
    Container("csi-omap-generator", "plugin", {DriverNamespaceArg}, {},
              Mounts({"ceph-csi-config", "keys-tmp-dir"}, {}), {})

OMapContainer ==
    Container("csi-omap-generator", "plugin", {DriverNamespaceArg}, {"DRIVER_NAMESPACE"},
              Mounts({"ceph-csi-config", "keys-tmp-dir"}, {}), {})

\* The probe listens on the metrics port and declares no port.
LivenessContainer(socketDir, port) ==
    Container("liveness-prometheus", "plugin", {LivenessArg, EndpointArg, MetricsPortArg(port)}, {"POD_IP"},
              Mounts({socketDir}, {}), {})

\* The sidecar mounts what the first volume named tls-key says.
SnapshotMetadataContainer(s) ==
    LET tls == CHOOSE v \in CtrlVolumes(s) : v.volume = "tls-key"
    IN  Container("csi-snapshot-metadata", "snapshot-metadata", {CsiAddressArg}, {},
                  Mounts({"socket-dir", tls.mount}, {}), {snapshotMetadataPort})

CtrlContainers(t, s, imgs) ==
    {CtrlPlugin(t, s), Sidecar("csi-provisioner", "provisioner", When(Topology(t, s), {TopologyArg})),
     Sidecar("csi-resizer", "resizer", {}), Sidecar("csi-attacher", "attacher", {})}
    \cup SnapshotContainers(t, s, imgs)
    \cup When(t # "nfs" /\ Addons(s), {AddonsContainer(s, "socket-dir", csiAddonsPort(t), {})})
    \cup When(t \in {"rbd", "cephfs"} /\ Or(s.omap, FALSE), {OMapContainer})
    \cup When(Metrics(s), {LivenessContainer("socket-dir", s.liveness)})
    \cup When(Rotates(s), {logRotator})
    \cup When(TlsConfigured(t, s), {SnapshotMetadataContainer(s)})

CtrlPodVolumes(s) ==
    Volumes({"host-dev", "host-sys", "lib-modules", "socket-dir", "keys-tmp-dir", "oidc-token", "ceph-csi-config"}
              \cup When(Encrypts(s), {"ceph-csi-kms-config"})
              \cup When(Rotates(s), {"logs-dir", "log-rotate-dir"}),
            {v.volume : v \in CtrlVolumes(s)}, KubeletDir(s), "ctrlplugin")

\* What the spec says, or the default, or one when there are fewer nodes.
getControllerPluginReplicas(s, n) ==
    Or(CtrlSpec(s).replicas,
       IF n > 0 /\ n < defaultControllerPluginReplicas THEN 1 ELSE defaultControllerPluginReplicas)

Deployment(t, s, imgs, n) ==
    [containers |-> CtrlContainers(t, s, imgs), volumes |-> CtrlPodVolumes(s), hostNetwork |-> HostNetwork(s),
     replicas |-> getControllerPluginReplicas(s, n), strategy |-> Or(CtrlSpec(s).strategy, defaultDeploymentStrategy)]

\* Fault: the port of the snapshot metadata sidecar stays closed.
CtrlPolicyClosed(t, s) ==
    IF HostNetwork(s) THEN Absent ELSE When(Addons(s), {csiAddonsPort(t)})

\* The ports the policy of the controller plugin opens; none on a host network.
CtrlPolicy(t, s) ==
    IF HostNetwork(s) THEN Absent
    ELSE When(Addons(s), {csiAddonsPort(t)}) \cup When(TlsConfigured(t, s), {snapshotMetadataPort})

-----------------------------------------------------------------------------
(* The node plugin *)

NodePlugin(t, s) ==
    Container("csi-plugin", "plugin",
              {EndpointArg, NodeIdArg} \cup When(Addons(s), {CsiAddonsEndpointArg})
                \cup When(Topology(t, s) /\ DomainLabels(s), {DomainLabelsArg})
                \cup When(Rotates(s), {LogFileArg("csi-plugin")}),
              {"POD_IP", "NODE_ID", "POD_NAMESPACE"},
              Mounts({"host-dev", "host-sys", "host-run-mount", "lib-modules", "keys-tmp-dir", "plugin-dir",
                      "ceph-csi-config", "plugin-mount-dir", "pods-mount-dir"}
                       \cup When(Or(NodeSpec(s).seLinux, FALSE), {"etc-selinux"})
                       \cup When(Encrypts(s), {"ceph-csi-kms-config"})
                       \cup When(t = "cephfs", {"ceph-csi-mountinfo"})
                       \cup When(isRbdOrNvmeof(t), {"oidc-token"})
                       \cup When(Rotates(s), {"logs-dir"}),
                     {v.mount : v \in NodeVolumes(s)}),
              {})

\* Fault: the kubelet's directory in the spec is not looked at.
RegistrarBuiltin(s) ==
    Container("driver-registrar", "registrar", {RegistrationPathArg(defaultKubeletDirPath), CsiAddressArg}, {},
              Mounts({"plugin-dir", "registration-dir"}, {}), {})

\* The registrar tells the kubelet where on the host the socket is.
Registrar(s) ==
    Container("driver-registrar", "registrar", {RegistrationPathArg(KubeletDir(s)), CsiAddressArg}, {},
              Mounts({"plugin-dir", "registration-dir"}, {}), {})

NodeContainers(t, s) ==
    {NodePlugin(t, s), Registrar(s)}
    \cup When(Metrics(s), {LivenessContainer("plugin-dir", s.liveness)})
    \cup When(Rotates(s), {logRotator})

NodeVolumeNames(t, s) ==
    {"host-dev", "host-sys", "host-run-mount", "lib-modules", "keys-tmp-dir", "ceph-csi-config",
     "plugin-dir", "plugin-mount-dir", "pods-mount-dir", "registration-dir"}
      \cup When(t = "cephfs", {"ceph-csi-mountinfo"})
      \cup When(Or(NodeSpec(s).seLinux, FALSE), {"etc-selinux"})
      \cup When(Encrypts(s), {"ceph-csi-kms-config"})
      \cup When(Rotates(s), {"logs-dir", "log-rotate-dir"})

\* Fault: the token is there for the rbd driver only.
NodePodVolumesRbd(t, s) ==
    Volumes(NodeVolumeNames(t, s) \cup When(t = "rbd", {"oidc-token"}),
            {v.volume : v \in NodeVolumes(s)}, KubeletDir(s), "nodeplugin")

NodePodVolumes(t, s) ==
    Volumes(NodeVolumeNames(t, s) \cup When(isRbdOrNvmeof(t), {"oidc-token"}),
            {v.volume : v \in NodeVolumes(s)}, KubeletDir(s), "nodeplugin")

DaemonSet(t, s) == [containers |-> NodeContainers(t, s), volumes |-> NodePodVolumes(t, s),
                    hostNetwork |-> TRUE]

\* The pods of the node plugin's CSI-Addons; users' volumes are not in them.
AddonsPods(s) ==
    LET mountDirs == When(s.condition = "true", {"plugin-mount-dir", "pods-mount-dir"})
    IN  [containers |-> {AddonsContainer(s, "plugin-dir", nodeAddonsPort, mountDirs)}
                          \cup When(Rotates(s), {logRotator}),
         volumes |-> Volumes({"plugin-dir"} \cup When(Rotates(s), {"logs-dir", "log-rotate-dir"})
                               \cup mountDirs, {}, KubeletDir(s), "nodeplugin-csi-addons"),
         hostNetwork |-> FALSE]

\* reconcileNodePluginDaemonSetForCsiAddons.
AddonsDaemonSet(t, s) == IF t = "nfs" \/ ~Addons(s) THEN Absent ELSE AddonsPods(s)

AddonsPolicy(s) == IF Addons(s) THEN {nodeAddonsPort} ELSE Absent

\* The Service for the metrics.  It has no selector: which pods it reaches is up to
\* whoever gives it endpoints.
ServiceSpec == [port: {8080}, targetPort: Nat, selector: {{}}]
LivenessService(s) == [port |-> 8080, targetPort |-> s.liveness, selector |-> {}]

\* What the composition may start from.
Merged == {Merge(s, d) : s \in Specs, d \in Opt(Defaults)}
Images == {imageDefaults \cup set : set \in SUBSET {"ex-snapshotter"}}
NodeCounts == Nodes \cup {0}

\* Nothing that is composed is taken for an object that does not exist.
ASSUME AbsentAssumption ==
    /\ Absent \notin LogSpec
    /\ \A ports \in SUBSET {9070, nodeAddonsPort, 9080, snapshotMetadataPort} : Absent # ports
    /\ \A s \in Merged : Absent # AddonsPods(s) /\ Absent # LivenessService(s)
    /\ \A t \in Types, s \in Merged : Absent # DaemonSet(t, s)
    /\ \A t \in Types, s \in Merged, imgs \in Images, n \in NodeCounts : Absent # Deployment(t, s, imgs, n)

-----------------------------------------------------------------------------
(* One iteration *)

\* What a reconciler asks for; n is the number of nodes as it sees it.
Desired(o, t, s, imgs, n) ==
    CASE o = "deployment" -> Deployment(t, s, imgs, n)
      [] o = "ctrlPolicy" -> CtrlPolicy(t, s)
      [] o = "daemonSet" -> DaemonSet(t, s)
      [] o = "addonsDaemonSet" -> AddonsDaemonSet(t, s)
      [] o = "addonsPolicy" -> AddonsPolicy(s)
      [] o = "service" -> IF Metrics(s) THEN LivenessService(s) ELSE Absent
      [] o = "logRotateConfig" -> IF Rotates(s) THEN s.log ELSE Absent

\* Fault: how the logs are rotated is not validated.
RejectsAnnotation(o, s) == o = "addonsDaemonSet" /\ s.condition = "invalid"

\* Reconcilers that return an error before they change their object: an annotation
\* that is not a Boolean; rotation by period alone, which the mutate function refuses.
Rejects(o, s) ==
    \/ o = "addonsDaemonSet" /\ s.condition = "invalid"
    \/ o = "logRotateConfig" /\ s.log = "period"

\* The policy of the node plugin's CSI-Addons is left alone for an nfs driver.
Skips(o, t) == o = "addonsPolicy" /\ t = "nfs"

\* Fault: the first error ends the iteration.
CompletedUntilError(failing, rejecting) == IF rejecting = {} THEN Objects \ failing ELSE {}

\* RunConcurrently: the reconcilers that complete, whatever becomes of the others.
Completed(failing, rejecting) == Objects \ (failing \cup rejecting)

\* Fault: an object the spec no longer asks for is left behind.
WrittenKeeping(old, new) == IF new = Absent THEN old ELSE new

\* CreateOrUpdate with all of the spec assigned, or Delete.
Written(old, new) == new

\* The calls of an iteration that may fail: one for each object, and the List of
\* the nodes, whose failure is no error but counts as no nodes.
Calls == Objects \cup {"listNodes"}

\* One iteration: LoadAndValidateDesiredState and the reconcilers; any of them that
\* returns an error requeues the Driver.  When an object cannot be loaded, an image
\* set among them, nothing changes and the Driver stays queued.
Reconcile(failing) ==
    /\ queued
    /\ left' = [left EXCEPT !.faults = @ - Cardinality(failing)]
    /\ LET s == Merge(spec, defaults)
           imgs == LoadImages(spec, defaults, imageSet)
           n == IF "listNodes" \in failing THEN 0 ELSE nodes
           rejecting == {o \in Objects : Rejects(o, s)}
       IN  /\ objs' = [o \in Objects |-> IF o \in Completed(failing, rejecting) /\ ~Skips(o, type)
                                         THEN Written(objs[o], Desired(o, type, s, imgs, n))
                                         ELSE objs[o]]
           /\ queued' = ((failing \cap Objects) \cup rejecting # {})
    /\ UNCHANGED config

-----------------------------------------------------------------------------
(* Users, the cluster, the informers *)

Edit == left.edits > 0 /\ left' = [left EXCEPT !.edits = @ - 1]

EditSpec(s) ==
    /\ Edit /\ s # spec
    /\ spec' = s /\ queued' = TRUE
    /\ UNCHANGED <<type, defaults, nodes, imageSet, objs>>

EditDefaults(d) ==
    /\ Edit /\ d # defaults
    /\ defaults' = d /\ queued' = TRUE
    /\ UNCHANGED <<type, spec, nodes, imageSet, objs>>

\* Nodes come and go, the image set gains or loses a key: no event reaches the queue.
ChangeNodes(n) ==
    /\ Edit /\ n # nodes
    /\ nodes' = n
    /\ UNCHANGED <<type, spec, defaults, imageSet, queued, objs>>

EditImageSet ==
    /\ Edit
    /\ imageSet' = {"ex-snapshotter"} \ imageSet
    /\ UNCHANGED <<type, spec, defaults, nodes, queued, objs>>

\* The periodic resync of the informer: an update event for the Driver.
Resync ==
    /\ ~queued
    /\ queued' = TRUE
    /\ UNCHANGED <<config, objs, left>>

-----------------------------------------------------------------------------
(* The specification *)

\* A Driver was created, none of its objects exists.
Init ==
    /\ type \in Types /\ spec \in Specs /\ defaults \in Opt(Defaults)
    /\ nodes \in Nodes /\ imageSet = {}
    /\ queued = TRUE
    /\ objs = [o \in Objects |-> Absent]
    /\ left = [edits |-> MaxEdits, faults |-> MaxFaults]

Iterate == \E failing \in {f \in SUBSET Calls : Cardinality(f) <= left.faults} : Reconcile(failing)

Next ==
    \/ Iterate
    \/ Resync
    \/ \E s \in Specs : EditSpec(s)
    \/ \E d \in Opt(Defaults) : EditDefaults(d)
    \/ \E n \in Nodes : ChangeNodes(n)
    \/ EditImageSet

Spec == Init /\ [][Next]_vars

\* The worker goes on, and the informer resyncs (every ten hours).
Fairness == WF_vars(Iterate) /\ WF_vars(Resync)

FairSpec == Spec /\ Fairness

-----------------------------------------------------------------------------
(* Properties *)

Workloads == {"deployment", "daemonSet", "addonsDaemonSet"}

\* Every variable holds what the code's types allow, and what is stored passed the
\* validation of the log rotation.
TypeOK ==
    /\ type \in Types /\ spec \in Specs /\ defaults \in Opt(Defaults) /\ nodes \in Nodes
    /\ imageSet \subseteq {"ex-snapshotter"}
    /\ queued \in BOOLEAN
    /\ \A o \in {"ctrlPolicy", "addonsPolicy"} : objs[o] \in (SUBSET Nat) \cup {Absent}
    /\ objs["service"] \in ServiceSpec \cup {Absent}
    /\ objs["logRotateConfig"] \in {"size", "both", Absent}
    /\ left \in [edits: Nat, faults: Nat]

\* The containers of a stored workload.
ContainersOf(o) == IF objs[o] = Absent THEN {} ELSE objs[o].containers

\* Every mount of every container of a stored workload names a volume of its pod,
\* in each combination of driver type, options and users' volumes: the lists of
\* mounts and of volumes are written down apart, with conditions of their own
\* (reconcileControllerPluginDeployment, reconcileNodePluginDaemonSet and
\* reconcileNodePluginDaemonSetForCsiAddons).
MountsHaveVolumes ==
    \A o \in Workloads : \A c \in ContainersOf(o) : DOMAIN c.mounts \subseteq DOMAIN objs[o].volumes

\* What the properties of mounts, sockets and logs ask of users, as nothing checks it:
\* each of their mounts names a volume of the pod, and the one of the TLS key is there.
UsersMountVolumes ==
    \A t \in Types, s \in Merged :
        /\ \A v \in CtrlVolumes(s) : /\ v.mount = "" \/ v.mount \in DOMAIN CtrlPodVolumes(s)
                                     /\ v.volume = "tls-key" => v.mount # ""
        /\ \A v \in NodeVolumes(s) : v.mount = "" \/ v.mount \in DOMAIN NodePodVolumes(t, s)

\* The directories of the sockets and of the logs stay where they are.
UsersKeepDirs ==
    \A s \in Merged : \A v \in CtrlVolumes(s) \cup NodeVolumes(s) :
        /\ v.mount \notin {"socket-dir", "plugin-dir", "logs-dir", "/csi"}
        /\ v.volume \notin {"plugin-dir", "logs-dir"}

\* Nothing is to be done: the last iteration on the newest spec had no error.
settled == ~queued

Names(o) == {c.name : c \in ContainersOf(o)}
PortsOf(o) == UNION {c.ports : c \in ContainersOf(o)}

\* A policy that selects pods of the driver opens every port a container of them
\* declares, once an iteration of reconcilers that compose policies and workloads on
\* their own has succeeded (reconcileControllerPluginNetworkPolicy,
\* reconcileNodePluginCsiAddonsNetworkPolicy).  It is not about the metrics port: the
\* probe listens there without declaring it, and no policy opens it.
PortsOpen ==
    settled => /\ objs["ctrlPolicy"] # Absent => PortsOf("deployment") \subseteq objs["ctrlPolicy"]
               /\ objs["addonsPolicy"] # Absent => PortsOf("addonsDaemonSet") \subseteq objs["addonsPolicy"]

Has(o, arg) == \E c \in ContainersOf(o) : arg \in c.args

\* Whatever edits, errors and half-done iterations came before, the objects that go
\* together agree: the log-rotation ConfigMap is there exactly when containers mount
\* it, the metrics Service exactly when the probes are, with the port they are told to
\* listen on as its target, a policy exactly when there are pods off the host network
\* for it to select, and node plugins report domains only to a provisioner that goes by
\* topology (the deleting branches of the reconcilers, reconcileLivenessService).
\* The provisioner may go by topology alone, when the list of labels is empty.
Companions ==
    settled =>
        /\ \A o \in {"deployment", "daemonSet"} :
              /\ "log-rotator" \in Names(o) <=> objs["logRotateConfig"] # Absent
              /\ "liveness-prometheus" \in Names(o) <=> objs["service"] # Absent
              /\ objs["service"] # Absent => Has(o, MetricsPortArg(objs["service"].targetPort))
        /\ objs["addonsDaemonSet"] # Absent <=> objs["addonsPolicy"] # Absent
        /\ objs["deployment"].hostNetwork <=> objs["ctrlPolicy"] = Absent
        /\ Has("daemonSet", DomainLabelsArg) => Has("deployment", TopologyArg)

\* The sources of the volumes of o that container c mounts at a path.
MountedAt(o, c, path) == {objs[o].volumes[n] : n \in {m \in DOMAIN c.mounts : c.mounts[m] = path}}

\* The sockets c serves or dials, each with the directory it is in.  A liveness probe
\* dials its endpoint.
Sockets(o, c, args) == {<<dir, a[2]>> : dir \in MountedAt(o, c, "/csi"), a \in c.args \cap args}
Serves(o, c) == IF LivenessArg \in c.args THEN {} ELSE Sockets(o, c, {EndpointArg, CsiAddonsEndpointArg})
Dials(o, c) == Sockets(o, c, IF LivenessArg \in c.args THEN {EndpointArg} ELSE {CsiAddressArg, CsiAddonsAddressArg})

Served == UNION {UNION {Serves(o, c) : c \in ContainersOf(o)} : o \in Workloads}

\* Every socket a sidecar dials is served, in the directory that server and client
\* both mount: by the plugin of the same pod, or, for the CSI-Addons pods of the
\* nodes, by the node plugin through the host, both told the kubelet's directory by
\* reconcilers of their own.  The kubelet is given the socket at its path on the host.
SocketsServed ==
    settled =>
        /\ \A o \in Workloads : \A c \in ContainersOf(o) :
              Dials(o, c) # {} \/ c.args \cap {CsiAddressArg, CsiAddonsAddressArg, LivenessArg} = {}
        /\ \A o \in Workloads : \A c \in ContainersOf(o) : Dials(o, c) \subseteq Served
        /\ \A c \in ContainersOf("daemonSet") : \A a \in c.args :
              a[1] = "kubelet-registration-path" => <<<<"host", a[2]>>, "csi.sock">> \in Served

LogFiles(o, c) == {<<MountedAt(o, c, "logs-dir"), a[2]>> : a \in {x \in c.args : x[1] = "log_file"}}

\* No two containers on a node write one log file, although the pods of a driver log
\* below the same directory of the host, and every log file is in a directory that
\* a log-rotator of the same pod goes through (LogsDirVolume, LogFileContainerArg).
LogsApart ==
    \A o \in Workloads : \A c \in ContainersOf(o) : \A f \in LogFiles(o, c) :
        /\ \E r \in ContainersOf(o) : r.name = "log-rotator" /\ MountedAt(o, r, "logs-dir") = f[1]
        /\ f[1] # {}
        /\ \A p \in Workloads : \A d \in ContainersOf(p) :
              f \in LogFiles(p, d) => p = o /\ d = c

VariableFlags == {"nodeid", "node-id", "pod", "pod-uid", "namespace", "drivernamespace"}

\* Every container of a stored workload has an image, and every variable its arguments
\* refer to is in its environment: images are looked up by keys written as strings,
\* arguments and environments listed apart (imageDefaults, Args and Env of the containers).
Runnable ==
    \A o \in Workloads : \A c \in ContainersOf(o) :
        /\ c.image \in imageDefaults \cup {"ex-snapshotter"}
        /\ {a[2] : a \in {x \in c.args : x[1] \in VariableFlags}} \subseteq c.env

Current(o) ==
    LET s == Merge(spec, defaults)
    IN  \/ Rejects(o, s) \/ Skips(o, type)
        \/ objs[o] = Desired(o, type, s, LoadImages(spec, defaults, imageSet), nodes)

\* Once the cluster is left alone every object follows the spec, the defaults, the
\* number of nodes and the image set, with the next resync at the latest, and a
\* reconciler that keeps failing does not hold up the others (reconcile,
\* getControllerPluginReplicas, LoadAndValidateDesiredState).
Follows == \A o \in Objects : <>[]Current(o)
=============================================================================
