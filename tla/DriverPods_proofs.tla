-------------------------- MODULE DriverPods_proofs --------------------------
(***************************************************************************)
(* Proofs about DriverPods, for every set of specs and of defaults, of     *)
(* driver types and of node counts, and for every bound.                   *)
(***************************************************************************)
EXTENDS DriverPods, FiniteSetTheorems, TLAPS

-----------------------------------------------------------------------------
(* The invariant *)

\* What is stored was composed from one spec, maybe an earlier one, and not refused.
Composed(o) ==
    \/ objs[o] = Absent
    \/ \E s \in Merged, imgs \in Images, n \in NodeCounts :
          ~Rejects(o, s) /\ objs[o] = Desired(o, type, s, imgs, n)

\* After an iteration without an error all objects are composed from one spec, which
\* is the newest.
ComposedTogether ==
    \E imgs \in Images, n \in NodeCounts : \A o \in Objects :
        /\ ~Rejects(o, Merge(spec, defaults))
        /\ Skips(o, type) \/ objs[o] = Desired(o, type, Merge(spec, defaults), imgs, n)

IInv ==
    /\ TypeOK
    /\ \A o \in Objects : Composed(o)
    /\ type = "nfs" => objs["addonsPolicy"] = Absent
    /\ settled => ComposedTogether

\* Policies, the Service and the ConfigMap of the log rotation.
LEMMA DesiredTypes ==
    ASSUME NEW t, NEW s, NEW imgs, NEW n
    PROVE  /\ \A o \in {"ctrlPolicy", "addonsPolicy"} :
                 Desired(o, t, s, imgs, n) \in (SUBSET Nat) \cup {Absent}
           /\ ~Rejects("logRotateConfig", s) =>
                 Desired("logRotateConfig", t, s, imgs, n) \in {"size", "both", Absent}
<1>1. Desired("ctrlPolicy", t, s, imgs, n) \in (SUBSET Nat) \cup {Absent}
  BY DEF Desired, CtrlPolicy, When, csiAddonsPort, snapshotMetadataPort
<1>2. Desired("addonsPolicy", t, s, imgs, n) \in (SUBSET Nat) \cup {Absent}
  BY DEF Desired, AddonsPolicy, nodeAddonsPort
<1>3. ~Rejects("logRotateConfig", s) =>
         Desired("logRotateConfig", t, s, imgs, n) \in {"size", "both", Absent}
  BY DEF Desired, Rejects, Rotates
<1> QED
  BY <1>1, <1>2, <1>3

\* The Service's target is a port the Driver or the defaults give.
LEMMA ServiceTypes ==
    ASSUME NEW t, NEW s \in Merged, NEW imgs, NEW n
    PROVE  Desired("service", t, s, imgs, n) \in ServiceSpec \cup {Absent}
<1>1. PICK a \in Specs, d \in Opt(Defaults) : s = Merge(a, d)
  BY DEF Merged
<1>2. a \in DriverSpec /\ (d = Unset \/ d \in DriverSpec)
  BY SpecsAssumption DEF Opt
<1>3. s.liveness = a.liveness \/ (d # Unset /\ s.liveness = Or(a.liveness, d.liveness))
  BY <1>1, <1>2 DEF Merge, DriverSpec
<1>4. a.liveness \in Opt(Nat) /\ (d # Unset => d.liveness \in Opt(Nat))
  BY <1>2 DEF DriverSpec
<1>5. s.liveness \in Opt(Nat)
  BY <1>3, <1>4 DEF Or
<1> QED
  BY <1>5 DEF Desired, Metrics, LivenessService, ServiceSpec, Opt

LEMMA InvInit == Init => IInv
<1> SUFFICES ASSUME Init PROVE IInv
  OBVIOUS
<1>1. \A o \in Objects : objs[o] = Absent
  BY DEF Init
<1>2. TypeOK
  BY <1>1, BoundsAssumption DEF Init, TypeOK, Objects
<1> QED
  BY <1>1, <1>2 DEF Init, IInv, Composed, settled, Objects

LEMMA FailingCounts ==
    ASSUME NEW failing \in SUBSET Calls
    PROVE  Cardinality(failing) \in Nat
<1>1. IsFiniteSet({"listNodes"}) /\ IsFiniteSet({"deployment"}) /\ IsFiniteSet({"ctrlPolicy"})
      /\ IsFiniteSet({"daemonSet"}) /\ IsFiniteSet({"addonsDaemonSet"}) /\ IsFiniteSet({"addonsPolicy"})
      /\ IsFiniteSet({"service"}) /\ IsFiniteSet({"logRotateConfig"})
  BY FS_Singleton
<1>2. Calls = {"listNodes"} \cup ({"deployment"} \cup ({"ctrlPolicy"} \cup ({"daemonSet"} \cup
              ({"addonsDaemonSet"} \cup ({"addonsPolicy"} \cup ({"service"} \cup {"logRotateConfig"}))))))
  BY DEF Calls, Objects
<1>3. IsFiniteSet(Calls)
  BY <1>1, <1>2, FS_Union
<1> QED
  BY <1>3, FS_Subset, FS_CardinalityType

LEMMA InvReconcile ==
    ASSUME IInv, NEW failing \in SUBSET Calls, Cardinality(failing) <= left.faults, Reconcile(failing)
    PROVE  IInv'
<1> DEFINE s == Merge(spec, defaults)
           imgs == LoadImages(spec, defaults, imageSet)
           n == IF "listNodes" \in failing THEN 0 ELSE nodes
           rejecting == {o \in Objects : Rejects(o, s)}
           wrote(o) == o \in Completed(failing, rejecting) /\ ~Skips(o, type)
<1>1. TypeOK /\ UNCHANGED <<type, spec, defaults, nodes, imageSet>>
  BY DEF IInv, Reconcile, config
<1>2. s \in Merged /\ n \in NodeCounts
  BY <1>1 DEF TypeOK, Merged, NodeCounts
<1>3. imgs \in Images
  BY <1>1 DEF TypeOK, LoadImages, Images
<1>4. \A o \in Objects : objs'[o] = IF wrote(o) THEN Desired(o, type, s, imgs, n) ELSE objs[o]
  BY DEF Reconcile, Written
<1>5. queued' = ((failing \cap Objects) \cup rejecting # {})
  BY DEF Reconcile
<1>6. left' \in [edits: Nat, faults: Nat]
  <2>1. left.edits \in Nat /\ left.faults \in Nat /\ Cardinality(failing) \in Nat
        /\ left \in [edits: Nat, faults: Nat]
    BY <1>1, FailingCounts DEF TypeOK
  <2>2. left' = [left EXCEPT !.faults = @ - Cardinality(failing)]
    BY DEF Reconcile
  <2> QED
    BY <2>1, <2>2
<1>7. \A o \in Objects : wrote(o) => ~Rejects(o, s)
  BY DEF Completed
<1> HIDE DEF s, imgs, n
<1>8. \A o \in Objects : Composed(o)'
  <2> SUFFICES ASSUME NEW o \in Objects PROVE Composed(o)'
    OBVIOUS
  <2>1. CASE wrote(o)
    BY <1>1, <1>2, <1>3, <1>4, <1>7, <2>1 DEF Composed
  <2>2. CASE ~wrote(o)
    <3>1. objs'[o] = objs[o] /\ Composed(o)
      BY <1>4, <2>2 DEF IInv
    <3> QED
      BY <1>1, <3>1 DEF Composed
  <2> QED
    BY <2>1, <2>2
<1>9. \A o \in {"ctrlPolicy", "addonsPolicy"} : objs'[o] \in (SUBSET Nat) \cup {Absent}
  <2> SUFFICES ASSUME NEW o \in {"ctrlPolicy", "addonsPolicy"}
               PROVE  objs'[o] \in (SUBSET Nat) \cup {Absent}
    OBVIOUS
  <2>1. objs[o] \in (SUBSET Nat) \cup {Absent} /\ o \in Objects
    BY <1>1 DEF TypeOK, Objects
  <2>2. Desired(o, type, s, imgs, n) \in (SUBSET Nat) \cup {Absent}
    BY DesiredTypes
  <2> QED
    BY <1>4, <2>1, <2>2
<1>10. objs'["logRotateConfig"] \in {"size", "both", Absent}
  <2> DEFINE o == "logRotateConfig"
  <2>1. objs[o] \in {"size", "both", Absent} /\ o \in Objects
    BY <1>1 DEF TypeOK, Objects
  <2>2. wrote(o) => Desired(o, type, s, imgs, n) \in {"size", "both", Absent}
    BY <1>7, <2>1, DesiredTypes
  <2> QED
    BY <1>4, <2>1, <2>2
<1>10a. objs'["service"] \in ServiceSpec \cup {Absent}
  <2> DEFINE o == "service"
  <2>1. objs[o] \in ServiceSpec \cup {Absent} /\ o \in Objects
    BY <1>1 DEF TypeOK, Objects
  <2>2. Desired(o, type, s, imgs, n) \in ServiceSpec \cup {Absent}
    BY <1>2, ServiceTypes
  <2> QED
    BY <1>4, <2>1, <2>2
<1>11. TypeOK'
  BY <1>1, <1>5, <1>6, <1>9, <1>10, <1>10a DEF TypeOK
<1>12. type' = "nfs" => objs'["addonsPolicy"] = Absent
  BY <1>1, <1>4 DEF IInv, Skips, Objects
<1>13. settled' => ComposedTogether'
  <2> SUFFICES ASSUME ~queued' PROVE ComposedTogether'
    BY DEF settled
  <2>1. \A o \in Objects : o \notin failing /\ ~Rejects(o, s)
    BY <1>5
  <2>2. \A o \in Objects : Skips(o, type) \/ objs'[o] = Desired(o, type, s, imgs, n)
    BY <1>4, <2>1 DEF Completed
  <2> QED
    BY <1>1, <1>2, <1>3, <2>1, <2>2 DEF ComposedTogether, s
<1> QED
  BY <1>8, <1>11, <1>12, <1>13 DEF IInv

LEMMA InvNext == IInv /\ [Next]_vars => IInv'
<1> SUFFICES ASSUME IInv, [Next]_vars PROVE IInv'
  OBVIOUS
<1>0. TypeOK
  BY DEF IInv
<1>1. CASE Iterate
  BY <1>1, InvReconcile DEF Iterate
<1>2. ASSUME UNCHANGED <<type, objs>>, TypeOK',
             \/ queued'
             \/ UNCHANGED <<spec, defaults, queued>>
      PROVE  IInv'
  <2>1. \A o \in Objects : Composed(o)'
    BY <1>2 DEF IInv, Composed
  <2>2. settled' => ComposedTogether'
    BY <1>2 DEF IInv, settled, ComposedTogether
  <2> QED
    BY <1>2, <2>1, <2>2 DEF IInv
<1>3. CASE Resync
  BY <1>0, <1>2, <1>3 DEF Resync, TypeOK, config
<1>4. CASE \/ \E s \in Specs : EditSpec(s)
           \/ \E d \in Opt(Defaults) : EditDefaults(d)
           \/ \E n \in Nodes : ChangeNodes(n)
           \/ EditImageSet
  <2>1. Edit
    BY <1>4 DEF EditSpec, EditDefaults, ChangeNodes, EditImageSet
  <2>2. left' \in [edits: Nat, faults: Nat]
    BY <1>0, <2>1 DEF TypeOK, Edit
  <2>3. UNCHANGED <<type, objs>> /\ (queued' = TRUE \/ UNCHANGED <<spec, defaults, queued>>)
    BY <1>4 DEF EditSpec, EditDefaults, ChangeNodes, EditImageSet
  <2>4. spec' \in Specs /\ defaults' \in Opt(Defaults) /\ nodes' \in Nodes
        /\ imageSet' \subseteq {"ex-snapshotter"} /\ queued' \in BOOLEAN
    BY <1>0, <1>4 DEF TypeOK, EditSpec, EditDefaults, ChangeNodes, EditImageSet
  <2>5. TypeOK'
    BY <1>0, <2>2, <2>3, <2>4 DEF TypeOK
  <2> QED
    BY <1>2, <2>3, <2>5
<1>5. CASE UNCHANGED vars
  <2>1. UNCHANGED <<type, spec, defaults, nodes, imageSet, queued, objs, left>>
    BY <1>5 DEF vars, config
  <2>2. TypeOK'
    BY <1>0, <2>1 DEF TypeOK
  <2> QED
    BY <1>2, <2>1, <2>2
<1> QED
  BY <1>1, <1>3, <1>4, <1>5 DEF Next

LEMMA Invariant == Spec => []IInv
BY InvInit, InvNext, PTL DEF Spec

\* Every variable keeps its type, and a log rotation the controller cannot express is
\* never stored.
THEOREM TypeCorrect == Spec => []TypeOK
<1>1. IInv => TypeOK
  BY DEF IInv
<1> QED
  BY <1>1, Invariant, PTL

-----------------------------------------------------------------------------
(* The containers *)

LEMMA Fields ==
    ASSUME NEW name, NEW image, NEW args, NEW env, NEW mounts, NEW ports
    PROVE  LET c == Container(name, image, args, env, mounts, ports)
           IN  /\ c.name = name /\ c.image = image /\ c.args = args
               /\ c.env = env /\ c.mounts = mounts /\ c.ports = ports
BY DEF Container

\* The sidecars of the controller plugin that only talk to the CSI socket.
PlainSidecars == {<<"csi-resizer", "resizer">>, <<"csi-attacher", "attacher">>,
                  <<"csi-snapshotter", "snapshotter">>, <<"ex-csi-snapshotter", "ex-snapshotter">>}

LEMMA CtrlCases ==
    ASSUME NEW t, NEW s, NEW imgs, NEW c \in CtrlContainers(t, s, imgs)
    PROVE  \/ c = CtrlPlugin(t, s)
           \/ c = Sidecar("csi-provisioner", "provisioner", When(Topology(t, s), {TopologyArg}))
           \/ \E p \in PlainSidecars : c = Sidecar(p[1], p[2], {})
           \/ t # "nfs" /\ Addons(s) /\ c = AddonsContainer(s, "socket-dir", csiAddonsPort(t), {})
           \/ c = OMapContainer
           \/ Metrics(s) /\ c = LivenessContainer("socket-dir", s.liveness)
           \/ Rotates(s) /\ c = logRotator
           \/ TlsConfigured(t, s) /\ c = SnapshotMetadataContainer(s)
<1>1. \A cond, S, x : x \in When(cond, S) => cond /\ x \in S
  BY DEF When
<1>2. c \in SnapshotContainers(t, s, imgs) =>
         c = Sidecar("csi-snapshotter", "snapshotter", {}) \/ c = Sidecar("ex-csi-snapshotter", "ex-snapshotter", {})
  BY <1>1 DEF SnapshotContainers
<1>3. /\ <<"csi-resizer", "resizer">> \in PlainSidecars /\ <<"csi-attacher", "attacher">> \in PlainSidecars
      /\ <<"csi-snapshotter", "snapshotter">> \in PlainSidecars
      /\ <<"ex-csi-snapshotter", "ex-snapshotter">> \in PlainSidecars
  BY DEF PlainSidecars
<1>4. \A x, y : <<x, y>>[1] = x /\ <<x, y>>[2] = y
  OBVIOUS
<1>5. c \in {CtrlPlugin(t, s), Sidecar("csi-provisioner", "provisioner", When(Topology(t, s), {TopologyArg})),
             Sidecar("csi-resizer", "resizer", {}), Sidecar("csi-attacher", "attacher", {})}
      \/ c \in SnapshotContainers(t, s, imgs)
      \/ c \in When(t # "nfs" /\ Addons(s), {AddonsContainer(s, "socket-dir", csiAddonsPort(t), {})})
      \/ c \in When(t \in {"rbd", "cephfs"} /\ Or(s.omap, FALSE), {OMapContainer})
      \/ c \in When(Metrics(s), {LivenessContainer("socket-dir", s.liveness)})
      \/ c \in When(Rotates(s), {logRotator})
      \/ c \in When(TlsConfigured(t, s), {SnapshotMetadataContainer(s)})
  BY DEF CtrlContainers
<1>6. c \in When(Metrics(s), {LivenessContainer("socket-dir", s.liveness)}) => Metrics(s) /\ c = LivenessContainer("socket-dir", s.liveness)
  BY DEF When
<1>7. c \in When(Rotates(s), {logRotator}) => Rotates(s) /\ c = logRotator
  BY DEF When
<1>8. c \in When(TlsConfigured(t, s), {SnapshotMetadataContainer(s)})
         => TlsConfigured(t, s) /\ c = SnapshotMetadataContainer(s)
  BY DEF When
<1>9. c \in When(t # "nfs" /\ Addons(s), {AddonsContainer(s, "socket-dir", csiAddonsPort(t), {})})
         => t # "nfs" /\ Addons(s) /\ c = AddonsContainer(s, "socket-dir", csiAddonsPort(t), {})
  BY DEF When
<1>10. c \in When(t \in {"rbd", "cephfs"} /\ Or(s.omap, FALSE), {OMapContainer}) => c = OMapContainer
  BY DEF When
<1>11. (\/ c = Sidecar("csi-resizer", "resizer", {}) \/ c = Sidecar("csi-attacher", "attacher", {})
        \/ c = Sidecar("csi-snapshotter", "snapshotter", {})
        \/ c = Sidecar("ex-csi-snapshotter", "ex-snapshotter", {}))
       => \E p \in PlainSidecars : c = Sidecar(p[1], p[2], {})
  BY <1>3, <1>4
<1> QED
  BY <1>2, <1>5, <1>6, <1>7, <1>8, <1>9, <1>10, <1>11

LEMMA CtrlHas ==
    ASSUME NEW t, NEW s, NEW imgs
    PROVE  /\ CtrlPlugin(t, s) \in CtrlContainers(t, s, imgs)
           /\ Sidecar("csi-provisioner", "provisioner", When(Topology(t, s), {TopologyArg}))
                 \in CtrlContainers(t, s, imgs)
           /\ Metrics(s) => LivenessContainer("socket-dir", s.liveness) \in CtrlContainers(t, s, imgs)
           /\ Rotates(s) => logRotator \in CtrlContainers(t, s, imgs)
BY DEF CtrlContainers, When

LEMMA NodeCases ==
    ASSUME NEW t, NEW s
    PROVE  /\ \A c \in NodeContainers(t, s) :
                 \/ c = NodePlugin(t, s)
                 \/ c = Registrar(s)
                 \/ Metrics(s) /\ c = LivenessContainer("plugin-dir", s.liveness)
                 \/ Rotates(s) /\ c = logRotator
           /\ NodePlugin(t, s) \in NodeContainers(t, s)
           /\ Metrics(s) => LivenessContainer("plugin-dir", s.liveness) \in NodeContainers(t, s)
           /\ Rotates(s) => logRotator \in NodeContainers(t, s)
BY DEF NodeContainers, When

MountDirs(s) == When(s.condition = "true", {"plugin-mount-dir", "pods-mount-dir"})

LEMMA AddonsCases ==
    ASSUME NEW s
    PROVE  /\ \A c \in AddonsPods(s).containers :
                 \/ c = AddonsContainer(s, "plugin-dir", nodeAddonsPort, MountDirs(s))
                 \/ Rotates(s) /\ c = logRotator
           /\ Rotates(s) => logRotator \in AddonsPods(s).containers
BY DEF AddonsPods, When, MountDirs

LEMMA MountsDomain ==
    /\ \A names, users : DOMAIN Mounts(names, users) = WithUsers(names, users)
    /\ \A names : WithUsers(names, {}) = names
    /\ \A names, users, kubelet, pod : DOMAIN Volumes(names, users, kubelet, pod) = WithUsers(names, users)
BY DEF Mounts, Volumes, WithUsers

PluginArgs(t, s) ==
    {EndpointArg, NodeIdArg, CsiAddonsEndpointArg, DomainLabelsArg, LogFileArg("csi-plugin")}

LEMMA PluginFields ==
    ASSUME NEW t, NEW s
    PROVE  \A c \in {CtrlPlugin(t, s), NodePlugin(t, s)} :
              /\ c.name = "csi-plugin" /\ c.image = "plugin" /\ c.ports = {}
              /\ c.env = {"POD_IP", "NODE_ID", "POD_NAMESPACE"}
              /\ c.args \subseteq PluginArgs(t, s)
              /\ EndpointArg \in c.args
              /\ Addons(s) => CsiAddonsEndpointArg \in c.args
              /\ LogFileArg("csi-plugin") \in c.args => Rotates(s)
<1>1. LogFileArg("csi-plugin") \notin {EndpointArg, NodeIdArg, CsiAddonsEndpointArg, DomainLabelsArg}
  BY DEF LogFileArg, EndpointArg, NodeIdArg, CsiAddonsEndpointArg, DomainLabelsArg
<1>2. /\ CtrlPlugin(t, s).name = "csi-plugin" /\ CtrlPlugin(t, s).image = "plugin" /\ CtrlPlugin(t, s).ports = {}
      /\ CtrlPlugin(t, s).env = {"POD_IP", "NODE_ID", "POD_NAMESPACE"}
      /\ CtrlPlugin(t, s).args = {EndpointArg, NodeIdArg} \cup When(Addons(s), {CsiAddonsEndpointArg})
                                   \cup When(Rotates(s), {LogFileArg("csi-plugin")})
  BY DEF CtrlPlugin, Container
<1>3. /\ NodePlugin(t, s).name = "csi-plugin" /\ NodePlugin(t, s).image = "plugin" /\ NodePlugin(t, s).ports = {}
      /\ NodePlugin(t, s).env = {"POD_IP", "NODE_ID", "POD_NAMESPACE"}
      /\ NodePlugin(t, s).args = {EndpointArg, NodeIdArg} \cup When(Addons(s), {CsiAddonsEndpointArg})
                                   \cup When(Topology(t, s) /\ DomainLabels(s), {DomainLabelsArg})
                                   \cup When(Rotates(s), {LogFileArg("csi-plugin")})
  BY DEF NodePlugin, Container
<1> QED
  BY <1>1, <1>2, <1>3 DEF When, PluginArgs

LEMMA SidecarFields ==
    ASSUME NEW name, NEW image, NEW args
    PROVE  LET c == Sidecar(name, image, args)
           IN  /\ c.name = name /\ c.image = image /\ c.args = {CsiAddressArg} \cup args
               /\ c.env = {} /\ c.ports = {} /\ c.mounts = Mounts({"socket-dir"}, {})
BY Fields DEF Sidecar

LEMMA AddonsFields ==
    ASSUME NEW s, NEW socketDir, NEW port, NEW more
    PROVE  LET c == AddonsContainer(s, socketDir, port, more)
           IN  /\ c.name = "csi-addons" /\ c.image = "addons" /\ c.ports = {port}
               /\ c.args = {CsiAddonsAddressArg} \cup CsiAddonsPodArgs
                              \cup When(Rotates(s), {LogFileArg("csi-addons")})
               /\ c.env = {"NODE_ID", "POD_UID", "POD_NAME", "POD_NAMESPACE"}
               /\ c.mounts = Mounts({socketDir} \cup When(Rotates(s), {"logs-dir"}) \cup more, {})
BY Fields DEF AddonsContainer

LEMMA OMapFields ==
    /\ OMapContainer.name = "csi-omap-generator" /\ OMapContainer.image = "plugin"
    /\ OMapContainer.args = {DriverNamespaceArg} /\ OMapContainer.env = {"DRIVER_NAMESPACE"}
    /\ OMapContainer.ports = {} /\ OMapContainer.mounts = Mounts({"ceph-csi-config", "keys-tmp-dir"}, {})
BY Fields DEF OMapContainer

LEMMA RotatorFields ==
    /\ logRotator.name = "log-rotator" /\ logRotator.image = "plugin" /\ logRotator.args = {}
    /\ logRotator.env = {} /\ logRotator.ports = {}
    /\ logRotator.mounts = Mounts({"logs-dir", "log-rotate-dir"}, {})
BY Fields DEF logRotator

\* The volume with the TLS key the sidecar for snapshot metadata is configured by.
TlsVolume(s) == CHOOSE v \in CtrlVolumes(s) : v.volume = "tls-key"

LEMMA MetadataFields ==
    ASSUME NEW s
    PROVE  LET c == SnapshotMetadataContainer(s)
           IN  /\ c.name = "csi-snapshot-metadata" /\ c.image = "snapshot-metadata"
               /\ c.args = {CsiAddressArg} /\ c.env = {} /\ c.ports = {snapshotMetadataPort}
               /\ c.mounts = Mounts({"socket-dir", TlsVolume(s).mount}, {})
BY Fields DEF SnapshotMetadataContainer, TlsVolume

LEMMA RegistrarFields ==
    ASSUME NEW s
    PROVE  LET c == Registrar(s)
           IN  /\ c.name = "driver-registrar" /\ c.image = "registrar"
               /\ c.args = {RegistrationPathArg(KubeletDir(s)), CsiAddressArg} /\ c.env = {} /\ c.ports = {}
               /\ c.mounts = Mounts({"plugin-dir", "registration-dir"}, {})
BY Fields DEF Registrar

-----------------------------------------------------------------------------
(* Images and environments *)

Ready(c) ==
    /\ c.image \in imageDefaults \cup {"ex-snapshotter"}
    /\ {a[2] : a \in {x \in c.args : x[1] \in VariableFlags}} \subseteq c.env

\* Arguments that name no variable ask for nothing.
Silent == {EndpointArg, CsiAddressArg, CsiAddonsEndpointArg, CsiAddonsAddressArg, LivenessArg, TopologyArg,
           DomainLabelsArg, LogFileArg("csi-plugin"), LogFileArg("csi-addons")}

LEMMA SilentArgs == \A a \in Silent : a[1] \notin VariableFlags
BY DEF Silent, EndpointArg, CsiAddressArg, CsiAddonsEndpointArg, CsiAddonsAddressArg, LivenessArg, TopologyArg,
       DomainLabelsArg, LogFileArg, VariableFlags

LEMMA ReadyCtrl ==
    ASSUME NEW t, NEW s, NEW imgs, NEW c \in CtrlContainers(t, s, imgs)
    PROVE  Ready(c)
<1>0. NodeIdArg[2] = "NODE_ID" /\ DriverNamespaceArg[2] = "DRIVER_NAMESPACE"
      /\ \A a \in CsiAddonsPodArgs : a[2] \in {"NODE_ID", "POD_UID", "POD_NAME", "POD_NAMESPACE"}
  BY DEF NodeIdArg, DriverNamespaceArg, CsiAddonsPodArgs
<1>1. CASE c = CtrlPlugin(t, s)
  <2>1. c.image = "plugin" /\ c.env = {"POD_IP", "NODE_ID", "POD_NAMESPACE"} /\ c.args \subseteq PluginArgs(t, s)
    BY <1>1, PluginFields
  <2>2. \A a \in c.args : a \in Silent \/ a = NodeIdArg
    BY <2>1 DEF PluginArgs, Silent
  <2> QED
    BY <1>0, <2>1, <2>2, SilentArgs DEF Ready, imageDefaults
<1>2. CASE \/ c = Sidecar("csi-provisioner", "provisioner", When(Topology(t, s), {TopologyArg}))
           \/ \E p \in PlainSidecars : c = Sidecar(p[1], p[2], {})
           \/ c = SnapshotMetadataContainer(s)
  <2>1. c.args \subseteq {CsiAddressArg, TopologyArg}
    <3>1. When(Topology(t, s), {TopologyArg}) \subseteq {TopologyArg}
      BY DEF When
    <3>2. \A p \in PlainSidecars : Sidecar(p[1], p[2], {}).args = {CsiAddressArg} \cup {}
      BY SidecarFields
    <3>3. Sidecar("csi-provisioner", "provisioner", When(Topology(t, s), {TopologyArg})).args
             = {CsiAddressArg} \cup When(Topology(t, s), {TopologyArg})
      BY SidecarFields
    <3>4. SnapshotMetadataContainer(s).args = {CsiAddressArg}
      BY MetadataFields
    <3> QED
      BY <1>2, <3>1, <3>2, <3>3, <3>4
  <2>2. \A a \in c.args : a \in Silent
    BY <2>1 DEF Silent
  <2>3. \A p \in PlainSidecars : p[2] \in {"resizer", "attacher", "snapshotter", "ex-snapshotter"}
    BY DEF PlainSidecars
  <2>4. c.image \in {"provisioner", "snapshot-metadata", "resizer", "attacher", "snapshotter", "ex-snapshotter"}
    <3>1. \A p \in PlainSidecars : Sidecar(p[1], p[2], {}).image = p[2]
      BY SidecarFields
    <3>2. Sidecar("csi-provisioner", "provisioner", When(Topology(t, s), {TopologyArg})).image = "provisioner"
      BY SidecarFields
    <3>3. SnapshotMetadataContainer(s).image = "snapshot-metadata"
      BY MetadataFields
    <3> QED
      BY <1>2, <2>3, <3>1, <3>2, <3>3
  <2> QED
    BY <2>2, <2>4, SilentArgs DEF Ready, imageDefaults
<1>3. CASE c = AddonsContainer(s, "socket-dir", csiAddonsPort(t), {})
  <2>0. /\ c.image = "addons" /\ c.env = {"NODE_ID", "POD_UID", "POD_NAME", "POD_NAMESPACE"}
        /\ c.args = {CsiAddonsAddressArg} \cup CsiAddonsPodArgs \cup When(Rotates(s), {LogFileArg("csi-addons")})
    BY <1>3 DEF AddonsContainer, Container
  <2>1. c.args \subseteq {CsiAddonsAddressArg, LogFileArg("csi-addons")} \cup CsiAddonsPodArgs
    BY <2>0 DEF When
  <2>2. \A a \in c.args : a \in Silent \/ a \in CsiAddonsPodArgs
    BY <2>1 DEF Silent
  <2> QED
    BY <1>0, <2>0, <2>2, SilentArgs DEF Ready, imageDefaults
<1>4. CASE c = OMapContainer
  BY <1>0, <1>4, OMapFields DEF Ready, imageDefaults
<1>5. CASE c = LivenessContainer("socket-dir", s.liveness)
  <2>1. c.image = "plugin" /\ \A a \in c.args : a \in Silent \/ a = MetricsPortArg(s.liveness)
    BY <1>5 DEF LivenessContainer, Container, Silent
  <2>2. MetricsPortArg(s.liveness)[1] \notin VariableFlags
    BY DEF MetricsPortArg, VariableFlags
  <2> QED
    BY <2>1, <2>2, SilentArgs DEF Ready, imageDefaults
<1>6. CASE c = logRotator
  BY <1>6, RotatorFields DEF Ready, imageDefaults
<1> QED
  BY <1>1, <1>2, <1>3, <1>4, <1>5, <1>6, CtrlCases

LEMMA ReadyNode ==
    ASSUME NEW t, NEW s, NEW c \in NodeContainers(t, s) \cup AddonsPods(s).containers
    PROVE  Ready(c)
<1>0. NodeIdArg[2] = "NODE_ID"
      /\ \A a \in CsiAddonsPodArgs : a[2] \in {"NODE_ID", "POD_UID", "POD_NAME", "POD_NAMESPACE"}
  BY DEF NodeIdArg, CsiAddonsPodArgs
<1>1. CASE c = NodePlugin(t, s)
  <2>1. c.image = "plugin" /\ c.env = {"POD_IP", "NODE_ID", "POD_NAMESPACE"} /\ c.args \subseteq PluginArgs(t, s)
    BY <1>1, PluginFields
  <2>2. \A a \in c.args : a \in Silent \/ a = NodeIdArg
    BY <2>1 DEF PluginArgs, Silent
  <2> QED
    BY <1>0, <2>1, <2>2, SilentArgs DEF Ready, imageDefaults
<1>2. CASE c = Registrar(s)
  <2>1. c.image = "registrar" /\ c.args = {RegistrationPathArg(KubeletDir(s)), CsiAddressArg}
    BY <1>2, RegistrarFields
  <2>2. \A a \in c.args : a[1] \notin VariableFlags
    BY <2>1 DEF RegistrationPathArg, CsiAddressArg, VariableFlags
  <2> QED
    BY <2>1, <2>2 DEF Ready, imageDefaults
<1>3. CASE c = LivenessContainer("plugin-dir", s.liveness)
  <2>1. c.image = "plugin" /\ \A a \in c.args : a \in Silent \/ a = MetricsPortArg(s.liveness)
    BY <1>3 DEF LivenessContainer, Container, Silent
  <2>2. MetricsPortArg(s.liveness)[1] \notin VariableFlags
    BY DEF MetricsPortArg, VariableFlags
  <2> QED
    BY <2>1, <2>2, SilentArgs DEF Ready, imageDefaults
<1>4. CASE c = logRotator
  BY <1>4, RotatorFields DEF Ready, imageDefaults
<1>5. CASE c = AddonsContainer(s, "plugin-dir", nodeAddonsPort, MountDirs(s))
  <2>0. /\ c.image = "addons" /\ c.env = {"NODE_ID", "POD_UID", "POD_NAME", "POD_NAMESPACE"}
        /\ c.args = {CsiAddonsAddressArg} \cup CsiAddonsPodArgs \cup When(Rotates(s), {LogFileArg("csi-addons")})
    BY <1>5 DEF AddonsContainer, Container
  <2>1. c.args \subseteq {CsiAddonsAddressArg, LogFileArg("csi-addons")} \cup CsiAddonsPodArgs
    BY <2>0 DEF When
  <2>2. \A a \in c.args : a \in Silent \/ a \in CsiAddonsPodArgs
    BY <2>1 DEF Silent
  <2> QED
    BY <1>0, <2>0, <2>2, SilentArgs DEF Ready, imageDefaults
<1> QED
  BY <1>1, <1>2, <1>3, <1>4, <1>5, NodeCases, AddonsCases

-----------------------------------------------------------------------------
(* What is stored *)

LEMMA PodFields ==
    ASSUME NEW t, NEW s, NEW imgs, NEW n
    PROVE  /\ Deployment(t, s, imgs, n).containers = CtrlContainers(t, s, imgs)
           /\ Deployment(t, s, imgs, n).volumes = CtrlPodVolumes(s)
           /\ Deployment(t, s, imgs, n).hostNetwork = HostNetwork(s)
           /\ DaemonSet(t, s).containers = NodeContainers(t, s)
           /\ DaemonSet(t, s).volumes = NodePodVolumes(t, s)
           /\ AddonsPods(s).volumes =
                 Volumes({"plugin-dir"} \cup When(Rotates(s), {"logs-dir", "log-rotate-dir"}) \cup MountDirs(s),
                         {}, KubeletDir(s), "nodeplugin-csi-addons")
BY DEF Deployment, DaemonSet, AddonsPods, MountDirs

LEMMA StoredCases ==
    ASSUME IInv
    PROVE  /\ \/ objs["deployment"] = Absent
              \/ \E s \in Merged, imgs \in Images, n \in NodeCounts :
                    objs["deployment"] = Deployment(type, s, imgs, n)
           /\ objs["daemonSet"] = Absent \/ \E s \in Merged : objs["daemonSet"] = DaemonSet(type, s)
           /\ objs["addonsDaemonSet"] = Absent \/ \E s \in Merged : objs["addonsDaemonSet"] = AddonsPods(s)
<1>1. Composed("deployment") /\ Composed("daemonSet") /\ Composed("addonsDaemonSet")
  BY DEF IInv, Objects
<1>2. \A s, imgs, n : /\ Desired("deployment", type, s, imgs, n) = Deployment(type, s, imgs, n)
                      /\ Desired("daemonSet", type, s, imgs, n) = DaemonSet(type, s)
                      /\ \/ Desired("addonsDaemonSet", type, s, imgs, n) = Absent
                         \/ Desired("addonsDaemonSet", type, s, imgs, n) = AddonsPods(s)
  BY DEF Desired, AddonsDaemonSet
<1> QED
  BY <1>1, <1>2 DEF Composed

LEMMA StoredContainers ==
    ASSUME IInv, NEW o \in Workloads, NEW c \in ContainersOf(o)
    PROVE  /\ objs[o] # Absent /\ c \in objs[o].containers
           /\ \/ o = "deployment" /\ \E s \in Merged, imgs \in Images, n \in NodeCounts :
                    objs[o] = Deployment(type, s, imgs, n) /\ c \in CtrlContainers(type, s, imgs)
              \/ o = "daemonSet" /\ \E s \in Merged : objs[o] = DaemonSet(type, s) /\ c \in NodeContainers(type, s)
              \/ o = "addonsDaemonSet" /\ \E s \in Merged :
                    objs[o] = AddonsPods(s) /\ c \in AddonsPods(s).containers
<1>1. objs[o] # Absent /\ c \in objs[o].containers
  BY DEF ContainersOf
<1>2. CASE o = "deployment"
  <2>1. PICK s \in Merged, imgs \in Images, n \in NodeCounts : objs[o] = Deployment(type, s, imgs, n)
    BY <1>1, <1>2, StoredCases
  <2>2. objs[o].containers = CtrlContainers(type, s, imgs)
    BY <2>1, PodFields
  <2> QED
    BY <1>1, <1>2, <2>1, <2>2
<1>3. CASE o = "daemonSet"
  BY <1>1, <1>3, StoredCases, PodFields
<1>4. CASE o = "addonsDaemonSet"
  BY <1>1, <1>4, StoredCases
<1> QED
  BY <1>1, <1>2, <1>3, <1>4 DEF Workloads

\* Whatever the spec, every container has an image and every variable its arguments
\* refer to (imageDefaults, and the arguments and environments of all containers).
THEOREM AlwaysRunnable == Spec => []Runnable
<1>1. IInv => Runnable
  <2> SUFFICES ASSUME IInv, NEW o \in Workloads, NEW c \in ContainersOf(o) PROVE Ready(c)
    BY DEF Runnable, Ready
  <2> QED
    BY StoredContainers, ReadyCtrl, ReadyNode
<1> QED
  BY <1>1, Invariant, PTL

-----------------------------------------------------------------------------
(* Objects that go together *)

NamesIn(C) == {c.name : c \in C}
PortsIn(C) == UNION {c.ports : c \in C}
ArgIn(C, arg) == \E c \in C : arg \in c.args

LEMMA CtrlTogether ==
    ASSUME NEW t, NEW s, NEW imgs
    PROVE  LET C == CtrlContainers(t, s, imgs)
           IN  /\ "log-rotator" \in NamesIn(C) <=> Rotates(s)
               /\ "liveness-prometheus" \in NamesIn(C) <=> Metrics(s)
               /\ Metrics(s) => ArgIn(C, MetricsPortArg(s.liveness))
               /\ ArgIn(C, TopologyArg) <=> Topology(t, s)
               /\ PortsIn(C) \subseteq When(Addons(s), {csiAddonsPort(t)})
                                         \cup When(TlsConfigured(t, s), {snapshotMetadataPort})
<1> DEFINE C == CtrlContainers(t, s, imgs)
           prov == Sidecar("csi-provisioner", "provisioner", When(Topology(t, s), {TopologyArg}))
           add == AddonsContainer(s, "socket-dir", csiAddonsPort(t), {})
<1>1. \A p \in PlainSidecars : p[1] \notin {"log-rotator", "liveness-prometheus"}
  BY DEF PlainSidecars
<1>2. TopologyArg \notin {EndpointArg, NodeIdArg, CsiAddonsEndpointArg, DomainLabelsArg, LogFileArg("csi-plugin"),
                          CsiAddressArg, CsiAddonsAddressArg, LogFileArg("csi-addons"), LivenessArg,
                          DriverNamespaceArg, MetricsPortArg(s.liveness)} \cup CsiAddonsPodArgs
  BY DEF TopologyArg, MetricsPortArg, EndpointArg, NodeIdArg, CsiAddonsEndpointArg, DomainLabelsArg, LogFileArg, CsiAddressArg,
         CsiAddonsAddressArg, LivenessArg, DriverNamespaceArg, CsiAddonsPodArgs
<1>3. /\ CtrlPlugin(t, s).name = "csi-plugin" /\ CtrlPlugin(t, s).ports = {}
      /\ TopologyArg \notin CtrlPlugin(t, s).args
  BY <1>2, PluginFields DEF PluginArgs
<1>4. /\ prov.name = "csi-provisioner" /\ prov.ports = {}
      /\ prov.args = {CsiAddressArg} \cup When(Topology(t, s), {TopologyArg})
  BY SidecarFields
<1>5. \A p \in PlainSidecars : /\ Sidecar(p[1], p[2], {}).name = p[1] /\ Sidecar(p[1], p[2], {}).ports = {}
                               /\ Sidecar(p[1], p[2], {}).args = {CsiAddressArg}
  BY DEF Sidecar, Container
<1>6. /\ add.name = "csi-addons" /\ add.ports = {csiAddonsPort(t)}
      /\ add.args \subseteq {CsiAddonsAddressArg, LogFileArg("csi-addons")} \cup CsiAddonsPodArgs
  BY DEF AddonsContainer, Container, When
<1>7. /\ LivenessContainer("socket-dir", s.liveness).name = "liveness-prometheus"
      /\ LivenessContainer("socket-dir", s.liveness).ports = {}
      /\ LivenessContainer("socket-dir", s.liveness).args = {LivenessArg, EndpointArg, MetricsPortArg(s.liveness)}
  BY DEF LivenessContainer, Container
<1>8. /\ SnapshotMetadataContainer(s).name = "csi-snapshot-metadata"
      /\ SnapshotMetadataContainer(s).ports = {snapshotMetadataPort}
      /\ SnapshotMetadataContainer(s).args = {CsiAddressArg}
  BY MetadataFields
<1>9. /\ prov \in C /\ (Metrics(s) => LivenessContainer("socket-dir", s.liveness) \in C)
      /\ (Rotates(s) => logRotator \in C)
  BY CtrlHas
<1> HIDE DEF prov, add, C
<1>10. ASSUME NEW c \in C
       PROVE  /\ c.name = "log-rotator" => Rotates(s)
              /\ c.name = "liveness-prometheus" => Metrics(s)
              /\ TopologyArg \in c.args => Topology(t, s)
              /\ \A port \in c.ports : \/ port = csiAddonsPort(t) /\ Addons(s)
                                       \/ port = snapshotMetadataPort /\ TlsConfigured(t, s)
  <2>1. CASE c = CtrlPlugin(t, s)
    BY <1>3, <2>1
  <2>2. CASE c = prov
    <3>1. TopologyArg \in prov.args => Topology(t, s)
      BY <1>2, <1>4 DEF When
    <3> QED
      BY <1>4, <2>2, <3>1
  <2>3. CASE \E p \in PlainSidecars : c = Sidecar(p[1], p[2], {})
    BY <1>1, <1>2, <1>5, <2>3
  <2>4. CASE t # "nfs" /\ Addons(s) /\ c = add
    BY <1>2, <1>6, <2>4
  <2>5. CASE c = OMapContainer
    BY <1>2, <2>5, OMapFields
  <2>6. CASE Metrics(s) /\ c = LivenessContainer("socket-dir", s.liveness)
    BY <1>2, <1>7, <2>6
  <2>7. CASE Rotates(s) /\ c = logRotator
    BY <2>7, RotatorFields
  <2>8. CASE TlsConfigured(t, s) /\ c = SnapshotMetadataContainer(s)
    BY <1>2, <1>8, <2>8
  <2> QED
    BY <2>1, <2>2, <2>3, <2>4, <2>5, <2>6, <2>7, <2>8, CtrlCases DEF C, prov, add
<1>11. Topology(t, s) => TopologyArg \in prov.args
  BY <1>4 DEF When
<1>12. PortsIn(C) \subseteq When(Addons(s), {csiAddonsPort(t)}) \cup When(TlsConfigured(t, s), {snapshotMetadataPort})
  BY <1>10 DEF PortsIn, When
<1>13. /\ "log-rotator" \in NamesIn(C) <=> Rotates(s)
       /\ "liveness-prometheus" \in NamesIn(C) <=> Metrics(s)
  BY <1>7, <1>9, <1>10, RotatorFields DEF NamesIn
<1>14. ArgIn(C, TopologyArg) <=> Topology(t, s)
  BY <1>9, <1>10, <1>11 DEF ArgIn
<1>15. Metrics(s) => ArgIn(C, MetricsPortArg(s.liveness))
  BY <1>7, <1>9 DEF ArgIn
<1> QED
  BY <1>12, <1>13, <1>14, <1>15 DEF C

LEMMA NodeTogether ==
    ASSUME NEW t, NEW s
    PROVE  LET C == NodeContainers(t, s)
           IN  /\ "log-rotator" \in NamesIn(C) <=> Rotates(s)
               /\ "liveness-prometheus" \in NamesIn(C) <=> Metrics(s)
               /\ Metrics(s) => ArgIn(C, MetricsPortArg(s.liveness))
               /\ ArgIn(C, DomainLabelsArg) => Topology(t, s)
<1> DEFINE C == NodeContainers(t, s)
<1>1. DomainLabelsArg \notin {EndpointArg, NodeIdArg, CsiAddonsEndpointArg, LogFileArg("csi-plugin"),
                              CsiAddressArg, LivenessArg, MetricsPortArg(s.liveness),
                              RegistrationPathArg(KubeletDir(s))}
  BY DEF DomainLabelsArg, MetricsPortArg, EndpointArg, NodeIdArg, CsiAddonsEndpointArg, LogFileArg, CsiAddressArg, LivenessArg,
         RegistrationPathArg
<1>2. /\ NodePlugin(t, s).name = "csi-plugin"
      /\ NodePlugin(t, s).args = {EndpointArg, NodeIdArg} \cup When(Addons(s), {CsiAddonsEndpointArg})
                                   \cup When(Topology(t, s) /\ DomainLabels(s), {DomainLabelsArg})
                                   \cup When(Rotates(s), {LogFileArg("csi-plugin")})
  BY DEF NodePlugin, Container
<1>3. DomainLabelsArg \in NodePlugin(t, s).args => Topology(t, s)
  BY <1>1, <1>2 DEF When
<1>4. /\ Registrar(s).name = "driver-registrar"
      /\ Registrar(s).args = {RegistrationPathArg(KubeletDir(s)), CsiAddressArg}
  BY RegistrarFields
<1>5. /\ LivenessContainer("plugin-dir", s.liveness).name = "liveness-prometheus"
      /\ LivenessContainer("plugin-dir", s.liveness).args = {LivenessArg, EndpointArg, MetricsPortArg(s.liveness)}
  BY DEF LivenessContainer, Container
<1>6. \A c \in C : \/ c = NodePlugin(t, s) \/ c = Registrar(s)
                   \/ Metrics(s) /\ c = LivenessContainer("plugin-dir", s.liveness)
                   \/ Rotates(s) /\ c = logRotator
  BY NodeCases
<1>7. /\ NodePlugin(t, s) \in C /\ (Metrics(s) => LivenessContainer("plugin-dir", s.liveness) \in C)
      /\ (Rotates(s) => logRotator \in C)
  BY NodeCases
<1> HIDE DEF C
<1>8. "log-rotator" \in NamesIn(C) <=> Rotates(s)
  BY <1>2, <1>4, <1>5, <1>6, <1>7, RotatorFields DEF NamesIn
<1>9. "liveness-prometheus" \in NamesIn(C) <=> Metrics(s)
  BY <1>2, <1>4, <1>5, <1>6, <1>7, RotatorFields DEF NamesIn
<1>10. ArgIn(C, DomainLabelsArg) => Topology(t, s)
  BY <1>1, <1>3, <1>4, <1>5, <1>6, RotatorFields DEF ArgIn
<1>11. Metrics(s) => ArgIn(C, MetricsPortArg(s.liveness))
  BY <1>5, <1>7 DEF ArgIn
<1> QED
  BY <1>8, <1>9, <1>10, <1>11 DEF C

LEMMA MergedTypes ==
    ASSUME NEW s \in Merged
    PROVE  HostNetwork(s) \in BOOLEAN
<1>1. PICK a \in Specs, d \in Opt(Defaults) : s = Merge(a, d)
  BY DEF Merged
<1>2. a \in DriverSpec /\ (d = Unset \/ d \in DriverSpec)
  BY SpecsAssumption DEF Opt
<1>3. s.ctrl = a.ctrl \/ (d # Unset /\ s.ctrl = MergeCtrl(a.ctrl, d.ctrl))
  BY <1>1, <1>2 DEF Merge, DriverSpec
<1>4. a.ctrl \in Opt(ControllerPluginSpec) /\ (d # Unset => d.ctrl \in Opt(ControllerPluginSpec))
  BY <1>2 DEF DriverSpec
<1>5. \A x, y \in Opt(ControllerPluginSpec) :
         \/ MergeCtrl(x, y) = Unset
         \/ MergeCtrl(x, y).hostNetwork \in Opt(BOOLEAN)
  BY DEF MergeCtrl, Opt, ControllerPluginSpec
<1>6. s.ctrl = Unset \/ s.ctrl.hostNetwork \in Opt(BOOLEAN)
  BY <1>3, <1>4, <1>5 DEF Opt, ControllerPluginSpec
<1>7. CtrlSpec(s).hostNetwork \in Opt(BOOLEAN)
  BY <1>6 DEF CtrlSpec, Or, Opt
<1> QED
  BY <1>7 DEF HostNetwork, Or, Opt

\* Once an iteration had no error: all objects from the merged spec s.
Settled(s, imgs, n) ==
    /\ s \in Merged /\ imgs \in Images /\ n \in NodeCounts /\ type \in Types
    /\ objs["deployment"] = Deployment(type, s, imgs, n) /\ objs["deployment"] # Absent
    /\ objs["daemonSet"] = DaemonSet(type, s) /\ objs["daemonSet"] # Absent
    /\ IF type = "nfs" \/ ~Addons(s)
       THEN objs["addonsDaemonSet"] = Absent /\ objs["addonsPolicy"] = Absent
       ELSE /\ objs["addonsDaemonSet"] = AddonsPods(s) /\ objs["addonsDaemonSet"] # Absent
            /\ objs["addonsPolicy"] = {nodeAddonsPort} /\ objs["addonsPolicy"] # Absent
    /\ objs["ctrlPolicy"] = CtrlPolicy(type, s) /\ (objs["ctrlPolicy"] = Absent <=> HostNetwork(s))
    /\ objs["service"] # Absent <=> Metrics(s)
    /\ Metrics(s) => objs["service"].targetPort = s.liveness
    /\ objs["logRotateConfig"] # Absent <=> Rotates(s)

LEMMA SettledFacts ==
    ASSUME IInv, settled
    PROVE  \E s, imgs, n : Settled(s, imgs, n)
<1> DEFINE s == Merge(spec, defaults)
<1>0. s \in Merged /\ type \in Types
  BY DEF IInv, TypeOK, Merged
<1>1. PICK imgs \in Images, n \in NodeCounts : \A o \in Objects :
         /\ ~Rejects(o, s)
         /\ Skips(o, type) \/ objs[o] = Desired(o, type, s, imgs, n)
  BY DEF IInv, ComposedTogether
<1> HIDE DEF s
<1>2. \A o \in Objects \ {"addonsPolicy"} : objs[o] = Desired(o, type, s, imgs, n)
  BY <1>1 DEF Skips
<1>3. objs["deployment"] = Deployment(type, s, imgs, n)
  BY <1>2 DEF Objects, Desired
<1>4. objs["daemonSet"] = DaemonSet(type, s)
  BY <1>2 DEF Objects, Desired
<1>5. objs["addonsDaemonSet"] = AddonsDaemonSet(type, s)
  BY <1>2 DEF Objects, Desired
<1>6. objs["addonsPolicy"] = IF type = "nfs" \/ ~Addons(s) THEN Absent ELSE {nodeAddonsPort}
  <2>1. CASE type = "nfs"
    BY <2>1 DEF IInv
  <2>2. CASE type # "nfs"
    <3>1. objs["addonsPolicy"] = Desired("addonsPolicy", type, s, imgs, n)
      BY <1>1, <2>2 DEF Skips, Objects
    <3> QED
      BY <2>2, <3>1 DEF Desired, AddonsPolicy
  <2> QED
    BY <2>1, <2>2
<1>7. objs["ctrlPolicy"] = CtrlPolicy(type, s)
  BY <1>2 DEF Objects, Desired
<1>8. objs["service"] = IF Metrics(s) THEN LivenessService(s) ELSE Absent
  BY <1>2 DEF Objects, Desired
<1>9. objs["logRotateConfig"] = IF Rotates(s) THEN s.log ELSE Absent
  BY <1>2 DEF Objects, Desired
<1>10. objs["ctrlPolicy"] = Absent <=> HostNetwork(s)
  <2>1. HostNetwork(s) => CtrlPolicy(type, s) = Absent
    BY DEF CtrlPolicy
  <2>2. ~HostNetwork(s) => CtrlPolicy(type, s) \in SUBSET {9070, nodeAddonsPort, 9080, snapshotMetadataPort}
    BY DEF CtrlPolicy, When, csiAddonsPort
  <2> QED
    BY <1>7, <2>1, <2>2, AbsentAssumption
<1>11. objs["service"] # Absent <=> Metrics(s)
  <2>1. LivenessService(s) # Absent
    BY <1>0, AbsentAssumption
  <2> QED
    BY <1>8, <2>1
<1>11a. Metrics(s) => objs["service"].targetPort = s.liveness
  BY <1>8 DEF LivenessService
<1>12. objs["logRotateConfig"] # Absent <=> Rotates(s)
  BY <1>9, AbsentAssumption DEF Rotates, LogSpec
<1>13. {nodeAddonsPort} # Absent
  <2>1. {nodeAddonsPort} \in SUBSET {9070, nodeAddonsPort, 9080, snapshotMetadataPort}
    OBVIOUS
  <2> QED
    BY <2>1, AbsentAssumption
<1>14. objs["deployment"] # Absent /\ objs["daemonSet"] # Absent /\ AddonsPods(s) # Absent
  BY <1>0, <1>3, <1>4, AbsentAssumption
<1> QED
  BY <1>0, <1>3, <1>4, <1>5, <1>6, <1>7, <1>10, <1>11, <1>11a, <1>12, <1>13, <1>14
     DEF Settled, AddonsDaemonSet

LEMMA SettledPods ==
    ASSUME NEW s, NEW imgs, NEW n, Settled(s, imgs, n)
    PROVE  /\ ContainersOf("deployment") = CtrlContainers(type, s, imgs)
           /\ ContainersOf("daemonSet") = NodeContainers(type, s)
           /\ objs["deployment"].volumes = CtrlPodVolumes(s)
           /\ objs["deployment"].hostNetwork = HostNetwork(s)
           /\ objs["daemonSet"].volumes = NodePodVolumes(type, s)
<1>1. objs["deployment"] = Deployment(type, s, imgs, n) /\ objs["deployment"] # Absent
  BY DEF Settled
<1>2. objs["daemonSet"] = DaemonSet(type, s) /\ objs["daemonSet"] # Absent
  BY DEF Settled
<1>3. /\ Deployment(type, s, imgs, n).containers = CtrlContainers(type, s, imgs)
      /\ Deployment(type, s, imgs, n).volumes = CtrlPodVolumes(s)
      /\ Deployment(type, s, imgs, n).hostNetwork = HostNetwork(s)
      /\ DaemonSet(type, s).containers = NodeContainers(type, s)
      /\ DaemonSet(type, s).volumes = NodePodVolumes(type, s)
  BY PodFields
<1> QED
  BY <1>1, <1>2, <1>3 DEF ContainersOf

LEMMA CompanionsHold == IInv => Companions
<1> SUFFICES ASSUME IInv, settled PROVE Companions
  BY DEF Companions
<1>1. PICK s, imgs, n : Settled(s, imgs, n)
  BY SettledFacts
<1> DEFINE C == CtrlContainers(type, s, imgs)
           D == NodeContainers(type, s)
<1>2. /\ ContainersOf("deployment") = C /\ ContainersOf("daemonSet") = D
      /\ objs["deployment"].hostNetwork = HostNetwork(s)
  BY <1>1, SettledPods
<1>3. /\ "log-rotator" \in NamesIn(C) <=> Rotates(s)
      /\ "liveness-prometheus" \in NamesIn(C) <=> Metrics(s)
      /\ Metrics(s) => ArgIn(C, MetricsPortArg(s.liveness))
      /\ ArgIn(C, TopologyArg) <=> Topology(type, s)
  BY CtrlTogether
<1>4. /\ "log-rotator" \in NamesIn(D) <=> Rotates(s)
      /\ "liveness-prometheus" \in NamesIn(D) <=> Metrics(s)
      /\ Metrics(s) => ArgIn(D, MetricsPortArg(s.liveness))
      /\ ArgIn(D, DomainLabelsArg) => Topology(type, s)
  BY NodeTogether
<1> HIDE DEF C, D
<1>5. \A o \in {"deployment", "daemonSet"} :
         /\ "log-rotator" \in Names(o) <=> objs["logRotateConfig"] # Absent
         /\ "liveness-prometheus" \in Names(o) <=> objs["service"] # Absent
  BY <1>1, <1>2, <1>3, <1>4 DEF Settled, Names, NamesIn
<1>5a. \A o \in {"deployment", "daemonSet"} :
         objs["service"] # Absent => Has(o, MetricsPortArg(objs["service"].targetPort))
  <2> SUFFICES ASSUME objs["service"] # Absent, NEW o \in {"deployment", "daemonSet"}
               PROVE  Has(o, MetricsPortArg(objs["service"].targetPort))
    OBVIOUS
  <2>1. Metrics(s) /\ objs["service"].targetPort = s.liveness
    BY <1>1 DEF Settled
  <2> QED
    BY <1>2, <1>3, <1>4, <2>1 DEF Has, ArgIn
<1>6. objs["addonsDaemonSet"] # Absent <=> objs["addonsPolicy"] # Absent
  BY <1>1 DEF Settled
<1>7. objs["deployment"].hostNetwork <=> objs["ctrlPolicy"] = Absent
  BY <1>1, <1>2, MergedTypes DEF Settled
<1>8. Has("daemonSet", DomainLabelsArg) => Has("deployment", TopologyArg)
  BY <1>2, <1>3, <1>4 DEF Has, ArgIn
<1> QED
  BY <1>5, <1>5a, <1>6, <1>7, <1>8 DEF Companions

\* For every spec, an empty list of domain labels included, every driver type and
\* history of edits and errors: once an iteration had no error, the ConfigMap, the
\* Service, the policies and the workloads agree on what is there and on the metrics
\* port, and no node plugin reports domains to a provisioner that ignores them.
THEOREM CompanionsTogether == Spec => []Companions
BY CompanionsHold, Invariant, PTL

LEMMA PortsHold == IInv => PortsOpen
<1> SUFFICES ASSUME IInv, settled PROVE PortsOpen
  BY DEF PortsOpen
<1>1. PICK s, imgs, n : Settled(s, imgs, n)
  BY SettledFacts
<1>2. PortsOf("deployment") = PortsIn(CtrlContainers(type, s, imgs))
  BY <1>1, SettledPods DEF PortsOf, PortsIn
<1>3. PortsIn(CtrlContainers(type, s, imgs)) \subseteq
         When(Addons(s), {csiAddonsPort(type)}) \cup When(TlsConfigured(type, s), {snapshotMetadataPort})
  BY CtrlTogether
<1>4. objs["ctrlPolicy"] # Absent => PortsOf("deployment") \subseteq objs["ctrlPolicy"]
  BY <1>1, <1>2, <1>3 DEF Settled, CtrlPolicy
<1>5. objs["addonsPolicy"] # Absent => PortsOf("addonsDaemonSet") \subseteq objs["addonsPolicy"]
  <2> SUFFICES ASSUME objs["addonsPolicy"] # Absent
               PROVE  PortsOf("addonsDaemonSet") \subseteq objs["addonsPolicy"]
    OBVIOUS
  <2>1. /\ objs["addonsDaemonSet"] = AddonsPods(s) /\ objs["addonsDaemonSet"] # Absent
        /\ objs["addonsPolicy"] = {nodeAddonsPort}
    BY <1>1 DEF Settled
  <2>2. AddonsContainer(s, "plugin-dir", nodeAddonsPort, MountDirs(s)).ports = {nodeAddonsPort}
    BY DEF AddonsContainer, Container
  <2>3. \A c \in ContainersOf("addonsDaemonSet") : c.ports \subseteq {nodeAddonsPort}
    BY <2>1, <2>2, AddonsCases, RotatorFields DEF ContainersOf
  <2> QED
    BY <2>1, <2>3 DEF PortsOf
<1> QED
  BY <1>4, <1>5 DEF PortsOpen

\* For every spec: once an iteration had no error, a network policy that selects pods
\* opens every port that their containers declare.
THEOREM PortsAreOpen == Spec => []PortsOpen
BY PortsHold, Invariant, PTL

-----------------------------------------------------------------------------
(* Mounts and volumes *)

CtrlNames(s) ==
    {"host-dev", "host-sys", "lib-modules", "socket-dir", "keys-tmp-dir", "oidc-token", "ceph-csi-config"}
      \cup When(Encrypts(s), {"ceph-csi-kms-config"})
      \cup When(Rotates(s), {"logs-dir", "log-rotate-dir"})

\* The built-in volumes of the pods are in them, whatever users add.
LEMMA PodVolumes ==
    ASSUME NEW t, NEW s
    PROVE  /\ CtrlNames(s) \subseteq DOMAIN CtrlPodVolumes(s)
           /\ NodeVolumeNames(t, s) \cup When(isRbdOrNvmeof(t), {"oidc-token"}) \subseteq DOMAIN NodePodVolumes(t, s)
           /\ DOMAIN AddonsPods(s).volumes =
                 {"plugin-dir"} \cup When(Rotates(s), {"logs-dir", "log-rotate-dir"}) \cup MountDirs(s)
<1>1. DOMAIN CtrlPodVolumes(s) = WithUsers(CtrlNames(s), {v.volume : v \in CtrlVolumes(s)})
  BY MountsDomain DEF CtrlPodVolumes, CtrlNames
<1>2. DOMAIN NodePodVolumes(t, s) = WithUsers(NodeVolumeNames(t, s) \cup When(isRbdOrNvmeof(t), {"oidc-token"}),
                                              {v.volume : v \in NodeVolumes(s)})
  BY MountsDomain DEF NodePodVolumes
<1>3. DOMAIN AddonsPods(s).volumes =
         WithUsers({"plugin-dir"} \cup When(Rotates(s), {"logs-dir", "log-rotate-dir"}) \cup MountDirs(s), {})
  <2>1. AddonsPods(s).volumes =
           Volumes({"plugin-dir"} \cup When(Rotates(s), {"logs-dir", "log-rotate-dir"}) \cup MountDirs(s),
                   {}, KubeletDir(s), "nodeplugin-csi-addons")
    BY PodFields
  <2> QED
    BY <2>1, MountsDomain
<1> QED
  BY <1>1, <1>2, <1>3 DEF WithUsers

LEMMA CtrlMounts ==
    ASSUME UsersMountVolumes, NEW t \in Types, NEW s \in Merged, NEW imgs, NEW c \in CtrlContainers(t, s, imgs)
    PROVE  DOMAIN c.mounts \subseteq DOMAIN CtrlPodVolumes(s)
<1> DEFINE V == DOMAIN CtrlPodVolumes(s)
<1>0. CtrlNames(s) \subseteq V /\ \A names : DOMAIN Mounts(names, {}) = names
  BY PodVolumes, MountsDomain
<1>1. \A v \in CtrlVolumes(s) : (v.mount = "" \/ v.mount \in V) /\ (v.volume = "tls-key" => v.mount # "")
  BY DEF UsersMountVolumes
<1> HIDE DEF V
<1>2. CASE c = CtrlPlugin(t, s)
  <2> DEFINE names == {"socket-dir", "host-dev", "host-sys", "lib-modules", "keys-tmp-dir", "ceph-csi-config"}
                       \cup When(Encrypts(s), {"ceph-csi-kms-config"})
                       \cup When(t = "rbd", {"oidc-token"})
                       \cup When(Rotates(s), {"logs-dir"})
             users == {v.mount : v \in CtrlVolumes(s)}
  <2>1. c.mounts = Mounts(names, users)
    BY <1>2 DEF CtrlPlugin, Container
  <2>2. names \subseteq CtrlNames(s)
    BY DEF CtrlNames, When
  <2> HIDE DEF names
  <2>3. DOMAIN c.mounts = names \cup (users \ {""})
    BY <2>1, MountsDomain DEF WithUsers
  <2>4. \A x \in users : x = "" \/ x \in V
    BY <1>1
  <2> HIDE DEF users
  <2>5. DOMAIN c.mounts \subseteq V
    BY <1>0, <2>2, <2>3, <2>4
  <2> QED
    BY <2>5 DEF V
<1>3. CASE \/ c = Sidecar("csi-provisioner", "provisioner", When(Topology(t, s), {TopologyArg}))
           \/ \E p \in PlainSidecars : c = Sidecar(p[1], p[2], {})
           \/ c = LivenessContainer("socket-dir", s.liveness)
  <2>1. c.mounts = Mounts({"socket-dir"}, {})
    BY <1>3 DEF Sidecar, LivenessContainer, Container
  <2> QED
    BY <1>0, <2>1 DEF CtrlNames, V
<1>4. CASE c = AddonsContainer(s, "socket-dir", csiAddonsPort(t), {})
  <2>1. c.mounts = Mounts({"socket-dir"} \cup When(Rotates(s), {"logs-dir"}) \cup {}, {})
    BY <1>4 DEF AddonsContainer, Container
  <2>2. DOMAIN c.mounts = {"socket-dir"} \cup When(Rotates(s), {"logs-dir"}) \cup {}
    BY <1>0, <2>1
  <2> QED
    BY <1>0, <2>2 DEF CtrlNames, When, V
<1>5. CASE c = OMapContainer
  BY <1>0, <1>5, OMapFields DEF CtrlNames, V
<1>6. CASE Rotates(s) /\ c = logRotator
  <2>1. DOMAIN c.mounts = {"logs-dir", "log-rotate-dir"}
    BY <1>0, <1>6, RotatorFields
  <2> QED
    BY <1>0, <1>6, <2>1 DEF CtrlNames, When, V
<1>7. CASE TlsConfigured(t, s) /\ c = SnapshotMetadataContainer(s)
  <2>1. TlsVolume(s) \in CtrlVolumes(s) /\ TlsVolume(s).volume = "tls-key"
    BY <1>7 DEF TlsConfigured, TlsVolume
  <2>2. TlsVolume(s).mount \in V
    BY <1>1, <2>1
  <2>3. c.mounts = Mounts({"socket-dir", TlsVolume(s).mount}, {})
    BY <1>7, MetadataFields
  <2> QED
    BY <1>0, <2>2, <2>3 DEF CtrlNames, V
<1> QED
  <2>1. \/ c = CtrlPlugin(t, s)
        \/ c = Sidecar("csi-provisioner", "provisioner", When(Topology(t, s), {TopologyArg}))
        \/ \E p \in PlainSidecars : c = Sidecar(p[1], p[2], {})
        \/ c = AddonsContainer(s, "socket-dir", csiAddonsPort(t), {})
        \/ c = OMapContainer
        \/ c = LivenessContainer("socket-dir", s.liveness)
        \/ Rotates(s) /\ c = logRotator
        \/ TlsConfigured(t, s) /\ c = SnapshotMetadataContainer(s)
    BY CtrlCases
  <2> QED
    BY <1>2, <1>3, <1>4, <1>5, <1>6, <1>7, <2>1

LEMMA NodeMounts ==
    ASSUME UsersMountVolumes, NEW t \in Types, NEW s \in Merged, NEW c \in NodeContainers(t, s)
    PROVE  DOMAIN c.mounts \subseteq DOMAIN NodePodVolumes(t, s)
<1> DEFINE V == DOMAIN NodePodVolumes(t, s)
           N == NodeVolumeNames(t, s) \cup When(isRbdOrNvmeof(t), {"oidc-token"})
<1>0. N \subseteq V /\ \A names : DOMAIN Mounts(names, {}) = names
  BY PodVolumes, MountsDomain
<1>1. \A v \in NodeVolumes(s) : v.mount = "" \/ v.mount \in V
  BY DEF UsersMountVolumes
<1> HIDE DEF V
<1>2. {"plugin-dir", "registration-dir"} \subseteq N /\ (Rotates(s) => {"logs-dir", "log-rotate-dir"} \subseteq N)
  BY DEF NodeVolumeNames, When
<1>3. CASE c = NodePlugin(t, s)
  <2> DEFINE names == {"host-dev", "host-sys", "host-run-mount", "lib-modules", "keys-tmp-dir", "plugin-dir",
                       "ceph-csi-config", "plugin-mount-dir", "pods-mount-dir"}
                       \cup When(Or(NodeSpec(s).seLinux, FALSE), {"etc-selinux"})
                       \cup When(Encrypts(s), {"ceph-csi-kms-config"})
                       \cup When(t = "cephfs", {"ceph-csi-mountinfo"})
                       \cup When(isRbdOrNvmeof(t), {"oidc-token"})
                       \cup When(Rotates(s), {"logs-dir"})
             users == {v.mount : v \in NodeVolumes(s)}
  <2>1. c.mounts = Mounts(names, users)
    BY <1>3 DEF NodePlugin, Container
  <2>2. names \subseteq N
    BY DEF NodeVolumeNames, When
  <2> HIDE DEF names, N
  <2>3. DOMAIN c.mounts = names \cup (users \ {""})
    BY <2>1, MountsDomain DEF WithUsers
  <2>4. \A x \in users : x = "" \/ x \in V
    BY <1>1
  <2> HIDE DEF users
  <2>5. DOMAIN c.mounts \subseteq V
    BY <1>0, <2>2, <2>3, <2>4
  <2> QED
    BY <2>5 DEF V
<1> HIDE DEF N
<1>4. CASE c = Registrar(s)
  BY <1>0, <1>2, <1>4, RegistrarFields DEF V
<1>5. CASE c = LivenessContainer("plugin-dir", s.liveness)
  <2>1. c.mounts = Mounts({"plugin-dir"}, {})
    BY <1>5 DEF LivenessContainer, Container
  <2> QED
    BY <1>0, <1>2, <2>1 DEF V
<1>6. CASE Rotates(s) /\ c = logRotator
  BY <1>0, <1>2, <1>6, RotatorFields DEF V
<1> QED
  BY <1>3, <1>4, <1>5, <1>6, NodeCases

LEMMA AddonsMounts ==
    ASSUME NEW s, NEW c \in AddonsPods(s).containers
    PROVE  DOMAIN c.mounts \subseteq DOMAIN AddonsPods(s).volumes
<1>0. \A names : DOMAIN Mounts(names, {}) = names
  BY MountsDomain
<1>1. DOMAIN AddonsPods(s).volumes =
         {"plugin-dir"} \cup When(Rotates(s), {"logs-dir", "log-rotate-dir"}) \cup MountDirs(s)
  BY PodVolumes
<1>2. CASE c = AddonsContainer(s, "plugin-dir", nodeAddonsPort, MountDirs(s))
  <2>1. c.mounts = Mounts({"plugin-dir"} \cup When(Rotates(s), {"logs-dir"}) \cup MountDirs(s), {})
    BY <1>2 DEF AddonsContainer, Container
  <2>2. DOMAIN c.mounts = {"plugin-dir"} \cup When(Rotates(s), {"logs-dir"}) \cup MountDirs(s)
    BY <1>0, <2>1
  <2> QED
    BY <1>1, <2>2 DEF When
<1>3. CASE Rotates(s) /\ c = logRotator
  <2>1. DOMAIN c.mounts = {"logs-dir", "log-rotate-dir"}
    BY <1>0, <1>3, RotatorFields
  <2> QED
    BY <1>1, <1>3, <2>1 DEF When
<1> QED
  BY <1>2, <1>3, AddonsCases

\* As long as users' mounts name volumes, every mount of every stored workload does,
\* for every combination of driver type, options and users' volumes.
THEOREM MountsAlwaysHaveVolumes == UsersMountVolumes => (Spec => []MountsHaveVolumes)
<1> SUFFICES ASSUME UsersMountVolumes PROVE Spec => []MountsHaveVolumes
  OBVIOUS
<1>1. IInv => MountsHaveVolumes
  <2> SUFFICES ASSUME IInv, NEW o \in Workloads, NEW c \in ContainersOf(o)
               PROVE  DOMAIN c.mounts \subseteq DOMAIN objs[o].volumes
    BY DEF MountsHaveVolumes
  <2>0. type \in Types
    BY DEF IInv, TypeOK
  <2>1. CASE \E s \in Merged, imgs \in Images, n \in NodeCounts :
                objs[o] = Deployment(type, s, imgs, n) /\ c \in CtrlContainers(type, s, imgs)
    <3>1. PICK s \in Merged, imgs \in Images, n \in NodeCounts :
             objs[o] = Deployment(type, s, imgs, n) /\ c \in CtrlContainers(type, s, imgs)
      BY <2>1
    <3>2. objs[o].volumes = CtrlPodVolumes(s)
      BY <3>1, PodFields
    <3> QED
      BY <2>0, <3>1, <3>2, CtrlMounts
  <2>2. CASE \E s \in Merged : objs[o] = DaemonSet(type, s) /\ c \in NodeContainers(type, s)
    <3>1. PICK s \in Merged : objs[o] = DaemonSet(type, s) /\ c \in NodeContainers(type, s)
      BY <2>2
    <3>2. objs[o].volumes = NodePodVolumes(type, s)
      BY <3>1, PodFields
    <3> QED
      BY <2>0, <3>1, <3>2, NodeMounts
  <2>3. CASE \E s \in Merged : objs[o] = AddonsPods(s) /\ c \in AddonsPods(s).containers
    BY <2>3, AddonsMounts
  <2> QED
    BY <2>1, <2>2, <2>3, StoredContainers
<1> QED
  BY <1>1, Invariant, PTL

-----------------------------------------------------------------------------
(* Logs *)

\* The volumes mounted at a path.
At(mounts, path) == {x \in DOMAIN mounts : mounts[x] = path}

LEMMA LogAt ==
    ASSUME NEW names, NEW users, "logs-dir" \in names
    PROVE  At(Mounts(names, users), "logs-dir") = {"logs-dir"}
BY DEF At, Mounts, WithUsers

LEMMA LogSource ==
    ASSUME NEW names, NEW users, NEW kubelet, NEW pod, "logs-dir" \in names, "logs-dir" \notin users
    PROVE  Volumes(names, users, kubelet, pod)["logs-dir"] = <<"logs", pod>>
BY DEF Volumes, WithUsers

Loggers(t, s) == {CtrlPlugin(t, s), NodePlugin(t, s), AddonsContainer(s, "socket-dir", csiAddonsPort(t), {}),
                  AddonsContainer(s, "plugin-dir", nodeAddonsPort, MountDirs(s))}

\* Only the plugins and the sidecars of CSI-Addons log to a file, which has the
\* name of the container, and only when logs are rotated.
LEMMA QuietArgs ==
    /\ \A a \in {EndpointArg, NodeIdArg, CsiAddonsEndpointArg, DomainLabelsArg, CsiAddressArg, TopologyArg,
                 CsiAddonsAddressArg, LivenessArg, DriverNamespaceArg} \cup CsiAddonsPodArgs : a[1] # "log_file"
    /\ \A port : MetricsPortArg(port)[1] # "log_file"
    /\ \A d : RegistrationPathArg(d)[1] # "log_file"
    /\ \A name : LogFileArg(name)[1] = "log_file" /\ LogFileArg(name)[2] = name
BY DEF EndpointArg, NodeIdArg, CsiAddonsEndpointArg, DomainLabelsArg, CsiAddressArg, TopologyArg,
       CsiAddonsAddressArg, LivenessArg, DriverNamespaceArg, CsiAddonsPodArgs, RegistrationPathArg, LogFileArg,
       MetricsPortArg

LEMMA LoggerFiles ==
    ASSUME NEW t, NEW s, NEW c \in Loggers(t, s), NEW a \in c.args, a[1] = "log_file"
    PROVE  Rotates(s) /\ a = LogFileArg(c.name) /\ a[2] = c.name /\ At(c.mounts, "logs-dir") = {"logs-dir"}
<1>1. CASE c = CtrlPlugin(t, s)
  <2>1. /\ c.name = "csi-plugin"
        /\ c.args = {EndpointArg, NodeIdArg} \cup When(Addons(s), {CsiAddonsEndpointArg})
                      \cup When(Rotates(s), {LogFileArg("csi-plugin")})
    BY <1>1 DEF CtrlPlugin, Container
  <2>2. Rotates(s) /\ a = LogFileArg("csi-plugin")
    BY <2>1, QuietArgs DEF When
  <2> DEFINE names == {"socket-dir", "host-dev", "host-sys", "lib-modules", "keys-tmp-dir", "ceph-csi-config"}
                       \cup When(Encrypts(s), {"ceph-csi-kms-config"})
                       \cup When(t = "rbd", {"oidc-token"})
                       \cup When(Rotates(s), {"logs-dir"})
  <2>3. c.mounts = Mounts(names, {v.mount : v \in CtrlVolumes(s)})
    BY <1>1 DEF CtrlPlugin, Container
  <2>4. "logs-dir" \in names
    BY <2>2 DEF When
  <2> HIDE DEF names
  <2> QED
    BY <2>1, <2>2, <2>3, <2>4, LogAt, QuietArgs
<1>2. CASE c = NodePlugin(t, s)
  <2>1. /\ c.name = "csi-plugin"
        /\ c.args = {EndpointArg, NodeIdArg} \cup When(Addons(s), {CsiAddonsEndpointArg})
                      \cup When(Topology(t, s) /\ DomainLabels(s), {DomainLabelsArg})
                      \cup When(Rotates(s), {LogFileArg("csi-plugin")})
    BY <1>2 DEF NodePlugin, Container
  <2>2. Rotates(s) /\ a = LogFileArg("csi-plugin")
    BY <2>1, QuietArgs DEF When
  <2> DEFINE names == {"host-dev", "host-sys", "host-run-mount", "lib-modules", "keys-tmp-dir", "plugin-dir",
                       "ceph-csi-config", "plugin-mount-dir", "pods-mount-dir"}
                       \cup When(Or(NodeSpec(s).seLinux, FALSE), {"etc-selinux"})
                       \cup When(Encrypts(s), {"ceph-csi-kms-config"})
                       \cup When(t = "cephfs", {"ceph-csi-mountinfo"})
                       \cup When(isRbdOrNvmeof(t), {"oidc-token"})
                       \cup When(Rotates(s), {"logs-dir"})
  <2>3. c.mounts = Mounts(names, {v.mount : v \in NodeVolumes(s)})
    BY <1>2 DEF NodePlugin, Container
  <2>4. "logs-dir" \in names
    BY <2>2 DEF When
  <2> HIDE DEF names
  <2> QED
    BY <2>1, <2>2, <2>3, <2>4, LogAt, QuietArgs
<1>3. ASSUME NEW dir, NEW port, NEW more, c = AddonsContainer(s, dir, port, more)
      PROVE  Rotates(s) /\ a = LogFileArg(c.name) /\ a[2] = c.name /\ At(c.mounts, "logs-dir") = {"logs-dir"}
  <2>1. /\ c.name = "csi-addons"
        /\ c.args = {CsiAddonsAddressArg} \cup CsiAddonsPodArgs \cup When(Rotates(s), {LogFileArg("csi-addons")})
    BY <1>3 DEF AddonsContainer, Container
  <2>2. Rotates(s) /\ a = LogFileArg("csi-addons")
    BY <2>1, QuietArgs DEF When
  <2> DEFINE names == {dir} \cup When(Rotates(s), {"logs-dir"}) \cup more
  <2>3. c.mounts = Mounts(names, {})
    BY <1>3 DEF AddonsContainer, Container
  <2>4. "logs-dir" \in names
    BY <2>2 DEF When
  <2> HIDE DEF names
  <2> QED
    BY <2>1, <2>2, <2>3, <2>4, LogAt, QuietArgs
<1> QED
  BY <1>1, <1>2, <1>3 DEF Loggers

LEMMA OnlyLoggers ==
    ASSUME NEW t, NEW s, NEW imgs, NEW a, a[1] = "log_file"
    PROVE  /\ \A c \in CtrlContainers(t, s, imgs) : a \in c.args =>
                 c \in {CtrlPlugin(t, s), AddonsContainer(s, "socket-dir", csiAddonsPort(t), {})}
           /\ \A c \in NodeContainers(t, s) : a \in c.args => c = NodePlugin(t, s)
           /\ \A c \in AddonsPods(s).containers : a \in c.args =>
                 c = AddonsContainer(s, "plugin-dir", nodeAddonsPort, MountDirs(s))
<1>1. a \notin {CsiAddressArg, TopologyArg, DriverNamespaceArg, LivenessArg, EndpointArg,
                RegistrationPathArg(KubeletDir(s)), MetricsPortArg(s.liveness)}
  BY QuietArgs
<1>2. \A args \in SUBSET {TopologyArg} : \A name, image : a \notin Sidecar(name, image, args).args
  BY <1>1 DEF Sidecar, Container
<1>3. When(Topology(t, s), {TopologyArg}) \in SUBSET {TopologyArg} /\ {} \in SUBSET {TopologyArg}
  BY DEF When
<1>4. a \notin OMapContainer.args /\ a \notin logRotator.args
  BY <1>1, OMapFields, RotatorFields
<1>5. \A dir : a \notin LivenessContainer(dir, s.liveness).args
  BY <1>1 DEF LivenessContainer, Container
<1>6. a \notin SnapshotMetadataContainer(s).args /\ a \notin Registrar(s).args
  <2>1. SnapshotMetadataContainer(s).args = {CsiAddressArg}
    BY DEF SnapshotMetadataContainer, Container
  <2>2. Registrar(s).args = {RegistrationPathArg(KubeletDir(s)), CsiAddressArg}
    BY DEF Registrar, Container
  <2> QED
    BY <1>1, <2>1, <2>2
<1>7. \A c \in CtrlContainers(t, s, imgs) : a \in c.args =>
         c \in {CtrlPlugin(t, s), AddonsContainer(s, "socket-dir", csiAddonsPort(t), {})}
  BY <1>2, <1>3, <1>4, <1>5, <1>6, CtrlCases
<1>8. \A c \in NodeContainers(t, s) : a \in c.args => c = NodePlugin(t, s)
  BY <1>4, <1>5, <1>6, NodeCases
<1>9. \A c \in AddonsPods(s).containers : a \in c.args =>
         c = AddonsContainer(s, "plugin-dir", nodeAddonsPort, MountDirs(s))
  BY <1>4, AddonsCases
<1> QED
  BY <1>7, <1>8, <1>9

PodOf(o) == CASE o = "deployment" -> "ctrlplugin"
              [] o = "daemonSet" -> "nodeplugin"
              [] o = "addonsDaemonSet" -> "nodeplugin-csi-addons"

\* The pods of a stored workload: who logs, with which volume, and who rotates.
LEMMA LogsOf ==
    ASSUME IInv, UsersKeepDirs, NEW o \in Workloads, objs[o] # Absent
    PROVE  \E s \in Merged :
              /\ \A c \in ContainersOf(o) : \A a \in c.args : a[1] = "log_file" => c \in Loggers(type, s)
              /\ \A c, d \in ContainersOf(o) : \A a \in c.args \cap d.args : a[1] = "log_file" => c = d
              /\ Rotates(s) => /\ logRotator \in ContainersOf(o)
                               /\ objs[o].volumes["logs-dir"] = <<"logs", PodOf(o)>>
<1>0. \A s \in Merged : "logs-dir" \notin {v.volume : v \in CtrlVolumes(s)}
                        /\ "logs-dir" \notin {v.volume : v \in NodeVolumes(s)}
  BY DEF UsersKeepDirs
<1>1. ContainersOf(o) = objs[o].containers
  BY DEF ContainersOf
<1>2. LogFileArg("csi-plugin") # LogFileArg("csi-addons")
  BY DEF LogFileArg
<1>3. CASE o = "deployment"
  <2>1. PICK s \in Merged, imgs \in Images, n \in NodeCounts : objs[o] = Deployment(type, s, imgs, n)
    BY <1>3, StoredCases
  <2>2. objs[o].containers = CtrlContainers(type, s, imgs) /\ objs[o].volumes = CtrlPodVolumes(s)
    BY <2>1, PodFields
  <2>3. \A c \in ContainersOf(o) : \A a \in c.args : a[1] = "log_file" => c \in Loggers(type, s)
    BY <1>1, <2>2, OnlyLoggers DEF Loggers
  <2>4. \A c, d \in ContainersOf(o) : \A a \in c.args \cap d.args : a[1] = "log_file" => c = d
    <3> SUFFICES ASSUME NEW c \in ContainersOf(o), NEW d \in ContainersOf(o), NEW a \in c.args \cap d.args,
                        a[1] = "log_file"
                 PROVE  c = d
      OBVIOUS
    <3>1. /\ c \in {CtrlPlugin(type, s), AddonsContainer(s, "socket-dir", csiAddonsPort(type), {})}
          /\ d \in {CtrlPlugin(type, s), AddonsContainer(s, "socket-dir", csiAddonsPort(type), {})}
      BY <1>1, <2>2, OnlyLoggers
    <3>2. a[2] = c.name /\ a[2] = d.name
      BY <3>1, LoggerFiles DEF Loggers
    <3>3. /\ CtrlPlugin(type, s).name = "csi-plugin"
          /\ AddonsContainer(s, "socket-dir", csiAddonsPort(type), {}).name = "csi-addons"
      BY DEF CtrlPlugin, AddonsContainer, Container
    <3>4. c.name = d.name
      BY <3>2
    <3>5. \A P, A : P.name = "csi-plugin" /\ A.name = "csi-addons" /\ {c, d} \subseteq {P, A} => c = d
      BY <3>4
    <3> QED
      BY <3>1, <3>3, <3>5
  <2>5. ASSUME Rotates(s) PROVE logRotator \in ContainersOf(o) /\ objs[o].volumes["logs-dir"] = <<"logs", "ctrlplugin">>
    <3>1. logRotator \in ContainersOf(o)
      BY <1>1, <2>2, <2>5, CtrlHas
    <3>2. "logs-dir" \in CtrlNames(s)
      BY <2>5 DEF CtrlNames, When
    <3>3. CtrlPodVolumes(s) = Volumes(CtrlNames(s), {v.volume : v \in CtrlVolumes(s)}, KubeletDir(s), "ctrlplugin")
      BY DEF CtrlPodVolumes, CtrlNames
    <3> QED
      BY <1>0, <2>2, <3>1, <3>2, <3>3, LogSource
  <2> QED
    BY <1>3, <2>3, <2>4, <2>5 DEF PodOf
<1>4. CASE o = "daemonSet"
  <2>1. PICK s \in Merged : objs[o] = DaemonSet(type, s)
    BY <1>4, StoredCases
  <2>2. objs[o].containers = NodeContainers(type, s) /\ objs[o].volumes = NodePodVolumes(type, s)
    BY <2>1, PodFields
  <2>3. \A c \in ContainersOf(o) : \A a \in c.args : a[1] = "log_file" => c = NodePlugin(type, s)
    <3> SUFFICES ASSUME NEW c \in ContainersOf(o), NEW a \in c.args, a[1] = "log_file"
                 PROVE  c = NodePlugin(type, s)
      OBVIOUS
    <3>1. \A d \in NodeContainers(type, s) : a \in d.args => d = NodePlugin(type, s)
      BY OnlyLoggers
    <3> QED
      BY <1>1, <2>2, <3>1
  <2>4. ASSUME Rotates(s) PROVE logRotator \in ContainersOf(o) /\ objs[o].volumes["logs-dir"] = <<"logs", "nodeplugin">>
    <3>1. logRotator \in ContainersOf(o)
      BY <1>1, <2>2, <2>4, NodeCases
    <3> DEFINE N == NodeVolumeNames(type, s) \cup When(isRbdOrNvmeof(type), {"oidc-token"})
    <3>2. "logs-dir" \in N
      BY <2>4 DEF NodeVolumeNames, When
    <3>3. NodePodVolumes(type, s) = Volumes(N, {v.volume : v \in NodeVolumes(s)}, KubeletDir(s), "nodeplugin")
      BY DEF NodePodVolumes
    <3> HIDE DEF N
    <3> QED
      BY <1>0, <2>2, <3>1, <3>2, <3>3, LogSource
  <2> QED
    BY <1>4, <2>3, <2>4 DEF PodOf, Loggers
<1>5. CASE o = "addonsDaemonSet"
  <2>1. PICK s \in Merged : objs[o] = AddonsPods(s)
    BY <1>5, StoredCases
  <2>2. \A c \in ContainersOf(o) : \A a \in c.args : a[1] = "log_file"
           => c = AddonsContainer(s, "plugin-dir", nodeAddonsPort, MountDirs(s))
    BY <1>1, <2>1, OnlyLoggers
  <2>3. ASSUME Rotates(s)
        PROVE  logRotator \in ContainersOf(o) /\ objs[o].volumes["logs-dir"] = <<"logs", "nodeplugin-csi-addons">>
    <3>1. logRotator \in ContainersOf(o)
      BY <1>1, <2>1, <2>3, AddonsCases
    <3> DEFINE N == {"plugin-dir"} \cup When(Rotates(s), {"logs-dir", "log-rotate-dir"}) \cup MountDirs(s)
    <3>2. "logs-dir" \in N
      BY <2>3 DEF When
    <3>3. AddonsPods(s).volumes = Volumes(N, {}, KubeletDir(s), "nodeplugin-csi-addons")
      BY PodFields
    <3> HIDE DEF N
    <3> QED
      BY <2>1, <3>1, <3>2, <3>3, LogSource
  <2> QED
    BY <1>5, <2>2, <2>3 DEF PodOf, Loggers
<1> QED
  BY <1>3, <1>4, <1>5 DEF Workloads

\* As long as users leave the directory of the logs where it is: no two containers on
\* a node write one log file, and each file is rotated.
THEOREM LogsStayApart == UsersKeepDirs => (Spec => []LogsApart)
<1> SUFFICES ASSUME UsersKeepDirs PROVE Spec => []LogsApart
  OBVIOUS
<1>1. IInv => LogsApart
  <2> SUFFICES ASSUME IInv PROVE LogsApart
    OBVIOUS
  <2> DEFINE dir(o) == {<<"logs", PodOf(o)>>}
  <2>1. ASSUME NEW o \in Workloads, NEW c \in ContainersOf(o), NEW f \in LogFiles(o, c)
        PROVE  /\ f = <<dir(o), c.name>>
               /\ \E a \in c.args : a[1] = "log_file" /\ a[2] = c.name
               /\ logRotator \in ContainersOf(o) /\ MountedAt(o, logRotator, "logs-dir") = dir(o)
    <3>1. PICK a \in c.args : a[1] = "log_file" /\ f = <<MountedAt(o, c, "logs-dir"), a[2]>>
      BY DEF LogFiles
    <3>2. objs[o] # Absent
      BY DEF ContainersOf
    <3>3. PICK s \in Merged :
             /\ \A x \in ContainersOf(o) : \A b \in x.args : b[1] = "log_file" => x \in Loggers(type, s)
             /\ Rotates(s) => logRotator \in ContainersOf(o) /\ objs[o].volumes["logs-dir"] = <<"logs", PodOf(o)>>
      BY <3>2, LogsOf
    <3>4. Rotates(s) /\ a[2] = c.name /\ At(c.mounts, "logs-dir") = {"logs-dir"}
      BY <3>1, <3>3, LoggerFiles
    <3>5. MountedAt(o, c, "logs-dir") = dir(o)
      BY <3>3, <3>4 DEF MountedAt, At
    <3>6. At(logRotator.mounts, "logs-dir") = {"logs-dir"}
      BY RotatorFields, LogAt
    <3>7. MountedAt(o, logRotator, "logs-dir") = dir(o)
      BY <3>3, <3>4, <3>6 DEF MountedAt, At
    <3> QED
      BY <3>1, <3>3, <3>4, <3>5, <3>7
  <2>2. \A o, p \in Workloads : dir(o) = dir(p) => o = p
    <3>1. \A x, y : {<<"logs", x>>} = {<<"logs", y>>} => x = y
      <4> SUFFICES ASSUME NEW x, NEW y, {<<"logs", x>>} = {<<"logs", y>>} PROVE x = y
        OBVIOUS
      <4>1. <<"logs", x>> = <<"logs", y>>
        OBVIOUS
      <4> QED
        BY <4>1
    <3>2. \A o, p \in Workloads : PodOf(o) = PodOf(p) => o = p
      BY DEF Workloads, PodOf
    <3> QED
      BY <3>1, <3>2
  <2> HIDE DEF dir
  <2> SUFFICES ASSUME NEW o \in Workloads, NEW c \in ContainersOf(o), NEW f \in LogFiles(o, c)
               PROVE  /\ \E r \in ContainersOf(o) : r.name = "log-rotator" /\ MountedAt(o, r, "logs-dir") = f[1]
                      /\ f[1] # {}
                      /\ \A p \in Workloads : \A d \in ContainersOf(p) : f \in LogFiles(p, d) => p = o /\ d = c
    BY DEF LogsApart
  <2>3. f = <<dir(o), c.name>> /\ logRotator \in ContainersOf(o) /\ MountedAt(o, logRotator, "logs-dir") = dir(o)
    BY <2>1
  <2>4. dir(o) # {}
    BY DEF dir
  <2>5. ASSUME NEW p \in Workloads, NEW d \in ContainersOf(p), f \in LogFiles(p, d)
        PROVE  p = o /\ d = c
    <3>1. f = <<dir(p), d.name>>
      BY <2>1, <2>5
    <3>2. p = o /\ d.name = c.name
      BY <2>2, <2>3, <3>1
    <3>3. PICK a \in c.args : a[1] = "log_file" /\ a[2] = c.name
      BY <2>1
    <3>4. PICK b \in d.args : b[1] = "log_file" /\ b[2] = d.name
      BY <2>1, <2>5
    <3>5. PICK s \in Merged :
             /\ \A x \in ContainersOf(o) : \A y \in x.args : y[1] = "log_file" => x \in Loggers(type, s)
             /\ \A x, z \in ContainersOf(o) : \A y \in x.args \cap z.args : y[1] = "log_file" => x = z
      <4>1. objs[o] # Absent
        BY DEF ContainersOf
      <4> QED
        BY <4>1, LogsOf
    <3>6. a = b
      <4>1. \A x \in Loggers(type, s) : \A y \in x.args : y[1] = "log_file" => y = LogFileArg(x.name)
        BY LoggerFiles
      <4> QED
        BY <3>2, <3>3, <3>4, <3>5, <4>1
    <3> QED
      BY <3>2, <3>3, <3>4, <3>5, <3>6
  <2> QED
    BY <2>3, <2>4, <2>5, RotatorFields
<1> QED
  BY <1>1, Invariant, PTL

-----------------------------------------------------------------------------
(* Sockets *)

Dialing == {CsiAddressArg, CsiAddonsAddressArg, LivenessArg}

\* A container that dials nothing, or one that mounts the sockets' directory and dials
\* what the plugin serves with these options.
Dialer(c, dir, s) ==
    \/ c.args \cap Dialing = {}
    \/ /\ At(c.mounts, "/csi") = {dir}
       /\ LivenessArg \in c.args => EndpointArg \in c.args
       /\ CsiAddonsAddressArg \in c.args => Addons(s)

Server(c, dir, s) ==
    /\ At(c.mounts, "/csi") = {dir}
    /\ LivenessArg \notin c.args /\ EndpointArg \in c.args
    /\ Addons(s) => CsiAddonsEndpointArg \in c.args

\* The sockets of a plugin with these options in directory D.
SocketsIn(D, s) == {<<D, "csi.sock">>} \cup When(Addons(s), {<<D, "csi-addons.sock">>})

LEMMA ArgNames ==
    /\ EndpointArg[2] = "csi.sock" /\ CsiAddressArg[2] = "csi.sock"
    /\ CsiAddonsEndpointArg[2] = "csi-addons.sock" /\ CsiAddonsAddressArg[2] = "csi-addons.sock"
    /\ Dialing \cap {EndpointArg, CsiAddonsEndpointArg, NodeIdArg, DomainLabelsArg, LogFileArg("csi-plugin"),
                     LogFileArg("csi-addons"), DriverNamespaceArg, TopologyArg} = {}
    /\ CsiAddonsAddressArg # LivenessArg /\ CsiAddonsAddressArg # CsiAddressArg /\ CsiAddressArg # LivenessArg
    /\ \A a \in CsiAddonsPodArgs : a # LivenessArg
    /\ \A d : RegistrationPathArg(d) \notin Dialing /\ MetricsPortArg(d) \notin Dialing
BY DEF EndpointArg, CsiAddressArg, CsiAddonsEndpointArg, CsiAddonsAddressArg, LivenessArg, NodeIdArg, TopologyArg,
       DomainLabelsArg, LogFileArg, DriverNamespaceArg, RegistrationPathArg, MetricsPortArg, CsiAddonsPodArgs, Dialing

LEMMA SocketAt ==
    ASSUME NEW dir \in {"socket-dir", "plugin-dir"}, NEW names, NEW users,
           names \cap {"socket-dir", "plugin-dir", "/csi"} = {dir},
           users \cap {"socket-dir", "plugin-dir", "/csi"} = {}
    PROVE  At(Mounts(names, users), "/csi") = {dir}
<1>1. DOMAIN Mounts(names, users) = WithUsers(names, users)
  BY MountsDomain
<1>2. \A x \in WithUsers(names, users) : x # dir => Mounts(names, users)[x] = x /\ x # "/csi"
  BY DEF Mounts, WithUsers
<1>3. dir \in WithUsers(names, users) /\ Mounts(names, users)[dir] = "/csi"
  BY DEF Mounts, WithUsers
<1> QED
  BY <1>1, <1>2, <1>3 DEF At

LEMMA DialsIn ==
    ASSUME NEW o, NEW c, NEW dir, NEW s, Dialer(c, dir, s)
    PROVE  /\ Dials(o, c) # {} \/ c.args \cap Dialing = {}
           /\ Dials(o, c) \subseteq SocketsIn(objs[o].volumes[dir], s)
<1> DEFINE D == objs[o].volumes[dir]
<1>1. CASE c.args \cap Dialing = {}
  <2>1. LivenessArg \notin c.args /\ c.args \cap {CsiAddressArg, CsiAddonsAddressArg} = {}
    BY <1>1 DEF Dialing
  <2>2. Dials(o, c) = {}
    BY <2>1 DEF Dials, Sockets
  <2> QED
    BY <1>1, <2>2
<1>2. CASE /\ c.args \cap Dialing # {}
           /\ At(c.mounts, "/csi") = {dir}
           /\ LivenessArg \in c.args => EndpointArg \in c.args
           /\ CsiAddonsAddressArg \in c.args => Addons(s)
  <2>1. MountedAt(o, c, "/csi") = {D}
    BY <1>2 DEF MountedAt, At
  <2> HIDE DEF D
  <2>2. \A args : Sockets(o, c, args) = {<<D, a[2]>> : a \in c.args \cap args}
    BY <2>1 DEF Sockets
  <2>3. CASE LivenessArg \in c.args
    <3>1. Dials(o, c) = {<<D, a[2]>> : a \in c.args \cap {EndpointArg}}
      BY <2>2, <2>3 DEF Dials
    <3>2. c.args \cap {EndpointArg} = {EndpointArg}
      BY <1>2, <2>3
    <3>3. Dials(o, c) = {<<D, "csi.sock">>}
      BY <3>1, <3>2, ArgNames
    <3> QED
      BY <3>3 DEF SocketsIn, D
  <2>4. CASE LivenessArg \notin c.args
    <3>1. Dials(o, c) = {<<D, a[2]>> : a \in c.args \cap {CsiAddressArg, CsiAddonsAddressArg}}
      BY <2>2, <2>4 DEF Dials
    <3>2. PICK b \in c.args : b \in {CsiAddressArg, CsiAddonsAddressArg}
      BY <1>2, <2>4 DEF Dialing
    <3>3. <<D, b[2]>> \in Dials(o, c)
      BY <3>1, <3>2
    <3>4. \A a \in c.args \cap {CsiAddressArg, CsiAddonsAddressArg} : <<D, a[2]>> \in SocketsIn(D, s)
      BY <1>2, ArgNames DEF SocketsIn, When
    <3>5. Dials(o, c) \subseteq SocketsIn(D, s)
      BY <3>1, <3>4
    <3> QED
      BY <3>3, <3>5 DEF D
  <2> QED
    BY <2>3, <2>4
<1> QED
  BY <1>1, <1>2 DEF Dialer

LEMMA ServesIn ==
    ASSUME NEW o, NEW c, NEW dir, NEW s, Server(c, dir, s)
    PROVE  SocketsIn(objs[o].volumes[dir], s) \subseteq Serves(o, c)
<1> DEFINE D == objs[o].volumes[dir]
<1>1. MountedAt(o, c, "/csi") = {D}
  BY DEF MountedAt, At, Server
<1> HIDE DEF D
<1>2. Serves(o, c) = {<<D, a[2]>> : a \in c.args \cap {EndpointArg, CsiAddonsEndpointArg}}
  BY <1>1 DEF Serves, Sockets, Server
<1>3. <<D, "csi.sock">> \in Serves(o, c)
  BY <1>2, ArgNames DEF Server
<1>4. Addons(s) => <<D, "csi-addons.sock">> \in Serves(o, c)
  BY <1>2, ArgNames DEF Server
<1>5. SocketsIn(D, s) \subseteq Serves(o, c)
  BY <1>3, <1>4 DEF SocketsIn, When
<1> QED
  BY <1>5 DEF D

LEMMA CtrlSockets ==
    ASSUME UsersKeepDirs, NEW t, NEW s \in Merged, NEW imgs
    PROVE  /\ Server(CtrlPlugin(t, s), "socket-dir", s)
           /\ \A c \in CtrlContainers(t, s, imgs) : Dialer(c, "socket-dir", s)
<1>0. \A v \in CtrlVolumes(s) : v.mount \notin {"socket-dir", "plugin-dir", "/csi"}
  BY DEF UsersKeepDirs
<1>1. At(CtrlPlugin(t, s).mounts, "/csi") = {"socket-dir"}
  <2> DEFINE names == {"socket-dir", "host-dev", "host-sys", "lib-modules", "keys-tmp-dir", "ceph-csi-config"}
                       \cup When(Encrypts(s), {"ceph-csi-kms-config"})
                       \cup When(t = "rbd", {"oidc-token"})
                       \cup When(Rotates(s), {"logs-dir"})
             users == {v.mount : v \in CtrlVolumes(s)}
  <2>1. CtrlPlugin(t, s).mounts = Mounts(names, users)
    BY DEF CtrlPlugin, Container
  <2>2. names \cap {"socket-dir", "plugin-dir", "/csi"} = {"socket-dir"}
    BY DEF When
  <2>3. users \cap {"socket-dir", "plugin-dir", "/csi"} = {}
    BY <1>0
  <2> HIDE DEF names, users
  <2> QED
    BY <2>1, <2>2, <2>3, SocketAt
<1>2. At(Mounts({"socket-dir"}, {}), "/csi") = {"socket-dir"}
  BY SocketAt
<1>3. CtrlPlugin(t, s).args \cap Dialing = {}
  <2>1. CtrlPlugin(t, s).args \subseteq PluginArgs(t, s)
    BY PluginFields
  <2> QED
    BY <2>1, ArgNames DEF PluginArgs
<1>4. Server(CtrlPlugin(t, s), "socket-dir", s)
  <2>1. EndpointArg \in CtrlPlugin(t, s).args /\ (Addons(s) => CsiAddonsEndpointArg \in CtrlPlugin(t, s).args)
    BY PluginFields
  <2> QED
    BY <1>1, <1>3, <2>1 DEF Server, Dialing
<1>5. \A args \in SUBSET {TopologyArg} : \A name, image : Dialer(Sidecar(name, image, args), "socket-dir", s)
  <2> SUFFICES ASSUME NEW args \in SUBSET {TopologyArg}, NEW name, NEW image
               PROVE  Dialer(Sidecar(name, image, args), "socket-dir", s)
    OBVIOUS
  <2> DEFINE c == Sidecar(name, image, args)
  <2>1. c.args = {CsiAddressArg} \cup args /\ c.mounts = Mounts({"socket-dir"}, {})
    BY DEF Sidecar, Container
  <2>2. LivenessArg \notin c.args /\ CsiAddonsAddressArg \notin c.args
    BY <2>1, ArgNames DEF Dialing
  <2> HIDE DEF c
  <2>3. Dialer(c, "socket-dir", s)
    BY <1>2, <2>1, <2>2 DEF Dialer
  <2> QED
    BY <2>3 DEF c
<1>6. When(Topology(t, s), {TopologyArg}) \in SUBSET {TopologyArg} /\ {} \in SUBSET {TopologyArg}
  BY DEF When
<1>7. ASSUME Addons(s) PROVE Dialer(AddonsContainer(s, "socket-dir", csiAddonsPort(t), {}), "socket-dir", s)
  <2> DEFINE c == AddonsContainer(s, "socket-dir", csiAddonsPort(t), {})
             names == {"socket-dir"} \cup When(Rotates(s), {"logs-dir"}) \cup {}
  <2>1. /\ c.args = {CsiAddonsAddressArg} \cup CsiAddonsPodArgs \cup When(Rotates(s), {LogFileArg("csi-addons")})
        /\ c.mounts = Mounts(names, {})
    BY DEF AddonsContainer, Container
  <2>2. LivenessArg \notin c.args
    BY <2>1, ArgNames DEF When, Dialing
  <2>3. names \cap {"socket-dir", "plugin-dir", "/csi"} = {"socket-dir"}
    BY DEF When
  <2> HIDE DEF c, names
  <2>4. At(c.mounts, "/csi") = {"socket-dir"}
    BY <2>1, <2>3, SocketAt
  <2>5. Dialer(c, "socket-dir", s)
    BY <1>7, <2>2, <2>4 DEF Dialer
  <2> QED
    BY <2>5 DEF c
<1>8. Dialer(OMapContainer, "socket-dir", s) /\ Dialer(logRotator, "socket-dir", s)
  BY OMapFields, RotatorFields, ArgNames DEF Dialer
<1>9. Dialer(LivenessContainer("socket-dir", s.liveness), "socket-dir", s)
  <2>1. /\ LivenessContainer("socket-dir", s.liveness).args = {LivenessArg, EndpointArg, MetricsPortArg(s.liveness)}
        /\ LivenessContainer("socket-dir", s.liveness).mounts = Mounts({"socket-dir"}, {})
    BY DEF LivenessContainer, Container
  <2>2. CsiAddonsAddressArg \notin {LivenessArg, EndpointArg, MetricsPortArg(s.liveness)}
    BY ArgNames DEF Dialing
  <2> QED
    BY <1>2, <2>1, <2>2 DEF Dialer
<1>10. ASSUME TlsConfigured(t, s) PROVE Dialer(SnapshotMetadataContainer(s), "socket-dir", s)
  <2>1. TlsVolume(s) \in CtrlVolumes(s)
    BY <1>10 DEF TlsConfigured, TlsVolume
  <2> DEFINE names == {"socket-dir", TlsVolume(s).mount}
  <2>2. /\ SnapshotMetadataContainer(s).args = {CsiAddressArg}
        /\ SnapshotMetadataContainer(s).mounts = Mounts(names, {})
    BY DEF SnapshotMetadataContainer, Container, TlsVolume
  <2>3. names \cap {"socket-dir", "plugin-dir", "/csi"} = {"socket-dir"}
    BY <1>0, <2>1
  <2> HIDE DEF names
  <2>4. At(SnapshotMetadataContainer(s).mounts, "/csi") = {"socket-dir"}
    BY <2>2, <2>3, SocketAt
  <2> QED
    BY <2>2, <2>4, ArgNames DEF Dialer
<1>11. ASSUME NEW c \in CtrlContainers(t, s, imgs) PROVE Dialer(c, "socket-dir", s)
  <2>1. CASE c = CtrlPlugin(t, s)
    BY <1>3, <2>1 DEF Dialer
  <2>2. CASE \/ c = Sidecar("csi-provisioner", "provisioner", When(Topology(t, s), {TopologyArg}))
             \/ \E p \in PlainSidecars : c = Sidecar(p[1], p[2], {})
    BY <1>5, <1>6, <2>2
  <2>3. CASE Addons(s) /\ c = AddonsContainer(s, "socket-dir", csiAddonsPort(t), {})
    BY <1>7, <2>3
  <2>4. CASE c = OMapContainer \/ c = logRotator \/ c = LivenessContainer("socket-dir", s.liveness)
    BY <1>8, <1>9, <2>4
  <2>5. CASE TlsConfigured(t, s) /\ c = SnapshotMetadataContainer(s)
    BY <1>10, <2>5
  <2> QED
    BY <2>1, <2>2, <2>3, <2>4, <2>5, CtrlCases
<1> QED
  BY <1>4, <1>11

LEMMA NodeSockets ==
    ASSUME UsersKeepDirs, NEW t, NEW s \in Merged
    PROVE  /\ Server(NodePlugin(t, s), "plugin-dir", s)
           /\ \A c \in NodeContainers(t, s) : Dialer(c, "plugin-dir", s)
           /\ Addons(s) => \A c \in AddonsPods(s).containers : Dialer(c, "plugin-dir", s)
           /\ \A c \in NodeContainers(t, s) : \A a \in c.args :
                 a[1] = "kubelet-registration-path" => a[2] = KubeletDir(s)
<1>0. \A v \in NodeVolumes(s) : v.mount \notin {"socket-dir", "plugin-dir", "/csi"}
  BY DEF UsersKeepDirs
<1>1. At(NodePlugin(t, s).mounts, "/csi") = {"plugin-dir"}
  <2> DEFINE names == {"host-dev", "host-sys", "host-run-mount", "lib-modules", "keys-tmp-dir", "plugin-dir",
                       "ceph-csi-config", "plugin-mount-dir", "pods-mount-dir"}
                       \cup When(Or(NodeSpec(s).seLinux, FALSE), {"etc-selinux"})
                       \cup When(Encrypts(s), {"ceph-csi-kms-config"})
                       \cup When(t = "cephfs", {"ceph-csi-mountinfo"})
                       \cup When(isRbdOrNvmeof(t), {"oidc-token"})
                       \cup When(Rotates(s), {"logs-dir"})
             users == {v.mount : v \in NodeVolumes(s)}
  <2>1. NodePlugin(t, s).mounts = Mounts(names, users)
    BY DEF NodePlugin, Container
  <2>2. names \cap {"socket-dir", "plugin-dir", "/csi"} = {"plugin-dir"}
    BY DEF When
  <2>3. users \cap {"socket-dir", "plugin-dir", "/csi"} = {}
    BY <1>0
  <2> HIDE DEF names, users
  <2> QED
    BY <2>1, <2>2, <2>3, SocketAt
<1>2. NodePlugin(t, s).args \subseteq PluginArgs(t, s)
  BY PluginFields
<1>3. NodePlugin(t, s).args \cap Dialing = {}
  BY <1>2, ArgNames DEF PluginArgs
<1>4. Server(NodePlugin(t, s), "plugin-dir", s)
  <2>1. EndpointArg \in NodePlugin(t, s).args /\ (Addons(s) => CsiAddonsEndpointArg \in NodePlugin(t, s).args)
    BY PluginFields
  <2> QED
    BY <1>1, <1>3, <2>1 DEF Server, Dialing
<1>5. Dialer(logRotator, "plugin-dir", s)
  BY RotatorFields DEF Dialer
<1>6. Registrar(s).args = {RegistrationPathArg(KubeletDir(s)), CsiAddressArg}
  BY DEF Registrar, Container
<1>7. Dialer(Registrar(s), "plugin-dir", s)
  <2>1. Registrar(s).mounts = Mounts({"plugin-dir", "registration-dir"}, {})
    BY DEF Registrar, Container
  <2>2. At(Registrar(s).mounts, "/csi") = {"plugin-dir"}
    BY <2>1, SocketAt
  <2>3. LivenessArg \notin Registrar(s).args /\ CsiAddonsAddressArg \notin Registrar(s).args
    BY <1>6, ArgNames DEF Dialing
  <2> QED
    BY <2>2, <2>3 DEF Dialer
<1>8. LivenessContainer("plugin-dir", s.liveness).args = {LivenessArg, EndpointArg, MetricsPortArg(s.liveness)}
  BY DEF LivenessContainer, Container
<1>9. Dialer(LivenessContainer("plugin-dir", s.liveness), "plugin-dir", s)
  <2>1. LivenessContainer("plugin-dir", s.liveness).mounts = Mounts({"plugin-dir"}, {})
    BY DEF LivenessContainer, Container
  <2>2. At(LivenessContainer("plugin-dir", s.liveness).mounts, "/csi") = {"plugin-dir"}
    BY <2>1, SocketAt
  <2>3. CsiAddonsAddressArg \notin {LivenessArg, EndpointArg, MetricsPortArg(s.liveness)}
    BY ArgNames DEF Dialing
  <2> QED
    BY <1>8, <2>2, <2>3 DEF Dialer
<1>10. ASSUME Addons(s)
       PROVE  Dialer(AddonsContainer(s, "plugin-dir", nodeAddonsPort, MountDirs(s)), "plugin-dir", s)
  <2> DEFINE c == AddonsContainer(s, "plugin-dir", nodeAddonsPort, MountDirs(s))
             names == {"plugin-dir"} \cup When(Rotates(s), {"logs-dir"}) \cup MountDirs(s)
  <2>1. /\ c.args = {CsiAddonsAddressArg} \cup CsiAddonsPodArgs \cup When(Rotates(s), {LogFileArg("csi-addons")})
        /\ c.mounts = Mounts(names, {})
    BY DEF AddonsContainer, Container
  <2>2. LivenessArg \notin c.args
    BY <2>1, ArgNames DEF When, Dialing
  <2>3. names \cap {"socket-dir", "plugin-dir", "/csi"} = {"plugin-dir"}
    BY DEF When, MountDirs
  <2> HIDE DEF c, names
  <2>4. At(c.mounts, "/csi") = {"plugin-dir"}
    BY <2>1, <2>3, SocketAt
  <2>5. Dialer(c, "plugin-dir", s)
    BY <1>10, <2>2, <2>4 DEF Dialer
  <2> QED
    BY <2>5 DEF c
<1>11. \A c \in NodeContainers(t, s) : Dialer(c, "plugin-dir", s)
  <2>1. Dialer(NodePlugin(t, s), "plugin-dir", s)
    BY <1>3 DEF Dialer
  <2> QED
    BY <1>5, <1>7, <1>9, <2>1, NodeCases
<1>12. Addons(s) => \A c \in AddonsPods(s).containers : Dialer(c, "plugin-dir", s)
  BY <1>5, <1>10, AddonsCases
<1>13. \A c \in NodeContainers(t, s) : \A a \in c.args :
          a[1] = "kubelet-registration-path" => a[2] = KubeletDir(s)
  <2>1. \A a \in PluginArgs(t, s) \cup {LivenessArg, EndpointArg, CsiAddressArg} : a[1] # "kubelet-registration-path"
    BY DEF PluginArgs, LivenessArg, EndpointArg, CsiAddressArg, NodeIdArg, CsiAddonsEndpointArg, DomainLabelsArg,
           LogFileArg
  <2>2. RegistrationPathArg(KubeletDir(s))[2] = KubeletDir(s)
    BY DEF RegistrationPathArg
  <2>3. MetricsPortArg(s.liveness)[1] # "kubelet-registration-path"
    BY DEF MetricsPortArg
  <2> QED
    BY <1>2, <1>6, <1>8, <2>1, <2>2, <2>3, NodeCases, RotatorFields
<1> QED
  BY <1>4, <1>11, <1>12, <1>13

LEMMA SocketsHold == UsersKeepDirs /\ IInv => SocketsServed
<1> SUFFICES ASSUME UsersKeepDirs, IInv, settled PROVE SocketsServed
  BY DEF SocketsServed
<1>1. PICK s, imgs, n : Settled(s, imgs, n)
  BY SettledFacts
<1>2. s \in Merged
  BY <1>1 DEF Settled
<1>3. /\ ContainersOf("deployment") = CtrlContainers(type, s, imgs)
      /\ ContainersOf("daemonSet") = NodeContainers(type, s)
      /\ objs["daemonSet"].volumes = NodePodVolumes(type, s)
  BY <1>1, SettledPods
<1> DEFINE host == <<"host", KubeletDir(s)>>
           dir(o) == IF o = "deployment" THEN "socket-dir" ELSE "plugin-dir"
\* The node plugin and its CSI-Addons meet in the kubelet's directory.
<1>4. objs["daemonSet"].volumes["plugin-dir"] = host
  <2> DEFINE N == NodeVolumeNames(type, s) \cup When(isRbdOrNvmeof(type), {"oidc-token"})
             users == {v.volume : v \in NodeVolumes(s)}
  <2>1. NodePodVolumes(type, s) = Volumes(N, users, KubeletDir(s), "nodeplugin")
    BY DEF NodePodVolumes
  <2>2. "plugin-dir" \in N
    BY DEF NodeVolumeNames
  <2>3. "plugin-dir" \notin users
    BY <1>2 DEF UsersKeepDirs
  <2> HIDE DEF N, users
  <2> QED
    BY <1>3, <2>1, <2>2, <2>3 DEF Volumes, WithUsers
<1>5. ASSUME objs["addonsDaemonSet"] # Absent
      PROVE  /\ Addons(s) /\ ContainersOf("addonsDaemonSet") = AddonsPods(s).containers
             /\ objs["addonsDaemonSet"].volumes["plugin-dir"] = host
  <2>1. Addons(s) /\ objs["addonsDaemonSet"] = AddonsPods(s)
    BY <1>1, <1>5 DEF Settled
  <2> DEFINE N == {"plugin-dir"} \cup When(Rotates(s), {"logs-dir", "log-rotate-dir"}) \cup MountDirs(s)
  <2>2. AddonsPods(s).volumes = Volumes(N, {}, KubeletDir(s), "nodeplugin-csi-addons")
    BY PodFields
  <2>3. "plugin-dir" \in N
    OBVIOUS
  <2> HIDE DEF N
  <2>4. objs["addonsDaemonSet"].volumes["plugin-dir"] = host
    BY <2>1, <2>2, <2>3 DEF Volumes, WithUsers
  <2> QED
    BY <1>5, <2>1, <2>4 DEF ContainersOf
<1> DEFINE D(o) == objs[o].volumes[dir(o)]
<1>6. \A o \in Workloads : \A c \in ContainersOf(o) : Dialer(c, dir(o), s)
  <2> SUFFICES ASSUME NEW o \in Workloads, NEW c \in ContainersOf(o) PROVE Dialer(c, dir(o), s)
    OBVIOUS
  <2>1. CASE o = "deployment"
    BY <1>2, <1>3, <2>1, CtrlSockets
  <2>2. CASE o = "daemonSet"
    BY <1>2, <1>3, <2>2, NodeSockets
  <2>3. CASE o = "addonsDaemonSet"
    <3>1. objs["addonsDaemonSet"] # Absent
      BY <2>3 DEF ContainersOf
    <3>2. Addons(s) /\ c \in AddonsPods(s).containers
      BY <1>5, <2>3, <3>1
    <3>3. Dialer(c, "plugin-dir", s)
      BY <1>2, <3>2, NodeSockets
    <3> QED
      BY <2>3, <3>3
  <2> QED
    BY <2>1, <2>2, <2>3 DEF Workloads
<1>7. \A o \in Workloads : \A c \in ContainersOf(o) : Serves(o, c) \subseteq Served
  BY DEF Served
<1>8. SocketsIn(D("deployment"), s) \subseteq Served
  <2>1. Server(CtrlPlugin(type, s), "socket-dir", s) /\ CtrlPlugin(type, s) \in ContainersOf("deployment")
    BY <1>2, <1>3, CtrlSockets, CtrlHas
  <2>2. SocketsIn(D("deployment"), s) \subseteq Serves("deployment", CtrlPlugin(type, s))
    BY <2>1, ServesIn
  <2> QED
    BY <1>7, <2>1, <2>2 DEF Workloads
<1>9. SocketsIn(host, s) \subseteq Served
  <2>1. Server(NodePlugin(type, s), "plugin-dir", s) /\ NodePlugin(type, s) \in ContainersOf("daemonSet")
    BY <1>2, <1>3, NodeSockets, NodeCases
  <2>2. SocketsIn(objs["daemonSet"].volumes["plugin-dir"], s) \subseteq Serves("daemonSet", NodePlugin(type, s))
    BY <2>1, ServesIn
  <2> QED
    BY <1>4, <1>7, <2>1, <2>2 DEF Workloads
<1>10. ASSUME NEW o \in Workloads, NEW c \in ContainersOf(o)
       PROVE  SocketsIn(D(o), s) \subseteq Served
  <2>1. CASE o = "deployment"
    BY <1>8, <2>1
  <2>2. CASE o = "daemonSet"
    BY <1>4, <1>9, <2>2
  <2>3. CASE o = "addonsDaemonSet"
    <3>1. objs["addonsDaemonSet"] # Absent
      BY <2>3 DEF ContainersOf
    <3> QED
      BY <1>5, <1>9, <2>3, <3>1
  <2> QED
    BY <2>1, <2>2, <2>3 DEF Workloads
<1>11. ASSUME NEW o \in Workloads, NEW c \in ContainersOf(o)
       PROVE  /\ Dials(o, c) # {} \/ c.args \cap {CsiAddressArg, CsiAddonsAddressArg, LivenessArg} = {}
              /\ Dials(o, c) \subseteq Served
  <2>1. Dialer(c, dir(o), s)
    BY <1>6
  <2> HIDE DEF dir
  <2>2. /\ Dials(o, c) # {} \/ c.args \cap Dialing = {}
        /\ Dials(o, c) \subseteq SocketsIn(D(o), s)
    BY <2>1, DialsIn
  <2> QED
    BY <1>10, <2>2 DEF Dialing
<1>12. \A c \in ContainersOf("daemonSet") : \A a \in c.args :
          a[1] = "kubelet-registration-path" => <<<<"host", a[2]>>, "csi.sock">> \in Served
  <2>1. <<host, "csi.sock">> \in Served
    BY <1>9 DEF SocketsIn
  <2>2. \A c \in NodeContainers(type, s) : \A a \in c.args :
           a[1] = "kubelet-registration-path" => a[2] = KubeletDir(s)
    BY <1>2, NodeSockets
  <2> QED
    BY <1>3, <2>1, <2>2
<1> QED
  BY <1>11, <1>12 DEF SocketsServed

\* As long as users leave the directories of the sockets where they are: once an
\* iteration had no error, every socket that is dialed is served, in the directory
\* that both sides mount, and the kubelet is told the path on the host it is at.
THEOREM SocketsAreServed == UsersKeepDirs => (Spec => []SocketsServed)
<1> SUFFICES ASSUME UsersKeepDirs PROVE Spec => []SocketsServed
  OBVIOUS
<1>1. IInv => SocketsServed
  BY SocketsHold
<1> QED
  BY <1>1, Invariant, PTL
=============================================================================
