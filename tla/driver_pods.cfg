SPECIFICATION FairSpec
CONSTANTS
  Types = {"rbd", "cephfs", "nfs", "nvmeof"}
  Specs <- UserSpecs
  Defaults <- DefaultSpecs
  Unset = Unset
  Absent = Absent
  Nodes = {1, 2}
  MaxEdits = 2
  MaxFaults = 1
INVARIANTS TypeOK MountsHaveVolumes PortsOpen Companions SocketsServed LogsApart Runnable
PROPERTY Follows
CHECK_DEADLOCK FALSE
