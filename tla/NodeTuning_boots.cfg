SPECIFICATION FairSpec
CONSTANTS
  StaticPod = {"kube-apiserver", "etcd"}
  Service = {"containerd", "kubelet", "systemd-journald"}
  Nameserver = {"home", "vpn"}
  MaxCuts = 1
  MaxStops = 1
INVARIANTS TunedWhenDone ResolvConfThere
PROPERTIES RunEnds
