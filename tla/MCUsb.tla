-------------------------------- MODULE MCUsb --------------------------------
EXTENDS UsbCore
Req(type, dir, req, rcpt, value, index, length) ==
  [type |-> type, dir |-> dir, req |-> req, rcpt |-> rcpt, value |-> value,
   index |-> index, length |-> length]
MCRequests ==
  {Req("standard", "in", "get_descriptor", "device", 256 * v, 0, n) : v \in {1, 2}, n \in {1, 5}}
  \cup {Req("standard", "in", "get_configuration", "device", 0, 0, 1),
        Req("standard", "in", "get_descriptor", "device", 256 * 3 + 1, 0, 5),
        Req("standard", "in", "get_descriptor", "iface", 256, 0, 5),
        Req("standard", "in", "get_status", "ep", 0, 1, 2),
        Req("standard", "in", "get_status", "ep", 0, 128 + 1, 2),
        Req("standard", "in", "get_interface", "iface", 0, 0, 1),
        Req("standard", "out", "set_address", "device", 1, 0, 0),
        Req("standard", "out", "set_address", "device", 0, 0, 0),
        Req("standard", "out", "set_configuration", "device", 1, 0, 0),
        Req("standard", "out", "set_configuration", "device", 0, 0, 0),
        Req("standard", "out", "set_feature", "ep", 0, 1, 0),
        Req("standard", "out", "clear_feature", "ep", 0, 1, 0),
        Req("standard", "out", "set_interface", "iface", 1, 0, 0),
        Req("standard", "out", "set_descriptor", "device", 0, 0, 0),
        Req("class", "out", "set_line", "iface", 0, 0, 1),
        Req("class", "in", "get_line", "iface", 0, 0, 1),
        Req("class", "out", "set_control", "iface", 0, 0, 0)}
FairSpec == CoreSpec /\ CoreFair
=============================================================================
