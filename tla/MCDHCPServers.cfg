CONSTANTS
    IntNets = {"intnet"}
    HostIfs = {"vboxnet0"}
    Addrs = {a1, a2}
    Masks = {m24}
    NoAddr = NoAddr
    NoMask = NoMask
    NoServer = NoServer
    NoCall = NoCall
    Dialects = {"5.x", "6.1"}
    TrailingBlank = {TRUE, FALSE}
SPECIFICATION Spec
INVARIANT TypeOK
INVARIANT DHCPsFaithful
