CONSTANTS
    Names = {"natA", "natB"}
    Addrs = {a1}
    Plens = {p24}
    Plens6 = {p64}
    NoAddr = NoAddr
    NoMask = NoMask
    NoNet = NoNet
    NoCall = NoCall
    Dialects = {"6.x"}
    TrailingBlank = {TRUE}
SPECIFICATION Spec
INVARIANT TypeOK
INVARIANT NATNetsFaithful
