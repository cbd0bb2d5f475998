CONSTANTS
    FnInfo <- MCFnInfo
    Programs <- Forward
    Shapes <- MCShapes
    Host = Host
    nil = nil
    lost = lost
    yes = yes
    no = no
    oops = oops
    plain = plain
    dots = dots
    closer = closer
    loop = loop
    cfun = cfun
    apply = apply
    pcall = pcall
    Slack = 5
    Extra = 5
    MinStack = 4
    Counts = {0, 2}
    p1 = p1
    p2 = p2
    p3 = p3
    p4 = p4
    p5 = p5
    Nil = Nil
    Proto <- Protos
    HashProto <- Hashes
    InitCap = 1
    GrowFails = TRUE
SPECIFICATION JitSpec
INVARIANT AdjustedOnStack
