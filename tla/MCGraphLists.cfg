CONSTANTS
    Tasks = {main, t1, t2}
    Main = main
    EventIds = {e1, e2}
    Labels <- None
    LabelFlags <- None
    NoEvent = NoEvent
    Blocks = {b1, b2, b3}
    BlockType <- MCBlockType
    DataTypes = {num, text}
    Void = Void
    NullGuid = NullGuid
    Hole = Hole
    Lost = Lost
    num = num
    text = text
    b1 = b1
    b2 = b2
    b3 = b3
    join = join
    gather = gather
    relay = relay
    pass = pass
    Fns = {relay, gather}
    Sig <- MCSig
    Forwarding = {gather}
    EventTypes <- None
    EventCounts <- None
    FlagSets = {FALSE}
    EagerFutures = FALSE
    MaxList = 2
    MaxUps = 0
    MaxDowns = 2
    MaxPayloads = 1
SPECIFICATION Spec
INVARIANTS CompleteListsAccepted
CHECK_DEADLOCK FALSE
SYMMETRY Symmetric
