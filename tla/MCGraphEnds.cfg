CONSTANTS
    Tasks = {main, t1, t2}
    Main = main
    EventIds = {e1}
    Labels <- None
    LabelFlags <- None
    NoEvent = NoEvent
    Blocks = {b1}
    BlockType <- MCBlockType
    DataTypes = {num}
    Void = Void
    NullGuid = NullGuid
    Hole = Hole
    Lost = Lost
    num = num
    text = text
    b1 = b1
    b2 = b2
    b3 = b3
    join = join
    gather = gather
    relay = relay
    pass = pass
    Fns = {relay, gather, pass}
    Sig <- MCSig
    Forwarding = {pass}
    EventTypes = {"once", "channel"}
    EventCounts = {2}
    FlagSets = {FALSE}
    EagerFutures = FALSE
    MaxList = 1
    MaxUps = 0
    MaxDowns = 2
    MaxPayloads = 2
SPECIFICATION FairSpec
INVARIANTS ChannelsDeliverOnce
PROPERTIES DueTasksEnd DataflowSpec
CHECK_DEADLOCK FALSE
