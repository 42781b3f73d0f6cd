CONSTANTS
    Tasks = {main, t1}
    Main = main
    EventIds = {e1, e2}
    Labels = {e2}
    LabelFlags <- MCLabelFlags
    NoEvent = NoEvent
    Blocks <- None
    BlockType <- MCBlockType
    DataTypes = {num}
    Void = Void
    NullGuid = NullGuid
    Hole = Hole
    Lost = Lost
    num = num
    text = text
    b1 = b1
    b2 = b2
    b3 = b3
    join = join
    gather = gather
    relay = relay
    pass = pass
    Fns = {relay}
    Sig <- MCSig
    Forwarding = {}
    EventTypes = {"once", "latch", "counted", "sticky", "idempotent"}
    EventCounts = {1, 2}
    FlagSets = {FALSE}
    EagerFutures = FALSE
    MaxList = 0
    MaxUps = 1
    MaxDowns = 2
    MaxPayloads = 2
SPECIFICATION Spec
INVARIANTS LatchesBalance EverySourceIsAttached
CHECK_DEADLOCK FALSE
SYMMETRY Symmetric
