CONSTANTS
    Slots = 3
    MinSegs = 2
    MaxStarts = 2
    MaxBacklog = 3
    MaxIndex = 4
SPECIFICATION FairSpec
INVARIANTS TypeOK  NoUnfinishedSegment SequenceNearSegments
PROPERTY SegmentsArePublished
CHECK_DEADLOCK FALSE
