SPECIFICATION FlowSpec
CONSTANTS
    Absent = Absent
    NotUtf8 = NotUtf8
    Long = 130
    Methods <- ServiceMethods
    Requests <- RequestsOf
    Responses <- ResponsesOf
    StoredBefore <- OldValues
    MapOrders <- Orders
    Junk <- JunkInts
    Mixtures <- Halves
CHECK_DEADLOCK FALSE
INVARIANT SizeAnnounced RequestArrives RefusedForText WriteArrives StoredMerges AnswerArrives
