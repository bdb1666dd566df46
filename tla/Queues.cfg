SPECIFICATION QSpec
CONSTANTS
    Producers = {p1, p2, p3}
    Item = {x1, x2, x3}
    Stub = Stub
    Null = Null
    Threads = {t1, t2, t3}
    Value = {v1, v2}
    Capacity = 2
    MaxPushes = 1
INVARIANTS
    LinksOnlyQueued
PROPERTIES
    ImplementsFIFO
    EveryPushIsPopped
    ImplementsBoundedFIFO
    
