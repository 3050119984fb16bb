SPECIFICATION Spec
CONSTANTS
    Processes = {p1, p2, p3}
    Slots = {t1, t2}
    NoProcess = NoProcess
INVARIANTS
    TypeOK
    OneEngine
    EngineKnows
