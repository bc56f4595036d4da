SPECIFICATION Spec
CONSTANTS
    Hyper = {h1, h2, h3}
    h1 = h1
    h2 = h2
    h3 = h3
    host = host
    user1 = user1
    user2 = user2
    SystemOf <- OneSystem
    UserOf <- TwoUsers
    NoHyper = nobody
INVARIANTS TypeOK UserMarked NoOrphanMark
PROPERTIES ExclusiveProject
