SPECIFICATION Spec
CONSTANTS
    c1 = c1
    c2 = c2
    Clients = {c1, c2}
    Messages <- MCMessages
    NoFd = NoFd
    Fds = {0, 1, 2}
INVARIANTS
    NothingLeaks
    AnswersAsAsked
PROPERTIES
    ClosesOnlyItsOwn
    EachIsServed
