SPECIFICATION RosterSpec
CONSTANTS
    c1 = c1
    c2 = c2
    c3 = c3
    Clients = {c1, c2, c3}
    Nicks <- McNicks
    Keys = {"bob", "amy", "cat"}
    Fold <- McFold
    Chans = {"#a"}
    Topics = {"t"}
    NoNick = NoNick
    NoClient = NoClient
    NoTopic = NoTopic
    NoMember = NoMember
SYMMETRY McIds
VIEW McView
INVARIANTS TypeOK NickIndexExact MembershipExact BanHolds StandingExact RostersAgree
PROPERTIES OperatorsGranted LivesOnce NoLineOutOfPlace
CHECK_DEADLOCK FALSE
